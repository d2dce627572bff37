------------------------------ MODULE PtyInput -------------------------------
(***************************************************************************)
(* The input side of a pty: the child's output, the read buffer of struct  *)
(* runes_pty and what reaches the screen (pty-unix.c).                     *)
(*                                                                         *)
(* The child writes sequences of bytes: single characters, multi-byte      *)
(* characters and escape sequences.  A read returns any part of what was   *)
(* written.  The parser of libvt100, which is not in this repository,      *)
(* consumes the complete sequences at the front of the buffer; the bytes   *)
(* of an incomplete one are moved to the front and carried over to the     *)
(* next read.  A byte is modelled by its position in the child's output.   *)
(***************************************************************************)
EXTENDS Integers, Sequences

CONSTANTS
    BufferLength,   \* RUNES_READ_BUFFER_LENGTH
    LongestSequence,\* of the sequences a child writes
    MaxBytes        \* bound on the bytes a child writes

\* With a sequence longer than the buffer the carried bytes fill it, the
\* next read asks for no bytes at all, and its result looks like the end of
\* the file.
ASSUME PtyInputAssumption ==
    /\ BufferLength \in Nat /\ LongestSequence \in Nat /\ MaxBytes \in Nat
    /\ 0 < LongestSequence /\ LongestSequence <= BufferLength

VARIABLES
    written,        \* the number of bytes the child has written
    ends,           \* the positions at which its sequences end
    exited,         \* the child has closed the slave side
    got,            \* the number of bytes read so far
    readbuf,        \* the carried bytes: the first remaininglen of readbuf
    screen,         \* the bytes processed, in order
    closed          \* the pty's watch is given up

vars == <<written, ends, exited, got, readbuf, screen, closed>>

TypeOK ==
    /\ written \in Nat /\ got \in Nat /\ got <= written
    /\ ends \in SUBSET (1..written)
    /\ exited \in BOOLEAN /\ closed \in BOOLEAN
    /\ readbuf \in Seq(Nat) /\ screen \in Seq(Nat)

Init ==
    /\ written = 0 /\ ends = {} /\ exited = FALSE
    /\ got = 0 /\ readbuf = <<>> /\ screen = <<>> /\ closed = FALSE

remaininglen == Len(readbuf)

\* The bytes at positions a+1 to b of the child's output.
Bytes(a, b) == [i \in 1..(b - a) |-> a + i]

-----------------------------------------------------------------------------
(* The child *)

\* Every sequence ends at most LongestSequence bytes after the last one.
MayContinue == \E e \in ends \cup {0} : written + 1 - e < LongestSequence

ChildWrites(last) ==
    /\ ~exited
    /\ written < MaxBytes
    /\ last \/ MayContinue
    /\ written' = written + 1
    /\ ends' = IF last THEN ends \cup {written + 1} ELSE ends
    /\ UNCHANGED <<exited, got, readbuf, screen, closed>>

ChildExits ==
    /\ ~exited
    /\ exited' = TRUE
    /\ UNCHANGED <<written, ends, got, readbuf, screen, closed>>

-----------------------------------------------------------------------------
(* runes_pty_input_cb *)

\* vt100_screen_process_string consumes p bytes of buf: up to the end of the
\* last complete sequence.
Processed(buf, p) ==
    /\ p > 0 => buf[p] \in ends
    /\ \A q \in (p + 1)..Len(buf) : buf[q] \notin ends

\* Mutant: the bytes left over stay where they were.
CarryWithoutMoving(buf, p) == SubSeq(buf, 1, Len(buf) - p)

\* memmove(readbuf, readbuf + processed, remaininglen)
Carry(buf, p) == SubSeq(buf, p + 1, Len(buf))

Room == BufferLength - remaininglen

\* read returns n bytes.
Read(n) ==
    LET buf == readbuf \o Bytes(got, got + n)
    IN  /\ ~closed
        /\ 0 < n /\ n <= Room /\ got + n <= written
        /\ got' = got + n
        /\ \E p \in 0..Len(buf) :
              /\ Processed(buf, p)
              /\ screen' = screen \o SubSeq(buf, 1, p)
              /\ readbuf' = Carry(buf, p)
        /\ UNCHANGED <<written, ends, exited, closed>>

\* Mutant: the pty is given up as soon as the child is gone.
ReadNothingEarly ==
    /\ ~closed
    /\ exited
    /\ closed' = TRUE
    /\ UNCHANGED <<written, ends, exited, got, readbuf, screen>>

\* read returns no byte: there is none to come, or no room for one that is
\* there.
ReadNothing ==
    /\ ~closed
    /\ IF got = written THEN exited ELSE Room <= 0
    /\ closed' = TRUE
    /\ UNCHANGED <<written, ends, exited, got, readbuf, screen>>

Next ==
    \/ \E last \in BOOLEAN : ChildWrites(last)
    \/ ChildExits
    \/ \E n \in 1..BufferLength : Read(n)
    \/ ReadNothing

Spec == Init /\ [][Next]_vars

-----------------------------------------------------------------------------
(* Properties *)

\* However the child's output is cut into reads, the screen has processed a
\* prefix of it and the carried bytes are the ones that follow: nothing is
\* lost, repeated or moved by carrying bytes over (pty-unix.c:163-168).
ScreenThenCarry ==
    /\ screen = Bytes(0, Len(screen))
    /\ readbuf = Bytes(Len(screen), got)
    /\ Len(screen) + remaininglen = got

\* No read writes past the end of the buffer, however much is carried over.
NeverOverruns == [][remaininglen + (got' - got) <= BufferLength]_vars

\* The screen never stops in the middle of a sequence.
WholeSequences == Len(screen) \in ends \cup {0}

\* The end of the child's output is believed only when it is the end, with
\* all of the output read: a full buffer never looks like end of file.
NoSpuriousEof == closed => exited /\ got = written

=============================================================================
