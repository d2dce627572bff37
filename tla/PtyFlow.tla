------------------------------ MODULE PtyFlow -------------------------------
(***************************************************************************)
(* Both directions of a pty: the output of the child, as in PtyInput, and  *)
(* what the terminal writes to the child for keys, pastes and mouse        *)
(* reports.  Each direction has a buffer in the kernel.  The terminal's    *)
(* write blocks while the child's input is full, and with it everything    *)
(* else the process does, reading the child's output included.             *)
(*                                                                         *)
(* The kernel's buffers and the child are not in this repository: a write  *)
(* takes as many bytes as there is room for and waits for the rest, and    *)
(* fails once the child has closed its side.  The write is never           *)
(* interrupted: the process handles no signals.                            *)
(***************************************************************************)
EXTENDS PtyInput, FiniteSets, SequencesExt

CONSTANTS
    InCap, OutCap,  \* the sizes of the kernel's two buffers
    MaxHandlers,    \* keys and bytes pasted after which no handler writes
    PasteLength,    \* the bytes of a paste
    Children        \* the kinds of children: does one read while it writes?

ASSUME PtyFlowAssumption ==
    /\ InCap \in Nat \ {0} /\ OutCap \in Nat \ {0}
    /\ MaxHandlers \in Nat /\ PasteLength \in Nat \ {0}
    /\ Children \subseteq {"patient", "selecting"} /\ Children # {}

VARIABLES
    child,          \* a patient child finishes its write before it reads
    busy,           \* the child is in the middle of a write
    asked,          \* what the handlers wrote, one after the other
    todo,           \* the part of it that is not in the kernel yet
    inq,            \* the child's unread input
    taken           \* what the child has read

flowvars == <<child, busy, asked, todo, inq, taken>>
allvars == <<vars, flowvars>>

FlowInit ==
    /\ Init
    /\ child \in Children /\ busy = FALSE
    /\ asked = <<>> /\ todo = <<>> /\ inq = <<>> /\ taken = <<>>

\* The process is inside runes_pty_write.
Writing == todo # <<>>

-----------------------------------------------------------------------------
(* The handlers that write *)

\* runes_window_handle_selection_notify_event, with or without the marks of
\* a bracketed paste.
Paste(bracketed) ==
    LET text == [i \in 1..PasteLength |-> "text"]
    IN  IF bracketed THEN <<"begin">> \o text \o <<"end">> ELSE text

\* runes_window_handle_key_event: Alt is an escape before the key.
KeyPress(alt) == IF alt THEN <<"esc", "key">> ELSE <<"key">>

Units == {Paste(b) : b \in BOOLEAN} \cup {KeyPress(a) : a \in BOOLEAN}

\* The handler of an event begins to write.  The window outlives the child.
Handle(unit) ==
    /\ ~Writing
    /\ Cardinality({i \in DOMAIN asked : asked[i] \in {"text", "key"}}) < MaxHandlers
    /\ asked' = asked \o unit /\ todo' = unit
    /\ UNCHANGED <<vars, child, busy, inq, taken>>

\* Mutant: what does not fit is thrown away.
WriteWithoutWaiting ==
    /\ Writing /\ ~exited
    /\ IF Len(inq) < InCap
       THEN inq' = Append(inq, Head(todo)) /\ todo' = Tail(todo)
       ELSE todo' = <<>> /\ UNCHANGED inq
    /\ UNCHANGED <<vars, child, busy, asked, taken>>

\* runes_pty_write: the kernel takes a byte.
Write ==
    /\ Writing /\ ~exited
    /\ Len(inq) < InCap
    /\ inq' = Append(inq, Head(todo)) /\ todo' = Tail(todo)
    /\ UNCHANGED <<vars, child, busy, asked, taken>>

\* Mutant: a failed write is tried again.
WriteFailsAgain ==
    /\ Writing /\ exited
    /\ UNCHANGED <<vars, flowvars>>

\* The write fails, and nobody looks at its result.
WriteFails ==
    /\ Writing /\ exited
    /\ todo' = <<>>
    /\ UNCHANGED <<vars, child, busy, asked, inq, taken>>

-----------------------------------------------------------------------------
(* The child *)

\* The child has something to say: a write begins.
Begins ==
    /\ ~busy /\ ~exited /\ written < MaxBytes
    /\ busy' = TRUE
    /\ UNCHANGED <<vars, child, asked, todo, inq, taken>>

\* The kernel takes a byte of it, which may be the last one.
Says(last) ==
    /\ busy /\ written - got < OutCap
    /\ ChildWrites(last)
    /\ busy' \in {FALSE, written + 1 < MaxBytes}
    /\ UNCHANGED <<child, asked, todo, inq, taken>>

Takes ==
    /\ inq # <<>> /\ ~exited
    /\ child = "selecting" \/ ~busy
    /\ taken' = Append(taken, Head(inq)) /\ inq' = Tail(inq)
    /\ UNCHANGED <<vars, child, busy, asked, todo>>

Exits == ChildExits /\ UNCHANGED flowvars

-----------------------------------------------------------------------------
(* The callback of the pty, when the process is not inside a write *)

Reads ==
    /\ ~Writing
    /\ ReadNothing \/ \E n \in 1..BufferLength : Read(n)
    /\ UNCHANGED flowvars

Terminal == Reads \/ Write \/ WriteFails
Child == Takes \/ \E last \in BOOLEAN : Says(last)

FlowNext ==
    \/ Terminal \/ Child
    \/ \E unit \in Units : Handle(unit)
    \/ Begins
    \/ Exits

FlowSpec == FlowInit /\ [][FlowNext]_allvars

\* The process runs, and the child reads its input and finishes its writes.
FairFlowSpec ==
    /\ FlowSpec
    /\ WF_allvars(Terminal)
    /\ WF_allvars(Takes) /\ WF_allvars(\E last \in BOOLEAN : Says(last))

-----------------------------------------------------------------------------
(* Properties *)

\* The process and the child wait for each other.
MutualWait ==
    /\ Writing /\ ~exited /\ Len(inq) = InCap
    /\ child = "patient" /\ busy /\ written - got = OutCap

\* Keys and pastes reach the child whole and in order, and nothing gets
\* between a paste and its marks; only the end of the child cuts them short.
InputInOrder ==
    /\ IsPrefix(taken \o inq \o todo, asked) \/ exited
    /\ ~exited => taken \o inq \o todo = asked
    /\ exited => IsPrefix(taken, asked)

\* A write ends, however little room there is: the one thing that holds it
\* up for good is a child that does not read before its own write is done,
\* when both buffers are full.
WriteEnds == Writing ~> (~Writing \/ MutualWait)

\* Every sequence of the child that is complete is shown in the end, even if
\* its bytes arrive in many reads, between the writes of the terminal, and
\* the child has exited meanwhile; the same mutual wait excepted.
OutputIsShown ==
    \A e \in 1..MaxBytes : (e \in ends) ~> (Len(screen) >= e \/ MutualWait)

=============================================================================
