------------------------------ MODULE Request -------------------------------
(***************************************************************************)
(* One request after the other, from the arguments of runesc to the        *)
(* configuration of the terminal that the daemon makes: the packet in      *)
(* pieces of any size, the message in it, the file and the arguments, and  *)
(* the descriptors all this takes.                                         *)
(*                                                                         *)
(* Two things outlive a request: errno, which runes_protocol_read_bytes    *)
(* looks at where the call before it set nothing, and the configuration    *)
(* file of each terminal, which is never closed.                           *)
(***************************************************************************)
EXTENDS Protocol, Config

CONSTANTS
    Requests,       \* what clients ask for
    Letters,        \* Letters[b]: the word that byte b stands for
    FileSystems,    \* what may be found at the places of the file
    Chunks,         \* the bytes a send may add to what has arrived
    Limit,          \* descriptors that the daemon may open
    MaxMade         \* bound on the terminals

ASSUME RequestAssumption ==
    /\ Requests \subseteq [kind : {"kill"}] \cup [kind : {"new_term"}, msg : Messages]
    /\ FileSystems \subseteq [ToSet(Places) -> Files]
    /\ \A r \in Requests : r.kind = "new_term" => r.msg.argv \in Seq(Seq(DOMAIN Letters))
    /\ \A b \in DOMAIN Letters : Letters[b] \in Words
    /\ Chunks \subseteq Nat \ {0} /\ Limit \in Nat \ {0} /\ MaxMade \in Nat

NoRequest == [kind |-> "none"]

\* runes_client_send_new_term_message, runes_client_send_kill_daemon_message
PacketOf(r) ==
    CASE r.kind = "kill" -> Packet(KillDaemonType, <<>>)
      [] r.kind = "new_term" ->
            IF TooBig(r.msg) THEN NoPacket ELSE Packet(NewTermType, CreateNewTermMessage(r.msg))

VARIABLES
    files,          \* what is found at the places of the file
    client,         \* "off", "sending" or "gone"
    asked, packet,  \* the request of the client, and its packet
    sent,           \* the bytes of it that were sent
    phase,          \* what the daemon does
    part,           \* the bytes that were read of the part
    got,            \* the bytes that were read of the stream
    len, type,      \* of the packet
    errno,
    msg,            \* the message that was parsed
    config,         \* the configuration of the terminal
    unread,         \* the lines of the file that were not processed, if any
    arg,            \* the argument to be processed next
    masters,        \* the masters of the ptys that are open
    leaked,         \* the configuration files that are open
    made, whole     \* the terminals made so far; whether the last has a pty

clientvars == <<client, asked, packet, sent>>
packetvars == <<part, got, len, type>>
configvars == <<msg, config, unread, arg>>
tablevars == <<masters, leaked, made, whole>>
vars == <<files, clientvars, phase, packetvars, errno, configvars, tablevars>>

Reading == {"len", "type", "body"}
Phases == {"idle", "file", "args", "pty", "stopped", "crashed"} \cup Reading

Connected == phase \notin {"idle", "stopped", "crashed"}

\* The descriptors that are left.
Free == Limit - masters - leaked - (IF Connected THEN 1 ELSE 0)

TypeOK ==
    /\ files \in FileSystems
    /\ client \in {"off", "sending", "gone"}
    /\ asked \in Requests \cup {NoRequest}
    /\ sent \in 0..Len(packet.bytes) /\ got \in 0..sent
    /\ phase \in Phases /\ len \in Nat /\ type \in Nat /\ part \in Seq(Bytes)
    /\ Len(part) <= got
    /\ errno \in {"other", "EINTR"}
    /\ made \in 0..MaxMade /\ masters \in 0..made
    /\ leaked \in 0..(made + IF phase \in {"file", "args", "pty"} THEN 1 ELSE 0)
    /\ whole \in BOOLEAN
    /\ Free >= 0

Init ==
    /\ files \in FileSystems
    /\ client = "off" /\ asked = NoRequest /\ packet = NoPacket /\ sent = 0
    /\ phase = "idle" /\ part = <<>> /\ got = 0 /\ len = 0 /\ type = 0
    /\ errno = "other"
    /\ msg = NoMessage /\ config = Defaults /\ unread = Missing /\ arg = 0
    /\ masters = 0 /\ leaked = 0 /\ made = 0 /\ whole = FALSE

-----------------------------------------------------------------------------
(* runesc *)

Connect(r) ==
    /\ client = "off" /\ phase = "idle"
    /\ client' = "sending" /\ asked' = r /\ packet' = PacketOf(r) /\ sent' = 0
    /\ UNCHANGED <<files, phase, packetvars, errno, configvars, tablevars>>

\* runes_protocol_write_bytes: each part is sent until it is complete.
Send(chunk) ==
    /\ client = "sending" /\ sent < Len(packet.bytes)
    /\ sent' = Min({sent + chunk} \cup {e \in packet.ends : e > sent})
    /\ UNCHANGED <<files, client, asked, packet, phase, packetvars, errno, configvars, tablevars>>

Finish ==
    /\ client = "sending" /\ sent = Len(packet.bytes)
    /\ client' = "gone"
    /\ UNCHANGED <<files, asked, packet, sent, phase, packetvars, errno, configvars, tablevars>>

ClientDies ==
    /\ client = "sending" /\ sent < Len(packet.bytes)
    /\ client' = "gone"
    /\ UNCHANGED <<files, asked, packet, sent, phase, packetvars, errno, configvars, tablevars>>

-----------------------------------------------------------------------------
(* runes_protocol_read_packet *)

Accept ==
    /\ phase = "idle" /\ client # "off"
    /\ phase' = IF Free = 0 THEN "crashed" ELSE "len"
    /\ part' = <<>> /\ got' = 0
    /\ UNCHANGED <<files, clientvars, len, type, errno, configvars, tablevars>>

Want == CASE phase \in {"len", "type"} -> 4 [] phase = "body" -> len

\* recv takes what has arrived, and no more than is wanted.
ReadBytes ==
    /\ phase \in Reading /\ Len(part) < Want /\ got < sent
    /\ LET n == IF sent - got < Want - Len(part) THEN sent - got ELSE Want - Len(part)
       IN  /\ part' = part \o SubSeq(packet.bytes, got + 1, got + n)
           /\ got' = got + n
    /\ UNCHANGED <<files, clientvars, phase, len, type, errno, configvars, tablevars>>

\* A part is complete: the next one is read.
PartRead ==
    /\ phase \in {"len", "type"} /\ Len(part) = Want
    /\ part' = <<>>
    /\ \/ phase = "len" /\ phase' = "type" /\ len' = LoadU32(part, 0).value /\ UNCHANGED type
       \/ phase = "type" /\ phase' = "body" /\ type' = LoadU32(part, 0).value /\ UNCHANGED len
    /\ UNCHANGED <<files, clientvars, got, errno, configvars, tablevars>>

\* The daemon closes its end, and the next client may come.
CloseClient(next) ==
    /\ phase' = next
    /\ client' = "off" /\ asked' = NoRequest /\ packet' = NoPacket /\ sent' = 0
    /\ part' = <<>> /\ got' = 0 /\ len' = 0 /\ type' = 0
    /\ msg' = NoMessage /\ config' = Defaults /\ unread' = Missing /\ arg' = 0

\* Mutant: errno is tested the wrong way round.
EndOfFileOnlyIntr ==
    /\ phase \in Reading /\ Len(part) < Want /\ got = sent
    /\ client = "gone" /\ errno = "EINTR"
    /\ CloseClient("idle")
    /\ UNCHANGED <<files, errno, tablevars>>

\* recv returns 0 and leaves errno as it is: if that is EINTR, it is called
\* again, for ever.
EndOfFile ==
    /\ phase \in Reading /\ Len(part) < Want /\ got = sent
    /\ client = "gone" /\ errno # "EINTR"
    /\ CloseClient("idle")
    /\ UNCHANGED <<files, errno, tablevars>>

-----------------------------------------------------------------------------
(* runes_daemon_handle_request *)

KillDaemon ==
    /\ phase = "body" /\ Len(part) = len /\ type = KillDaemonType
    /\ CloseClient("stopped")
    /\ UNCHANGED <<files, errno, tablevars>>

\* runes_daemon_handle_new_term_message, and runes_term_new as far as
\* opening the file, for which one more descriptor is needed.  A message that
\* does not parse is freed, although it is not on the heap.
NewTerm ==
    /\ phase = "body" /\ Len(part) = len /\ type = NewTermType
    /\ made < MaxMade
    /\ LET parsed == ParseNewTermMessage(part)
       IN  IF parsed.ok THEN msg' = parsed.value /\ phase' = "file"
           ELSE msg' = NoMessage /\ phase' = "crashed"
    /\ config' = Defaults /\ arg' = 2
    /\ LET file == ConfigFile(files)
       IN  IF Free = 0 \/ file = Missing
           THEN unread' = Missing /\ UNCHANGED leaked
           ELSE unread' = file /\ leaked' = leaked + 1
    /\ UNCHANGED <<files, clientvars, packetvars, errno, masters, made, whole>>

\* runes_config_process_config_file
FileLine ==
    /\ phase = "file"
    /\ IF unread.lines = <<>> THEN phase' = "args" /\ UNCHANGED <<config, unread>>
       ELSE LET line == unread.lines[1]
                rest == Tail(unread.lines)
            IN  /\ config' \in ProcessLine(config, Piece(line),
                                   ~Cut(line) /\ (rest # <<>> \/ unread.newline))
                /\ unread' = [unread EXCEPT !.lines =
                                 IF Cut(line) THEN <<Rest(line)>> \o rest ELSE rest]
                /\ UNCHANGED phase
    /\ UNCHANGED <<files, clientvars, packetvars, errno, msg, arg, tablevars>>

\* The arguments of the message, word by word.
Argv == [i \in DOMAIN msg.argv |->
            [k \in DOMAIN msg.argv[i] |-> Letters[msg.argv[i][k]]]]

\* runes_config_process_args
Argument ==
    /\ phase = "args"
    /\ IF arg > msg.argc THEN phase' = "pty" /\ UNCHANGED <<config, arg>>
       ELSE /\ config' = ProcessArg(config, Argv, arg)
            /\ arg' = NextArg(Argv, arg)
            /\ UNCHANGED phase
    /\ UNCHANGED <<files, clientvars, packetvars, errno, msg, unread, tablevars>>

\* runes_pty_new and runes_pty_spawn_subprocess need two descriptors, the
\* second one until the child has started, and look at no error.
Spawn ==
    /\ phase = "pty"
    /\ masters' = IF Free >= 1 THEN masters + 1 ELSE masters
    /\ whole' = (Free >= 2)
    /\ made' = made + 1
    /\ CloseClient("idle")
    /\ UNCHANGED <<files, errno, leaked>>

-----------------------------------------------------------------------------
(* The rest of the daemon, while it waits in its loop *)

\* A terminal ends: runes_pty_delete.
TermEnds ==
    /\ phase = "idle" /\ masters > 0
    /\ masters' = masters - 1
    /\ UNCHANGED <<files, clientvars, phase, packetvars, errno, configvars, leaked, made, whole>>

\* The daemon is stopped and continued, which interrupts the wait of libevent
\* without a signal handler; other calls fail in other ways.
CallFails(e) ==
    /\ phase = "idle" /\ errno' = e
    /\ UNCHANGED <<files, clientvars, phase, packetvars, configvars, tablevars>>

ReadPacket == ReadBytes \/ PartRead \/ EndOfFile

Next ==
    \/ \E r \in Requests : Connect(r)
    \/ \E chunk \in Chunks : Send(chunk)
    \/ Finish \/ ClientDies
    \/ Accept \/ ReadPacket \/ KillDaemon
    \/ NewTerm \/ FileLine \/ Argument \/ Spawn
    \/ TermEnds
    \/ \E e \in {"other", "EINTR"} : CallFails(e)

\* A daemon that reads goes on while it can; clients owe nothing.
Spec == Init /\ [][Next]_vars /\ WF_vars(ReadPacket)

-----------------------------------------------------------------------------
(* Properties *)

\* What a terminal is made from is what the client asked for, however the
\* packet was cut on its way; a message of runesc always parses, which the
\* daemon's life depends on; and the daemon never runs out of descriptors for
\* its clients, even when it has none left for its terminals.
RequestsArrive ==
    /\ TypeOK
    /\ phase # "crashed"
    /\ phase \in {"file", "args", "pty"} => asked.kind = "new_term" /\ msg = asked.msg

\* The arguments that set an option: every second one of a run of options is
\* a value.
Sets(argv) ==
    LET option[i \in 1..Len(argv)] == i > 1 /\ IsOption(argv[i]) /\ ~option[i - 1]
    IN  {i \in DOMAIN argv : option[i] /\ i < Len(argv)}

\* A file in which each line is a comment or sets a key, and fits.
Plain(file) ==
    \A i \in DOMAIN file.lines :
        /\ ~Cut(file.lines[i])
        /\ IsComment(file.lines[i]) \/ (Len(file.lines[i]) >= 2 /\ file.lines[i][2] = "=")

\* A text that key is set to: a colour that is not one does not count.
Counts(key, text) == key = "bgcolor" => text = <<"#ff0000">>
TextOf(line) == SubSeq(line, 3, Len(line))

\* The lines of a file and the arguments that set key.
LinesFor(key, file) ==
    {i \in DOMAIN file.lines :
        LET line == file.lines[i]
        IN  ~IsComment(line) /\ line[1] = key /\ Counts(key, TextOf(line))}
ArgsFor(key, argv) ==
    {i \in Sets(argv) : Option(argv[i]) = key /\ Counts(key, argv[i + 1])}

\* The value of key: the last argument counts, or else the last line.
Said(key, file, lines, argv, args) ==
    CASE args # {} -> Set(Defaults, key, argv[Max(args) + 1])[key]
      [] args = {} /\ lines # {} -> Set(Defaults, key, TextOf(file.lines[Max(lines)]))[key]
      [] OTHER -> Defaults[key]

Configured(file) ==
    \A key \in Keys :
        config[key] = Said(key, file, LinesFor(key, file), Argv, ArgsFor(key, Argv))

\* The daemon keeps one descriptor of each terminal it has ever made.  As long
\* as four are left beside these, the next terminal has a pty, and it is
\* configured by the file, if there is one, and by the arguments, the last of
\* which counts (runes.conf.default:8, "Any of these values can also be
\* overriden on the command line").
TerminalsAreWhole ==
    [][made' # made /\ Limit - masters - made >= 4 =>
          whole' /\ (Plain(ConfigFile(files)) => Configured(ConfigFile(files)))]_vars

\* The daemon is inside runes_protocol_read_bytes for ever.
Spinning == phase \in Reading /\ client = "gone" /\ got = sent /\ errno = "EINTR"

PacketRead == phase = "body" /\ Len(part) = len /\ got = Len(packet.bytes)

\* A client that is gone does not hold up the daemon, unless it left a broken
\* packet and the last call that failed was interrupted; a packet that was
\* sent whole is read whole, whatever that call was.
ReadEnds ==
    /\ phase \in Reading /\ client = "gone" ~>
          phase \notin Reading \/ PacketRead \/ Spinning
    /\ phase \in Reading /\ packet # NoPacket /\ sent = Len(packet.bytes) ~> PacketRead

=============================================================================
