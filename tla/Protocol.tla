------------------------------ MODULE Protocol ------------------------------
(***************************************************************************)
(* The bytes of a request of runesc: how a message becomes a packet, and   *)
(* how the daemon takes it apart (protocol.c).                             *)
(*                                                                         *)
(* A byte is a number.  A string is a sequence of bytes without a zero,    *)
(* and a buffer is read from an offset on, as by buf + offset.             *)
(***************************************************************************)
EXTENDS Integers, SequencesExt

CONSTANT MaxPacket      \* RUNES_MAX_PACKET_SIZE

MaxInt == 2147483647    \* of an int

ASSUME ProtocolAssumption == MaxPacket \in 0..MaxInt

Bytes == 0..255

\* What runesc sends: its arguments, environment and directory.
Messages ==
    {m \in [argc : 0..MaxInt, argv : Seq(Seq(Bytes)), envp : Seq(Seq(Bytes)), cwd : Seq(Bytes)] :
        m.argc = Len(m.argv)}

Version == 1            \* RUNES_PROTOCOL_MESSAGE_VERSION
NewTermType == 0        \* RUNES_PROTOCOL_NEW_TERM
KillDaemonType == 1     \* RUNES_PROTOCOL_KILL_DAEMON

-----------------------------------------------------------------------------
(* Storing *)

\* The largest part first (htonl).
StoreU32(i) == <<i \div 16777216, (i \div 65536) % 256, (i \div 256) % 256, i % 256>>

StoreStr(s) == StoreU32(Len(s)) \o s

\* The strings follow their number, one after the other.
StoreStrvec(v) ==
    LET stored[i \in 0..Len(v)] ==
            IF i = 0 THEN StoreU32(Len(v)) ELSE stored[i - 1] \o StoreStr(v[i])
    IN  stored[Len(v)]

\* runes_protocol_create_new_term_message
CreateNewTermMessage(m) ==
    StoreU32(Version) \o StoreU32(m.argc) \o StoreStrvec(m.argv)
        \o StoreStrvec(m.envp) \o StoreStr(m.cwd)

\* A string or a vector that is too big is refused when it is stored.
TooBig(m) ==
    \/ \E s \in Range(m.argv) \cup Range(m.envp) \cup {m.cwd} : Len(s) > MaxPacket
    \/ Len(m.argv) > MaxPacket \/ Len(m.envp) > MaxPacket

NoPacket == [bytes |-> <<>>, ends |-> {}]

\* runes_protocol_send_packet: the bytes, and where each of the three writes
\* ends.  Nothing is written of a packet that is too big.
Packet(type, body) ==
    IF Len(body) > MaxPacket THEN NoPacket
    ELSE [bytes |-> StoreU32(Len(body)) \o StoreU32(type) \o body,
          ends |-> {4, 8, 8 + Len(body)}]

-----------------------------------------------------------------------------
(* Loading: the value at an offset, and the offset behind it *)

NoMessage == [argc |-> 0, argv |-> <<>>, envp |-> <<>>, cwd |-> <<>>]

Failed == [ok |-> FALSE, value |-> 0, at |-> 0]
Loaded(v, o) == [ok |-> TRUE, value |-> v, at |-> o]

LoadU32(b, o) ==
    IF Len(b) - o < 4 THEN Failed
    ELSE Loaded(b[o + 1] * 16777216 + b[o + 2] * 65536 + b[o + 3] * 256 + b[o + 4], o + 4)

\* Mutant: the length is compared with the end of the buffer.
LoadStrUntilEnd(b, o) ==
    LET n == LoadU32(b, o)
    IN  IF ~n.ok \/ n.value >= Len(b) - n.at THEN Failed
        ELSE Loaded(SubSeq(b, n.at + 1, n.at + n.value), n.at + n.value)

\* The length is compared with what is left from the offset on, its own four
\* bytes included.
LoadStr(b, o) ==
    LET n == LoadU32(b, o)
    IN  IF ~n.ok \/ n.value > Len(b) - o THEN Failed
        ELSE Loaded(SubSeq(b, n.at + 1, n.at + n.value), n.at + n.value)

\* One more string, which begins where the last one ends.
LoadNext(b, v) ==
    LET s == LoadStr(b, v.at)
    IN  IF v.ok /\ s.ok THEN Loaded(Append(v.value, s.value), s.at) ELSE Failed

LoadStrvec(b, o) ==
    LET n == LoadU32(b, o)
        loaded[i \in 0..n.value] ==
            IF i = 0 THEN Loaded(<<>>, n.at) ELSE LoadNext(b, loaded[i - 1])
    IN  IF ~n.ok \/ n.value > Len(b) - o THEN Failed ELSE loaded[n.value]

\* runes_protocol_parse_new_term_message.  Each part begins where the part
\* before it ends.
ParseNewTermMessage(b) ==
    LET version == LoadU32(b, 0)
        argc == LoadU32(b, version.at)
        argv == LoadStrvec(b, argc.at)
        envp == LoadStrvec(b, argv.at)
        cwd == LoadStr(b, envp.at)
    IN  IF version.ok /\ version.value = Version /\ argc.ok /\ argv.ok /\ envp.ok /\ cwd.ok
        THEN Loaded([argc |-> argc.value, argv |-> argv.value,
                     envp |-> envp.value, cwd |-> cwd.value], cwd.at)
        ELSE Failed

=============================================================================
