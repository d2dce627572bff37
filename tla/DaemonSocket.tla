---------------------------- MODULE DaemonSocket ----------------------------
(***************************************************************************)
(* runesd, its socket and its clients: the steps in which a daemon takes   *)
(* over the socket's path (daemon.c, socket.c), the requests of runesc     *)
(* (runesc.c) and the packets they travel in (protocol.c).                 *)
(*                                                                         *)
(* Several daemons may start at the same time, each removing the socket    *)
(* that is there.  A daemon serves one client at a time and waits for its  *)
(* packet: the length, the type, the body.  A client may stop anywhere.    *)
(***************************************************************************)
EXTENDS Naturals, SequencesExt

CONSTANTS
    Daemons,        \* the runesd processes that may be started
    Clients,        \* the runesc processes
    NoSocket,       \* no file at the socket's path
    NoClient,       \* the daemon serves nobody
    Backlog,        \* of listen: clients that wait to be accepted
    Crashes         \* a daemon may die, for instance with the X server

ASSUME DaemonSocketAssumption ==
    /\ NoSocket \notin Daemons /\ NoClient \notin Clients
    /\ Backlog \in Nat \ {0} /\ Crashes \in BOOLEAN

\* The calls a daemon makes before it serves, each the next one to make;
\* then the loop; then the ways to end.
Starting == {"unlink", "bind", "chmod", "listen"}
Listening == {"idle", "reading"}
Ended == {"refused", "killed", "crashed"}

\* A terminal, the end of the daemon, or a message that is too big to send.
Kinds == {"new_term", "kill", "nothing"}

VARIABLES
    daemon,         \* daemon[d]: the next call, or the state of the loop
    path,           \* the daemon whose socket is at the path
    private,        \* the daemons whose socket has been made private
    inherited,      \* ended daemons whose socket a terminal's child still holds
    backlog,        \* backlog[d]: connected, not accepted
    current,        \* current[d]: the client whose packet is being read
    got,            \* got[d]: the parts of the packet that were read
    client,         \* client[c]: "off", "sending", "finished" or "failed"
    kind,           \* kind[c]: what c asks for
    peer,           \* peer[c]: the daemon c is connected to
    sent,           \* sent[c]: the parts of its packet that c has sent
    served          \* served[c]: the terminals made for c

daemonvars == <<path, private, inherited>>
readvars == <<backlog, current, got>>
clientvars == <<client, kind, peer, sent>>
vars == <<daemon, daemonvars, readvars, clientvars, served>>

\* A packet without a body is complete with its type.
Parts(c) == CASE kind[c] = "new_term" -> 3
              [] kind[c] = "kill"     -> 2
              [] kind[c] = "nothing"  -> 0

TypeOK ==
    /\ daemon \in [Daemons -> {"off"} \cup Starting \cup Listening \cup Ended]
    /\ path \in Daemons \cup {NoSocket}
    /\ private \subseteq Daemons /\ inherited \subseteq Daemons
    /\ backlog \in [Daemons -> Seq(Clients)]
    /\ current \in [Daemons -> Clients \cup {NoClient}]
    /\ got \in [Daemons -> 0..3]
    /\ client \in [Clients -> {"off", "sending", "finished", "failed"}]
    /\ kind \in [Clients -> Kinds]
    /\ peer \in [Clients -> Daemons \cup {NoSocket}]
    /\ sent \in [Clients -> 0..3]
    /\ served \in [Clients -> Nat]
    /\ \A d \in Daemons :
          /\ Len(backlog[d]) <= Backlog
          /\ daemon[d] = "idle" => current[d] = NoClient
          /\ daemon[d] = "reading" => current[d] \in Clients

Init ==
    /\ daemon = [d \in Daemons |-> "off"]
    /\ path = NoSocket /\ private = {} /\ inherited = {}
    /\ backlog = [d \in Daemons |-> <<>>]
    /\ current = [d \in Daemons |-> NoClient]
    /\ got = [d \in Daemons |-> 0]
    /\ client = [c \in Clients |-> "off"]
    /\ kind \in [Clients -> Kinds]
    /\ peer = [c \in Clients |-> NoSocket]
    /\ sent = [c \in Clients |-> 0]
    /\ served = [c \in Clients |-> 0]

Goes(d, from, to) == daemon[d] = from /\ daemon' = [daemon EXCEPT ![d] = to]

-----------------------------------------------------------------------------
(* runes_socket_server_open *)

Start(d) ==
    /\ Goes(d, "off", "unlink")
    /\ UNCHANGED <<daemonvars, readvars, clientvars, served>>

Unlink(d) ==
    /\ Goes(d, "unlink", "bind")
    /\ path' = NoSocket
    /\ UNCHANGED <<private, inherited, readvars, clientvars, served>>

\* Mutant: a daemon that cannot bind removes the socket before it dies.
BindCleansUp(d) ==
    /\ IF path = NoSocket
       THEN Goes(d, "bind", "chmod") /\ path' = d
       ELSE Goes(d, "bind", "refused") /\ path' = NoSocket
    /\ UNCHANGED <<private, inherited, readvars, clientvars, served>>

\* Mutant: the socket listens before it is made private.
BindThenListen(d) ==
    /\ IF path = NoSocket
       THEN Goes(d, "bind", "idle") /\ path' = d
       ELSE Goes(d, "bind", "refused") /\ UNCHANGED path
    /\ UNCHANGED <<private, inherited, readvars, clientvars, served>>

\* A daemon dies if another one has bound the path since it removed it.
Bind(d) ==
    /\ IF path = NoSocket
       THEN Goes(d, "bind", "chmod") /\ path' = d
       ELSE Goes(d, "bind", "refused") /\ UNCHANGED path
    /\ UNCHANGED <<private, inherited, readvars, clientvars, served>>

\* The path may have gone, or be another daemon's by now.
Chmod(d) ==
    /\ IF path = NoSocket
       THEN Goes(d, "chmod", "refused") /\ UNCHANGED private
       ELSE Goes(d, "chmod", "listen") /\ private' = private \cup {path}
    /\ UNCHANGED <<path, inherited, readvars, clientvars, served>>

Listen(d) ==
    /\ Goes(d, "listen", "idle")
    /\ UNCHANGED <<daemonvars, readvars, clientvars, served>>

-----------------------------------------------------------------------------
(* runes_daemon_handle_request *)

Accept(d) ==
    /\ backlog[d] # <<>>
    /\ Goes(d, "idle", "reading")
    /\ current' = [current EXCEPT ![d] = Head(backlog[d])]
    /\ backlog' = [backlog EXCEPT ![d] = Tail(@)]
    /\ got' = [got EXCEPT ![d] = 0]
    /\ UNCHANGED <<daemonvars, clientvars, served>>

\* runes_protocol_read_bytes waits until it has all the bytes of a part.
ReadPart(d) ==
    /\ daemon[d] = "reading"
    /\ got[d] < sent[current[d]]
    /\ got' = [got EXCEPT ![d] = @ + 1]
    /\ UNCHANGED <<daemon, daemonvars, backlog, current, clientvars, served>>

\* The client's socket is closed; the daemon waits for the next client.
CloseClient(d) ==
    /\ current' = [current EXCEPT ![d] = NoClient]
    /\ UNCHANGED <<backlog, got>>

\* Mutant: the end of the client's bytes is not noticed.
InvalidPacketUnnoticed(d) ==
    /\ daemon[d] = "reading" /\ client[current[d]] \in {"finished", "failed"}
    /\ FALSE
    /\ UNCHANGED vars

\* Mutant: the end of the client's bytes ends the packet.
InvalidPacketServed(d) ==
    LET c == current[d]
    IN  /\ Goes(d, "reading", "idle")
        /\ client[c] \in {"finished", "failed"}
        /\ got[d] = sent[c]
        /\ Parts(c) = 0 \/ got[d] < Parts(c)
        /\ served' = IF kind[c] = "new_term" THEN [served EXCEPT ![c] = @ + 1] ELSE served
        /\ CloseClient(d)
        /\ UNCHANGED <<daemonvars, clientvars>>

\* The client is gone and what it sent is not a packet.
InvalidPacket(d) ==
    LET c == current[d]
    IN  /\ Goes(d, "reading", "idle")
        /\ client[c] \in {"finished", "failed"}
        /\ got[d] = sent[c]
        /\ Parts(c) = 0 \/ got[d] < Parts(c)
        /\ CloseClient(d)
        /\ UNCHANGED <<daemonvars, clientvars, served>>

NewTerm(d) ==
    LET c == current[d]
    IN  /\ Goes(d, "reading", "idle")
        /\ kind[c] = "new_term" /\ got[d] = Parts(c)
        /\ served' = [served EXCEPT ![c] = @ + 1]
        /\ CloseClient(d)
        /\ UNCHANGED <<daemonvars, clientvars>>

\* The children of d's terminals have inherited its listening socket, which
\* is not close-on-exec; one that survives the hangup keeps it open.
Bequeaths(d) ==
    /\ inherited' \in {inherited} \cup
           {inherited \cup {d} : c \in {c \in Clients : peer[c] = d /\ served[c] # 0}}
    /\ UNCHANGED <<path, private>>

\* The loop stops and main returns; the socket's file stays.
KillDaemon(d) ==
    LET c == current[d]
    IN  /\ Goes(d, "reading", "killed")
        /\ kind[c] = "kill" /\ got[d] = Parts(c)
        /\ CloseClient(d)
        /\ Bequeaths(d)
        /\ UNCHANGED <<clientvars, served>>

Crash(d) ==
    /\ Crashes
    /\ daemon[d] \in Starting \cup Listening
    /\ daemon' = [daemon EXCEPT ![d] = "crashed"]
    /\ Bequeaths(d)
    /\ UNCHANGED <<readvars, clientvars, served>>

-----------------------------------------------------------------------------
(* runesc *)

\* The kernel answers at d's socket.
Answers(d) == daemon[d] \in Listening \/ d \in inherited

Connect(c) ==
    /\ client[c] = "off"
    /\ IF path # NoSocket /\ Answers(path)
       THEN /\ Len(backlog[path]) < Backlog
            /\ client' = [client EXCEPT ![c] = "sending"]
            /\ peer' = [peer EXCEPT ![c] = path]
            /\ backlog' = [backlog EXCEPT ![path] = Append(@, c)]
       ELSE /\ client' = [client EXCEPT ![c] = "failed"]
            /\ UNCHANGED <<peer, backlog>>
    /\ UNCHANGED <<daemon, daemonvars, current, got, kind, sent, served>>

\* A daemon that has ended closed the connections it had accepted, and with
\* its socket those that were waiting.
SendPart(c) ==
    /\ client[c] = "sending" /\ sent[c] < Parts(c)
    /\ IF daemon[peer[c]] \in Listening
          \/ (peer[c] \in inherited /\ c \in ToSet(backlog[peer[c]]))
       THEN sent' = [sent EXCEPT ![c] = @ + 1] /\ UNCHANGED client
       ELSE client' = [client EXCEPT ![c] = "failed"] /\ UNCHANGED sent
    /\ UNCHANGED <<daemon, daemonvars, readvars, kind, peer, served>>

Finish(c) ==
    /\ client[c] = "sending" /\ sent[c] = Parts(c)
    /\ client' = [client EXCEPT ![c] = "finished"]
    /\ UNCHANGED <<daemon, daemonvars, readvars, kind, peer, sent, served>>

ClientDies(c) ==
    /\ client[c] = "sending"
    /\ client' = [client EXCEPT ![c] = "failed"]
    /\ UNCHANGED <<daemon, daemonvars, readvars, kind, peer, sent, served>>

-----------------------------------------------------------------------------

OpenStep(d) == Unlink(d) \/ Bind(d) \/ Chmod(d) \/ Listen(d)
Serve(d) == Accept(d) \/ ReadPart(d) \/ InvalidPacket(d) \/ NewTerm(d) \/ KillDaemon(d)
ClientStep(c) == SendPart(c) \/ Finish(c)

Next ==
    \/ \E d \in Daemons : Start(d) \/ OpenStep(d) \/ Serve(d) \/ Crash(d)
    \/ \E c \in Clients : Connect(c) \/ ClientStep(c) \/ ClientDies(c)

Spec == Init /\ [][Next]_vars

\* Processes run.  A client is a program that sends its packet and exits;
\* one that stopped in the middle would hold up the daemon and all its
\* terminals, for the daemon waits for it inside the event loop.
FairSpec ==
    /\ Spec
    /\ \A d \in Daemons : WF_vars(OpenStep(d)) /\ WF_vars(Serve(d))
    /\ \A c \in Clients : WF_vars(ClientStep(c))

-----------------------------------------------------------------------------
(* Properties *)

\* However many daemons start together, the socket that answers at the path
\* was made private before it did, although the chmod goes by the path and
\* may hit another daemon's socket (socket.c:68-73).
PrivateWhenReachable ==
    \A d \in Daemons : path = d /\ daemon[d] \in Listening => d \in private

\* Daemons that start together may refuse, or lose the path to one another,
\* but in the end one of them answers at the path, or was told to stop.
SomeoneListens ==
    (/\ \E d \in Daemons : daemon[d] # "off"
     /\ \A d \in Daemons : daemon[d] \notin Starting \cup {"crashed"})
        => path # NoSocket /\ daemon[path] \in Listening \cup {"killed"}

\* A terminal is made once, and only for a client whose whole packet was
\* read: one that dies while it sends leaves nothing behind.
ServedIsWhole ==
    /\ TypeOK
    /\ \A c \in Clients : served[c] # 0 =>
          served[c] = 1 /\ kind[c] = "new_term" /\ sent[c] = Parts(c)

PeerEnded(c) == \E d \in Daemons : peer[c] = d /\ daemon[d] \in Ended

\* Whatever other clients send, and wherever they stop, a request that was
\* sent in full is carried out, unless the daemon ends first; a request to
\* end makes it end.
EveryRequestServed ==
    \A c \in Clients :
        /\ (client[c] = "finished" /\ kind[c] = "new_term")
              ~> (served[c] = 1 \/ PeerEnded(c))
        /\ (client[c] = "finished" /\ kind[c] = "kill") ~> PeerEnded(c)

=============================================================================
