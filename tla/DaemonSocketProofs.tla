-------------------------- MODULE DaemonSocketProofs ---------------------------
(***************************************************************************)
(* The socket of runesd for any number of daemons and clients.  First the  *)
(* race of the daemons for the path: what is proved of the daemon at the   *)
(* path is inductive only together with what is known when there is none.  *)
(* Then the clients: a client stands in one place, in one daemon's backlog *)
(* or before one daemon, until it is served, and is nowhere afterwards.    *)
(***************************************************************************)
EXTENDS DaemonSocket, TLAPS

-----------------------------------------------------------------------------
(* The race for the path *)

PathTypeOK ==
    /\ daemon \in [Daemons -> {"off"} \cup Starting \cup Listening \cup Ended]
    /\ path \in Daemons \cup {NoSocket}
    /\ private \subseteq Daemons

\* Who is at the path has bound it, and was not refused.
PathBound ==
    path # NoSocket =>
        daemon[path] \in {"chmod", "listen", "killed", "crashed"} \cup Listening

\* The chmod of who is at the path went to the path.
PathPrivate ==
    path # NoSocket /\ daemon[path] \in {"listen"} \cup Listening => path \in private

\* Where nobody is at the path, somebody is about to be, or has died trying.
PathTaken ==
    path = NoSocket =>
        \/ \A d \in Daemons : daemon[d] = "off"
        \/ \E d \in Daemons : daemon[d] \in {"unlink", "bind", "crashed"}

PathIInv == PathTypeOK /\ PathBound /\ PathPrivate /\ PathTaken

LEMMA PathInit == Init => PathIInv
BY DaemonSocketAssumption
   DEF Init, PathIInv, PathTypeOK, PathBound, PathPrivate, PathTaken,
       Starting, Listening, Ended

\* The calls that open the socket.
LEMMA PathOpen ==
    ASSUME PathIInv, NEW d \in Daemons, Start(d) \/ OpenStep(d)
    PROVE  PathIInv'
<1>. USE DaemonSocketAssumption DEF PathIInv, PathTypeOK, PathBound, PathPrivate,
         Starting, Listening, Ended, Goes, daemonvars
<1>1. CASE Start(d)
    <2>1. PathTaken'
        BY <1>1 DEF Start, PathTaken
    <2>. QED
        BY <1>1, <2>1 DEF Start
<1>2. CASE Unlink(d)
    <2>1. PathTaken'
        BY <1>2 DEF Unlink, PathTaken
    <2>. QED
        BY <1>2, <2>1 DEF Unlink
<1>3. CASE Bind(d)
    <2>1. PathTaken'
        BY <1>3 DEF Bind, PathTaken
    <2>. QED
        BY <1>3, <2>1 DEF Bind
<1>4. CASE Chmod(d)
    <2>1. PathTaken'
        BY <1>4 DEF Chmod, PathTaken
    <2>. QED
        BY <1>4, <2>1 DEF Chmod
<1>5. CASE Listen(d)
    <2>1. PathTaken'
        BY <1>5 DEF Listen, PathTaken
    <2>. QED
        BY <1>5, <2>1 DEF Listen
<1>. QED
    BY <1>1, <1>2, <1>3, <1>4, <1>5 DEF OpenStep

\* A daemon that serves, or ends, leaves the path and the modes alone.
LEMMA PathServe ==
    ASSUME PathIInv, NEW d \in Daemons, UNCHANGED <<path, private>>,
           daemon[d] # "off",
           \/ UNCHANGED daemon
           \/ /\ daemon[d] \in Listening
              /\ \E to \in Listening \cup {"killed"} : daemon' = [daemon EXCEPT ![d] = to]
           \/ daemon' = [daemon EXCEPT ![d] = "crashed"]
    PROVE  PathIInv'
<1>. USE DEF PathIInv, PathTypeOK, Starting, Listening, Ended
<1>1. PathTypeOK'
    OBVIOUS
<1>2. PathBound' /\ PathPrivate'
    BY DEF PathBound, PathPrivate
<1>3. PathTaken'
    BY DEF PathTaken
<1>. QED
    BY <1>1, <1>2, <1>3

LEMMA PathNext == PathIInv /\ [Next]_vars => PathIInv'
<1>. SUFFICES ASSUME PathIInv, [Next]_vars PROVE PathIInv'
    OBVIOUS
<1>1. ASSUME NEW d \in Daemons, Start(d) \/ OpenStep(d) PROVE PathIInv'
    BY <1>1, PathOpen
<1>2. ASSUME NEW d \in Daemons, Serve(d) PROVE PathIInv'
    <2>1. /\ UNCHANGED <<path, private>>
          /\ daemon[d] \in Listening
          /\ \/ UNCHANGED daemon
             \/ \E to \in Listening \cup {"killed"} : daemon' = [daemon EXCEPT ![d] = to]
        BY <1>2 DEF Serve, Accept, ReadPart, InvalidPacket, NewTerm, KillDaemon,
                    Bequeaths, Goes, Listening, daemonvars
    <2>2. daemon[d] # "off"
        BY <2>1 DEF Listening
    <2>. QED
        BY <2>1, <2>2, PathServe
<1>3. ASSUME NEW d \in Daemons, Crash(d) PROVE PathIInv'
    <2>1. /\ UNCHANGED <<path, private>>
          /\ daemon[d] # "off"
          /\ daemon' = [daemon EXCEPT ![d] = "crashed"]
        BY <1>3 DEF Crash, Bequeaths, Starting, Listening
    <2>. QED
        BY <2>1, PathServe
<1>4. ASSUME NEW c \in Clients, Connect(c) \/ ClientStep(c) \/ ClientDies(c)
      PROVE  PathIInv'
    <2>1. UNCHANGED <<daemon, path, private>>
        BY <1>4 DEF Connect, ClientStep, SendPart, Finish, ClientDies, daemonvars
    <2>. QED
        BY <2>1 DEF PathIInv, PathTypeOK, PathBound, PathPrivate, PathTaken
<1>5. CASE UNCHANGED vars
    BY <1>5 DEF vars, daemonvars, PathIInv, PathTypeOK, PathBound, PathPrivate, PathTaken
<1>. QED
    BY <1>1, <1>2, <1>3, <1>4, <1>5 DEF Next

LEMMA PathIInvHolds == Spec => []PathIInv
BY PathInit, PathNext, PTL DEF Spec

\* However many daemons start together, the socket that answers at the path
\* is private: the chmod by path of who is at the path went to its own
\* (socket.c:56-80).
THEOREM SocketIsPrivate == Spec => []PrivateWhenReachable
<1>1. PathIInv => PrivateWhenReachable
    BY DaemonSocketAssumption
       DEF PathIInv, PathTypeOK, PathPrivate, PrivateWhenReachable
<1>. QED
    BY <1>1, PathIInvHolds, PTL

\* When all that were started have stopped starting, and none has crashed,
\* one of them answers at the path or was told to stop (socket.c:56-80).
THEOREM OneListens == Spec => []SomeoneListens
<1>1. PathIInv => SomeoneListens
    BY DEF PathIInv, PathTypeOK, PathBound, PathTaken, SomeoneListens,
           Starting, Listening, Ended
<1>. QED
    BY <1>1, PathIInvHolds, PTL

-----------------------------------------------------------------------------
(* The requests of the clients *)

\* A client that waits or is read has connected there, and was not served.
Waits(c, d) == peer[c] = d /\ client[c] # "off" /\ served[c] = 0

Standing ==
    /\ \A d \in Daemons, c \in Clients : \A i \in 1..Len(backlog[d]) :
          backlog[d][i] = c => Waits(c, d) /\ current[d] # c
    /\ \A d \in Daemons : \A i, j \in 1..Len(backlog[d]) :
          backlog[d][i] = backlog[d][j] => i = j

Reading ==
    \A d \in Daemons :
        /\ current[d] \in Clients => Waits(current[d], d) /\ got[d] <= sent[current[d]]
        /\ daemon[d] \in {"off", "idle"} \cup Starting => current[d] = NoClient

Whole ==
    \A c \in Clients :
        /\ sent[c] <= Parts(c)
        /\ served[c] # 0 => served[c] = 1 /\ kind[c] = "new_term" /\ sent[c] = Parts(c)
        /\ client[c] = "off" => served[c] = 0

ServedIInv == TypeOK /\ Standing /\ Reading /\ Whole

LEMMA PartsType == ASSUME TypeOK, NEW c \in Clients PROVE Parts(c) \in 0..3
BY DEF TypeOK, Kinds, Parts

LEMMA ServedInit == Init => ServedIInv
<1>. SUFFICES ASSUME Init PROVE ServedIInv
    OBVIOUS
<1>1. TypeOK
    BY DaemonSocketAssumption DEF Init, TypeOK, Starting, Listening, Ended, Kinds
<1>2. Standing
    BY DEF Init, Standing
<1>3. Reading
    BY DaemonSocketAssumption DEF Init, Reading
<1>4. Whole
    BY <1>1, PartsType DEF Init, Whole
<1>. QED
    BY <1>1, <1>2, <1>3, <1>4 DEF ServedIInv

\* Opening the socket, ending, and the file of the socket touch no request.
LEMMA ServedOpen ==
    ASSUME ServedIInv, NEW d \in Daemons, Start(d) \/ OpenStep(d) \/ Crash(d)
    PROVE  ServedIInv'
<1>. USE DEF Goes, daemonvars, readvars, clientvars
<1>1. /\ UNCHANGED <<backlog, current, got, client, kind, peer, sent, served>>
      /\ daemon' \in [Daemons -> {"off"} \cup Starting \cup Listening \cup Ended]
      /\ path' \in Daemons \cup {NoSocket}
      /\ private' \subseteq Daemons /\ inherited' \subseteq Daemons
      /\ \A e \in Daemons :
            /\ daemon'[e] = "reading" => daemon[e] = "reading"
            /\ daemon'[e] \in {"off", "idle"} \cup Starting =>
                  daemon[e] \in {"off", "idle"} \cup Starting
    <2>. USE DEF Starting, Listening, Ended
    <2>1. /\ daemon \in [Daemons -> {"off"} \cup Starting \cup Listening \cup Ended]
          /\ path \in Daemons \cup {NoSocket}
          /\ private \subseteq Daemons /\ inherited \subseteq Daemons
        BY DEF ServedIInv, TypeOK
    <2>2. CASE Start(d)
        BY <2>1, <2>2 DEF Start
    <2>3. CASE Unlink(d)
        BY <2>1, <2>3 DEF Unlink
    <2>4. CASE Bind(d)
        BY <2>1, <2>4 DEF Bind
    <2>5. CASE Chmod(d)
        BY <2>1, <2>5 DEF Chmod
    <2>6. CASE Listen(d)
        BY <2>1, <2>6 DEF Listen
    <2>7. CASE Crash(d)
        BY <2>1, <2>7 DEF Crash, Bequeaths
    <2>. QED
        BY <2>2, <2>3, <2>4, <2>5, <2>6, <2>7 DEF OpenStep
<1>2. TypeOK'
    BY <1>1 DEF ServedIInv, TypeOK, Reading
<1>3. Standing'
    BY <1>1 DEF ServedIInv, Standing, Waits
<1>4. Reading'
    BY <1>1 DEF ServedIInv, Reading, Waits
<1>5. Whole'
    BY <1>1 DEF ServedIInv, Whole, Parts
<1>. QED
    BY <1>2, <1>3, <1>4, <1>5 DEF ServedIInv

\* Taking the first client leaves the others as they were, one place ahead.
LEMMA TailElements ==
    ASSUME NEW s \in Seq(Clients), s # <<>>
    PROVE  /\ Tail(s) \in Seq(Clients) /\ Len(Tail(s)) = Len(s) - 1
           /\ Head(s) = s[1] /\ Head(s) \in Clients /\ 1 \in 1..Len(s)
           /\ \A i \in 1..Len(Tail(s)) : i + 1 \in 2..Len(s) /\ Tail(s)[i] = s[i + 1]
OBVIOUS

LEMMA ServedAccept ==
    ASSUME ServedIInv, NEW d \in Daemons, Accept(d)
    PROVE  ServedIInv'
<1>. DEFINE c == Head(backlog[d])
<1>. USE DEF Goes, daemonvars, clientvars
<1>1. backlog[d] \in Seq(Clients) /\ backlog[d] # <<>>
    BY DEF ServedIInv, TypeOK, Accept
<1>2. /\ Tail(backlog[d]) \in Seq(Clients)
      /\ Len(Tail(backlog[d])) = Len(backlog[d]) - 1
      /\ c = backlog[d][1] /\ c \in Clients /\ 1 \in 1..Len(backlog[d])
      /\ \A i \in 1..Len(Tail(backlog[d])) :
            i + 1 \in 2..Len(backlog[d]) /\ Tail(backlog[d])[i] = backlog[d][i + 1]
    BY <1>1, TailElements
<1>. HIDE DEF c
<1>3. /\ daemon[d] = "idle" /\ daemon' = [daemon EXCEPT ![d] = "reading"]
      /\ current' = [current EXCEPT ![d] = c]
      /\ backlog' = [backlog EXCEPT ![d] = Tail(backlog[d])]
      /\ got' = [got EXCEPT ![d] = 0]
      /\ UNCHANGED <<path, private, inherited, client, kind, peer, sent, served>>
    BY DEF ServedIInv, TypeOK, Accept, c
<1>4. Waits(c, d)
    BY <1>2 DEF ServedIInv, Standing
<1>5. TypeOK'
    BY <1>2, <1>3, DaemonSocketAssumption DEF ServedIInv, TypeOK, Starting, Listening, Ended
<1>6. Standing'
    <2>1. ASSUME NEW e \in Daemons, NEW b \in Clients, NEW i \in 1..Len(backlog'[e]),
                 backlog'[e][i] = b
          PROVE  Waits(b, e)' /\ current'[e] # b
        <3>1. CASE e = d
            <4>1. i + 1 \in 1..Len(backlog[d]) /\ backlog[d][i + 1] = b /\ i + 1 # 1
                BY <1>2, <1>3, <2>1, <3>1 DEF ServedIInv, TypeOK
            <4>2. Waits(b, d) /\ b # c
                BY <1>2, <4>1 DEF ServedIInv, Standing
            <4>. QED
                BY <1>3, <3>1, <4>2 DEF ServedIInv, TypeOK, Waits
        <3>2. CASE e # d
            BY <1>3, <2>1, <3>2 DEF ServedIInv, TypeOK, Standing, Waits
        <3>. QED
            BY <3>1, <3>2
    <2>2. ASSUME NEW e \in Daemons, NEW i \in 1..Len(backlog'[e]),
                 NEW j \in 1..Len(backlog'[e]), backlog'[e][i] = backlog'[e][j]
          PROVE  i = j
        <3>1. CASE e = d
            <4>1. /\ i + 1 \in 1..Len(backlog[d]) /\ j + 1 \in 1..Len(backlog[d])
                  /\ backlog[d][i + 1] = backlog[d][j + 1]
                BY <1>2, <1>3, <2>2, <3>1 DEF ServedIInv, TypeOK
            <4>2. i + 1 = j + 1
                BY <4>1 DEF ServedIInv, Standing
            <4>. QED
                BY <4>2
        <3>2. CASE e # d
            BY <1>3, <2>2, <3>2 DEF ServedIInv, TypeOK, Standing
        <3>. QED
            BY <3>1, <3>2
    <2>. QED
        BY <2>1, <2>2 DEF Standing
<1>7. Reading'
    <2>. SUFFICES ASSUME NEW e \in Daemons
         PROVE  /\ current'[e] \in Clients =>
                      Waits(current[e], e)' /\ got'[e] <= sent'[current'[e]]
                /\ daemon'[e] \in {"off", "idle"} \cup Starting => current'[e] = NoClient
        BY DEF Reading
    <2>1. CASE e = d
        <3>1. /\ current'[d] = c /\ got'[d] = 0 /\ daemon'[d] = "reading"
              /\ sent' = sent /\ sent[c] \in 0..3
            BY <1>2, <1>3 DEF ServedIInv, TypeOK
        <3>2. peer'[c] = d /\ client'[c] # "off" /\ served'[c] = 0
            BY <1>3, <1>4 DEF Waits
        <3>. QED
            BY <2>1, <3>1, <3>2 DEF Starting, Waits
    <2>2. CASE e # d
        BY <1>3, <2>2 DEF ServedIInv, TypeOK, Reading, Waits
    <2>. QED
        BY <2>1, <2>2
<1>8. Whole'
    BY <1>3 DEF ServedIInv, Whole, Parts
<1>. QED
    BY <1>5, <1>6, <1>7, <1>8 DEF ServedIInv

LEMMA ServedReadPart ==
    ASSUME ServedIInv, NEW d \in Daemons, ReadPart(d)
    PROVE  ServedIInv'
<1>. USE DEF ReadPart, daemonvars, clientvars
<1>1. got'[d] = got[d] + 1 /\ \A e \in Daemons : e # d => got'[e] = got[e]
    <2>1. got \in [Daemons -> 0..3]
        BY DEF ServedIInv, TypeOK
    <2>. QED
        BY <2>1
<1>2. /\ current[d] \in Clients /\ got'[d] <= sent[current[d]]
      /\ got' \in [Daemons -> 0..3]
    <2>1. /\ got \in [Daemons -> 0..3] /\ sent \in [Clients -> 0..3]
          /\ current[d] \in Clients
        BY DEF ServedIInv, TypeOK
    <2>2. got[d] \in 0..3 /\ sent[current[d]] \in 0..3 /\ got[d] < sent[current[d]]
        BY <2>1
    <2>3. got'[d] <= sent[current[d]] /\ got'[d] \in 0..3
        BY <1>1, <2>2
    <2>4. got' = [got EXCEPT ![d] = got'[d]]
        BY <1>1, <2>1
    <2>. QED
        BY <2>1, <2>3, <2>4
<1>3. TypeOK'
    BY <1>2 DEF ServedIInv, TypeOK
<1>4. Standing'
    BY DEF ServedIInv, Standing, Waits
<1>5. Reading'
    BY <1>1, <1>2 DEF ServedIInv, Reading, Waits
<1>6. Whole'
    BY DEF ServedIInv, Whole, Parts
<1>. QED
    BY <1>3, <1>4, <1>5, <1>6 DEF ServedIInv

\* The end of a packet: the client leaves its place, and is served or not.
LEMMA ServedDone ==
    ASSUME ServedIInv, NEW d \in Daemons,
           InvalidPacket(d) \/ NewTerm(d) \/ KillDaemon(d)
    PROVE  ServedIInv'
<1>. DEFINE c == current[d]
<1>. USE DEF Goes, daemonvars, clientvars, CloseClient
<1>1. daemon[d] = "reading" /\ c \in Clients
    BY DEF ServedIInv, TypeOK, InvalidPacket, NewTerm, KillDaemon
<1>2. Waits(c, d) /\ got[d] <= sent[c] /\ sent[c] <= Parts(c)
    BY <1>1 DEF ServedIInv, Reading, Whole
<1>3. \E to \in {"idle", "killed"} : daemon' = [daemon EXCEPT ![d] = to]
    BY DEF InvalidPacket, NewTerm, KillDaemon
<1>4. /\ current' = [current EXCEPT ![d] = NoClient]
      /\ UNCHANGED <<backlog, got, path, private, client, kind, peer, sent>>
      /\ inherited' \subseteq Daemons
    BY DEF ServedIInv, TypeOK, InvalidPacket, NewTerm, KillDaemon, Bequeaths
<1>5. \/ UNCHANGED served
      \/ /\ served' = [served EXCEPT ![c] = 1]
         /\ kind[c] = "new_term" /\ sent[c] = Parts(c)
    <2>1. CASE InvalidPacket(d) \/ KillDaemon(d)
        BY <2>1 DEF InvalidPacket, KillDaemon
    <2>2. CASE NewTerm(d)
        <3>1. served[c] = 0 /\ served' = [served EXCEPT ![c] = served[c] + 1]
              /\ kind[c] = "new_term" /\ got[d] = Parts(c)
            BY <1>1, <1>2, <2>2 DEF ServedIInv, TypeOK, NewTerm, Waits
        <3>2. got[d] \in 0..3 /\ sent[c] \in 0..3 /\ Parts(c) \in 0..3
            BY <1>1, PartsType DEF ServedIInv, TypeOK
        <3>3. sent[c] = Parts(c)
            BY <1>2, <3>1, <3>2
        <3>. QED
            BY <3>1, <3>3
    <2>. QED
        BY <2>1, <2>2
<1>. HIDE DEF c
<1>6. TypeOK'
    <2>1. /\ daemon' \in [Daemons -> {"off"} \cup Starting \cup Listening \cup Ended]
          /\ \A e \in Daemons :
                /\ daemon'[e] \in {"idle", "reading"} /\ e # d => daemon'[e] = daemon[e]
                /\ daemon'[d] # "reading"
        BY <1>3 DEF ServedIInv, TypeOK, Starting, Listening, Ended
    <2>2. /\ current' \in [Daemons -> Clients \cup {NoClient}]
          /\ current'[d] = NoClient
          /\ \A e \in Daemons : e # d => current'[e] = current[e]
        BY <1>4 DEF ServedIInv, TypeOK
    <2>3. served' \in [Clients -> Nat]
        <3>1. served \in [Clients -> Nat] /\ 1 \in Nat
            BY DEF ServedIInv, TypeOK
        <3>. QED
            BY <1>1, <1>5, <3>1
    <2>. QED
        BY <1>4, <2>1, <2>2, <2>3 DEF ServedIInv, TypeOK
<1>7. Standing'
    <2>1. ASSUME NEW e \in Daemons, NEW b \in Clients, NEW i \in 1..Len(backlog[e]),
                 backlog[e][i] = b
          PROVE  Waits(b, e)' /\ current'[e] # b
        <3>1. Waits(b, e) /\ current[e] # b
            BY <2>1 DEF ServedIInv, Standing
        <3>2. b # c
            BY <1>1, <1>2, <3>1 DEF Waits, c
        <3>3. current'[e] # b
            BY <1>4, <3>1, DaemonSocketAssumption DEF ServedIInv, TypeOK
        <3>. QED
            BY <1>1, <1>4, <1>5, <3>1, <3>2, <3>3 DEF ServedIInv, TypeOK, Waits
    <2>. QED
        BY <1>4, <2>1 DEF ServedIInv, Standing
<1>8. Reading'
    <2>. SUFFICES ASSUME NEW e \in Daemons
         PROVE  /\ current'[e] \in Clients =>
                      Waits(current[e], e)' /\ got'[e] <= sent'[current'[e]]
                /\ daemon'[e] \in {"off", "idle"} \cup Starting => current'[e] = NoClient
        BY DEF Reading
    <2>1. CASE e = d
        BY <1>4, <2>1, DaemonSocketAssumption DEF ServedIInv, TypeOK
    <2>2. CASE e # d
        <3>1. daemon'[e] = daemon[e] /\ current'[e] = current[e]
            BY <1>3, <1>4, <2>2 DEF ServedIInv, TypeOK
        <3>2. current[e] \in Clients => Waits(current[e], e) /\ current[e] # c
            BY <1>2, <2>2 DEF ServedIInv, Reading, Waits
        <3>. QED
            BY <1>1, <1>4, <1>5, <3>1, <3>2 DEF ServedIInv, TypeOK, Reading, Waits
    <2>. QED
        BY <2>1, <2>2
<1>9. Whole'
    <2>1. \A b \in Clients :
              /\ Parts(b)' = Parts(b)
              /\ \/ served'[b] = served[b]
                 \/ /\ b = c /\ served'[b] = 1
                    /\ kind[b] = "new_term" /\ sent[b] = Parts(b)
        BY <1>4, <1>5 DEF ServedIInv, TypeOK, Parts
    <2>. QED
        BY <1>2, <1>4, <2>1 DEF ServedIInv, Whole, Waits
<1>. QED
    BY <1>6, <1>7, <1>8, <1>9 DEF ServedIInv

LEMMA ServedConnect ==
    ASSUME ServedIInv, NEW c \in Clients, Connect(c)
    PROVE  ServedIInv'
<1>. USE DEF daemonvars
<1>1. /\ client[c] = "off" /\ served[c] = 0
      /\ UNCHANGED <<daemon, path, private, inherited, current, got, kind, sent, served>>
    BY DEF ServedIInv, Whole, Connect
\* c stands nowhere before it connects.
<1>2. \A d \in Daemons :
          /\ current[d] # c
          /\ \A i \in 1..Len(backlog[d]) : backlog[d][i] # c
    BY <1>1 DEF ServedIInv, Standing, Reading, Waits
<1>3. Whole'
    <2>1. \A b \in Clients : client'[b] = "off" => client[b] = "off"
        BY DEF ServedIInv, TypeOK, Connect
    <2>. QED
        BY <1>1, <2>1 DEF ServedIInv, Whole, Parts
<1>4. CASE path # NoSocket /\ Answers(path)
    <2>1. /\ path \in Daemons /\ Len(backlog[path]) < Backlog
          /\ client' = [client EXCEPT ![c] = "sending"]
          /\ peer' = [peer EXCEPT ![c] = path]
          /\ backlog' = [backlog EXCEPT ![path] = Append(backlog[path], c)]
        BY <1>4 DEF ServedIInv, TypeOK, Connect
    <2>2. /\ backlog[path] \in Seq(Clients)
          /\ Append(backlog[path], c) \in Seq(Clients)
          /\ Len(Append(backlog[path], c)) = Len(backlog[path]) + 1
          /\ Append(backlog[path], c)[Len(backlog[path]) + 1] = c
          /\ \A i \in 1..Len(backlog[path]) :
                Append(backlog[path], c)[i] = backlog[path][i]
        BY <2>1 DEF ServedIInv, TypeOK
    <2>3. TypeOK'
        BY <1>1, <2>1, <2>2, DaemonSocketAssumption DEF ServedIInv, TypeOK
    <2>4. Standing'
        <3>1. ASSUME NEW e \in Daemons, NEW b \in Clients, NEW i \in 1..Len(backlog'[e]),
                     backlog'[e][i] = b
              PROVE  Waits(b, e)' /\ current'[e] # b
            <4>1. CASE i \in 1..Len(backlog[e])
                <5>1. backlog[e][i] = b /\ b # c
                    BY <1>2, <2>1, <2>2, <3>1, <4>1 DEF ServedIInv, TypeOK
                <5>2. Waits(b, e) /\ current[e] # b
                    BY <4>1, <5>1 DEF ServedIInv, Standing
                <5>. QED
                    BY <1>1, <2>1, <5>1, <5>2 DEF ServedIInv, TypeOK, Waits
            <4>2. CASE i \notin 1..Len(backlog[e])
                <5>1. e = path /\ b = c
                    BY <2>1, <2>2, <3>1, <4>2 DEF ServedIInv, TypeOK
                <5>. QED
                    BY <1>1, <1>2, <2>1, <5>1 DEF ServedIInv, TypeOK, Waits
            <4>. QED
                BY <4>1, <4>2
        <3>2. ASSUME NEW e \in Daemons, NEW i \in 1..Len(backlog'[e]),
                     NEW j \in 1..Len(backlog'[e]), backlog'[e][i] = backlog'[e][j]
              PROVE  i = j
            <4>1. CASE e = path
                <5>1. \A k \in 1..Len(backlog'[e]) :
                          IF k = Len(backlog[path]) + 1
                          THEN backlog'[e][k] = c
                          ELSE /\ k \in 1..Len(backlog[path])
                               /\ backlog'[e][k] = backlog[path][k]
                               /\ backlog'[e][k] # c
                    <6>1. /\ backlog'[e] = Append(backlog[path], c)
                          /\ Len(backlog[path]) \in Nat
                        BY <2>1, <4>1 DEF ServedIInv, TypeOK
                    <6>2. \A k \in 1..Len(backlog[path]) + 1 :
                              k = Len(backlog[path]) + 1 \/ k \in 1..Len(backlog[path])
                        BY <6>1
                    <6>. QED
                        BY <1>2, <2>1, <2>2, <6>1, <6>2
                <5>. QED
                    BY <2>1, <3>2, <5>1 DEF ServedIInv, Standing
            <4>2. CASE e # path
                BY <2>1, <3>2, <4>2 DEF ServedIInv, TypeOK, Standing
            <4>. QED
                BY <4>1, <4>2
        <3>. QED
            BY <3>1, <3>2 DEF Standing
    <2>5. Reading'
        BY <1>1, <1>2, <2>1 DEF ServedIInv, TypeOK, Reading, Waits
    <2>. QED
        BY <1>3, <2>3, <2>4, <2>5 DEF ServedIInv
<1>5. CASE ~(path # NoSocket /\ Answers(path))
    <2>1. client' = [client EXCEPT ![c] = "failed"] /\ UNCHANGED <<peer, backlog>>
        BY <1>5 DEF Connect
    <2>2. TypeOK'
        BY <1>1, <2>1 DEF ServedIInv, TypeOK
    <2>3. Standing'
        BY <1>1, <2>1 DEF ServedIInv, TypeOK, Standing, Waits
    <2>4. Reading'
        BY <1>1, <2>1 DEF ServedIInv, TypeOK, Reading, Waits
    <2>. QED
        BY <1>3, <2>2, <2>3, <2>4 DEF ServedIInv
<1>. QED
    BY <1>4, <1>5

LEMMA ServedClient ==
    ASSUME ServedIInv, NEW c \in Clients, ClientStep(c) \/ ClientDies(c)
    PROVE  ServedIInv'
<1>. USE DEF daemonvars, readvars
<1>1. /\ UNCHANGED <<daemon, path, private, inherited, backlog, current, got,
                     kind, peer, served>>
      /\ client[c] = "sending"
      /\ \/ UNCHANGED client
         \/ client' = [client EXCEPT ![c] = "failed"]
         \/ client' = [client EXCEPT ![c] = "finished"]
      /\ \/ UNCHANGED sent
         \/ sent[c] < Parts(c) /\ sent' = [sent EXCEPT ![c] = sent[c] + 1]
    BY DEF ServedIInv, TypeOK, ClientStep, SendPart, Finish, ClientDies
<1>2. /\ sent' \in [Clients -> 0..3]
      /\ \A b \in Clients :
            /\ Parts(b)' = Parts(b) /\ sent[b] \in 0..3
            /\ sent[b] <= sent'[b] /\ sent'[b] <= Parts(b)
            /\ served[b] # 0 => sent'[b] = sent[b]
    <2>1. /\ sent \in [Clients -> 0..3] /\ Parts(c) \in 0..3
          /\ \A b \in Clients :
                /\ Parts(b)' = Parts(b) /\ sent[b] \in 0..3 /\ sent[b] <= Parts(b)
                /\ served[b] # 0 => sent[b] = Parts(b)
        BY <1>1, PartsType DEF ServedIInv, TypeOK, Whole, Parts
    <2>2. CASE UNCHANGED sent
        BY <2>1, <2>2
    <2>3. CASE sent[c] < Parts(c) /\ sent' = [sent EXCEPT ![c] = sent[c] + 1]
        <3>1. sent[c] \in 0..3 /\ sent[c] + 1 \in 0..3 /\ sent[c] + 1 <= Parts(c)
            BY <2>1, <2>3
        <3>2. sent' \in [Clients -> 0..3] /\ sent'[c] = sent[c] + 1
            BY <2>1, <2>3, <3>1
        <3>3. \A b \in Clients : b # c => sent'[b] = sent[b]
            BY <2>1, <2>3
        <3>4. served[c] = 0
            BY <2>1, <2>3, <3>1
        <3>. QED
            BY <2>1, <3>1, <3>2, <3>3, <3>4
    <2>. QED
        BY <1>1, <2>2, <2>3
<1>3. /\ client' \in [Clients -> {"off", "sending", "finished", "failed"}]
      /\ \A b \in Clients : client'[b] = "off" <=> client[b] = "off"
    BY <1>1 DEF ServedIInv, TypeOK
<1>4. TypeOK'
    BY <1>1, <1>2, <1>3 DEF ServedIInv, TypeOK
<1>5. Standing'
    BY <1>1, <1>3 DEF ServedIInv, Standing, Waits
<1>6. Reading'
    <2>. SUFFICES ASSUME NEW d \in Daemons
         PROVE  /\ current[d] \in Clients =>
                      Waits(current[d], d)' /\ got[d] <= sent'[current[d]]
                /\ daemon[d] \in {"off", "idle"} \cup Starting => current[d] = NoClient
        BY <1>1 DEF Reading
    <2>1. ASSUME current[d] \in Clients
          PROVE  Waits(current[d], d)' /\ got[d] <= sent'[current[d]]
        <3>1. Waits(current[d], d) /\ got[d] <= sent[current[d]]
            BY <2>1 DEF ServedIInv, Reading
        <3>2. /\ got[d] \in Nat /\ sent[current[d]] \in Nat /\ sent'[current[d]] \in Nat
              /\ sent[current[d]] <= sent'[current[d]]
            <4>1. got[d] \in 0..3 /\ sent[current[d]] \in 0..3 /\ sent'[current[d]] \in 0..3
                BY <1>2, <2>1 DEF ServedIInv, TypeOK
            <4>2. sent[current[d]] <= sent'[current[d]]
                BY <1>2, <2>1
            <4>. QED
                BY <4>1, <4>2
        <3>3. got[d] <= sent'[current[d]]
            BY <3>1, <3>2
        <3>. QED
            BY <1>1, <1>3, <2>1, <3>1, <3>3 DEF Waits
    <2>. QED
        BY <2>1 DEF ServedIInv, Reading
<1>7. Whole'
    BY <1>1, <1>2, <1>3 DEF ServedIInv, Whole
<1>. QED
    BY <1>4, <1>5, <1>6, <1>7 DEF ServedIInv

LEMMA ServedNext == ServedIInv /\ [Next]_vars => ServedIInv'
<1>. SUFFICES ASSUME ServedIInv, [Next]_vars PROVE ServedIInv'
    OBVIOUS
<1>1. ASSUME NEW d \in Daemons, Start(d) \/ OpenStep(d) \/ Crash(d) PROVE ServedIInv'
    BY <1>1, ServedOpen
<1>2. ASSUME NEW d \in Daemons, Serve(d) PROVE ServedIInv'
    BY <1>2, ServedAccept, ServedReadPart, ServedDone DEF Serve
<1>3. ASSUME NEW c \in Clients, Connect(c) \/ ClientStep(c) \/ ClientDies(c)
      PROVE  ServedIInv'
    BY <1>3, ServedConnect, ServedClient
<1>4. CASE UNCHANGED vars
    <2>. USE <1>4 DEF vars, daemonvars, readvars, clientvars
    <2>1. TypeOK'
        BY DEF ServedIInv, TypeOK
    <2>2. Standing'
        BY DEF ServedIInv, Standing, Waits
    <2>3. Reading'
        BY DEF ServedIInv, Reading, Waits
    <2>4. Whole'
        BY DEF ServedIInv, Whole, Parts
    <2>. QED
        BY <2>1, <2>2, <2>3, <2>4 DEF ServedIInv
<1>. QED
    BY <1>1, <1>2, <1>3, <1>4 DEF Next

\* A terminal is made once, and only for a client whose whole packet was
\* read, wherever clients and daemons stop (daemon.c:43-80).
THEOREM OneTerminalPerRequest == Spec => []ServedIsWhole
<1>1. ServedIInv => ServedIsWhole
    BY DEF ServedIInv, Whole, ServedIsWhole
<1>. QED
    BY <1>1, ServedInit, ServedNext, PTL DEF Spec

=============================================================================
