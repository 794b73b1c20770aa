----------------------------- MODULE EventLoop -----------------------------
(***************************************************************************)
(* CNServer::start, the poll loop of the shard, and what the handlers and  *)
(* timers it calls do to connections.  Module Session takes a connection   *)
(* for its CNSocket; here a CNSocket knows its peer by a descriptor only,  *)
(* and the operating system hands the lowest free descriptor out again.    *)
(* Descriptors lead to connections in three places: the system's table,    *)
(* the map connections, and the list fds that is given to poll.            *)
(*                                                                         *)
(* The system's table is the process's: the login server's thread, which   *)
(* runs the same loop, the monitor and the database take descriptors from  *)
(* it and close them at any moment.  Of them there is, for each descriptor, *)
(* only whether one still holds it, and whether it has closed it.          *)
(*                                                                         *)
(* Each client connects once, so a client also stands for its CNSocket.    *)
(* The loop's counter n only ends the loop early and is left out, and so   *)
(* are the bytes of a packet.  An operator marked "mutant" is a slip in    *)
(* the definition that follows it, for the runs that must notice it.       *)
(***************************************************************************)
EXTENDS Naturals, SequencesExt

CONSTANTS
    Client,    \* connections, one per run of the game
    Account,
    Owner,     \* the account each client logs in with
    MaxFd,     \* descriptors 1 .. MaxFd
    MaxForeign, \* bound: descriptors the rest of the process holds at a time
    Foreign,   \* in the system's table: something of the rest of the process
    None

Fd == 1 .. MaxFd

ASSUME LoopAssumption ==
    /\ Owner \in [Client -> Account]
    /\ MaxFd \in Nat
    /\ None \notin Client /\ None \notin Nat
    /\ Foreign \notin Client /\ Foreign # None

VARIABLES
    up,           \* the clients that are running and connected, as far as they know
    backlog,      \* the clients that wait to be accepted
    table,        \* the system's table: whose connection an open descriptor is
    sock,         \* each CNSocket: "none", "alive", "dead" (alive = false) or "deleted"
    fdOf,         \* each CNSocket's descriptor
    connections,  \* the CNSocket found for a descriptor
    elsewhere,    \* what the rest of the process has for a descriptor: a SockState
    fds,          \* what poll is given and returns: <<descriptor, revents>>
    knock,        \* the listener's revents
    turn,         \* the loop's i, 0 for the listener; None between two rounds
    players,      \* the sockets that have a player
    clash         \* history: a closed descriptor was given out before the loop had forgotten it

netVars == <<up, backlog>>
socketVars == <<table, sock, fdOf>>
vars == <<netVars, socketVars, connections, elsewhere, fds, knock, turn, players, clash>>

SockState == {"none", "alive", "dead", "deleted"}
Revents == {"none", "in", "error"}
PollFd == [fd : Fd, revents : Revents]

Init ==
    /\ up = {} /\ backlog = {}
    /\ table = [f \in Fd |-> None]
    /\ sock = [c \in Client |-> "none"]
    /\ fdOf = [c \in Client |-> 0]
    /\ connections = [f \in Fd |-> None]
    /\ elsewhere = [f \in Fd |-> "none"]
    /\ fds = <<>> /\ knock = FALSE
    /\ turn = None
    /\ players = {}
    /\ clash = FALSE

-----------------------------------------------------------------------------

\* The game is started; it is closed or loses its network.
Connect(c) ==
    /\ sock[c] = "none" /\ c \notin backlog
    /\ up' = up \cup {c}
    /\ backlog' = backlog \cup {c}
    /\ UNCHANGED <<socketVars, connections, elsewhere, fds, knock, turn, players, clash>>

Vanish(c) ==
    /\ c \in up
    /\ up' = up \ {c}
    /\ UNCHANGED <<backlog, socketVars, connections, elsewhere, fds, knock, turn, players, clash>>

\* poll: a closed descriptor is an error, a peer that is gone can be read or is an
\* error, any other peer may have sent something, and so may one of the login server.
Seen(f) ==
    IF table[f] = None THEN {"error"}
    ELSE IF table[f] = Foreign THEN Revents
    ELSE IF table[f] \notin up THEN {"in", "error"}
    ELSE {"none", "in"}

Poll ==
    /\ turn = None
    /\ \E r \in [1 .. Len(fds) -> Revents] :
        /\ \A i \in 1 .. Len(fds) : r[i] \in Seen(fds[i].fd)
        /\ fds' = [i \in 1 .. Len(fds) |-> [fd |-> fds[i].fd, revents |-> r[i]]]
    /\ knock' = (backlog # {})
    /\ turn' = 0
    /\ UNCHANGED <<netVars, socketVars, connections, elsewhere, players, clash>>

\* The loop passes over the entries nothing has happened on.
Due == {i \in 0 .. Len(fds) : i >= turn /\ IF i = 0 THEN knock ELSE fds[i].revents # "none"}
At(i) == turn # None /\ i \in Due /\ \A j \in Due : i <= j

\* accept gives the lowest descriptor that is free.
Forgotten(f) == elsewhere[f] = "none" /\ \A i \in 1 .. Len(fds) : fds[i].fd # f
FreeFds == {f \in Fd : table[f] = None}

Accept(c) ==
    /\ At(0)
    /\ c \in backlog
    /\ FreeFds # {}
    /\ LET f == Min(FreeFds)
       IN  /\ table' = [table EXCEPT ![f] = c]
           /\ fdOf' = [fdOf EXCEPT ![c] = f]
           /\ connections' = [connections EXCEPT ![f] = c]
           /\ fds' = Append(fds, [fd |-> f, revents |-> "none"])
           /\ clash' = (clash \/ ~Forgotten(f))
    /\ sock' = [sock EXCEPT ![c] = "alive"]
    /\ backlog' = backlog \ {c}
    /\ turn' = 1
    /\ UNCHANGED <<up, elsewhere, knock, players>>

\* accept fails, or setSockNonblocking does and closes what was accepted.
AcceptFails ==
    /\ At(0)
    /\ IF FreeFds = {} THEN UNCHANGED backlog ELSE \E c \in backlog : backlog' = backlog \ {c}
    /\ turn' = 1
    /\ UNCHANGED <<up, socketVars, connections, elsewhere, fds, knock, players, clash>>

\* "Event on non-existant socket?"
NoConnection(i) ==
    /\ At(i) /\ i # 0
    /\ connections[fds[i].fd] = None
    /\ turn' = i + 1
    /\ UNCHANGED <<netVars, socketVars, connections, elsewhere, fds, knock, players, clash>>

\* CNSocket::kill, also on a socket that is dead already: its descriptor is
\* closed, whosever it is by now.
HalfKilled(S) ==  \* mutant
    /\ sock' = sock
    /\ table' = [f \in Fd |-> IF \E s \in S : fdOf[s] = f THEN None ELSE table[f]]
Killed(S) ==
    /\ sock' = [c \in Client |-> IF c \in S THEN "dead" ELSE sock[c]]
    /\ table' = [f \in Fd |-> IF \E s \in S : fdOf[s] = f THEN None ELSE table[f]]

\* removePollFD takes the first entry with that descriptor out of the list.
Entry(f) == CHOOSE i \in 1 .. Len(fds) : fds[i].fd = f /\ \A j \in 1 .. i - 1 : fds[j].fd # f
Tombstoned(f) == [fds EXCEPT ![Entry(f)] = [fd |-> 0, revents |-> "none"]]  \* mutant
LastDropped(f) == SubSeq(fds, 1, Len(fds) - 1)  \* mutant
Dropped(f) == RemoveAt(fds, Entry(f))

\* The socket of an entry is found dead, or an error kills it: killConnection
\* removes its player, and it is deleted.
PlayersKept(s) == players  \* mutant
PlayersWithout(s) == players \ {s}

Reap(i, s) ==
    /\ At(i) /\ i # 0
    /\ connections[fds[i].fd] = s
    /\ sock[s] = "dead" \/ fds[i].revents = "error"
    /\ table' = IF fds[i].revents = "error" THEN [table EXCEPT ![fdOf[s]] = None] ELSE table
    /\ sock' = [sock EXCEPT ![s] = "deleted"]
    /\ players' = PlayersWithout(s)
    /\ connections' = [connections EXCEPT ![fds[i].fd] = None]
    /\ fds' = Dropped(fds[i].fd)
    /\ turn' = i
    /\ UNCHANGED <<netVars, fdOf, elsewhere, knock, clash>>

\* CNSocket::step of a socket that is alive.
Stepping(i, s) ==
    /\ At(i) /\ i # 0
    /\ connections[fds[i].fd] = s
    /\ sock[s] = "alive" /\ fds[i].revents = "in"
    /\ turn' = i + 1
    /\ UNCHANGED <<netVars, fdOf, connections, elsewhere, fds, knock, clash>>

\* recv returns 0 or an error.
StepHangup(i, s) ==
    /\ Stepping(i, s)
    /\ table[fdOf[s]] \notin up
    /\ Killed({s})
    /\ UNCHANGED players

\* A first PC_ENTER: another player of the account is thrown out.
Others(s) == {p \in players : Owner[p] = Owner[s] /\ p # s}
StepEnter(i, s) ==
    /\ Stepping(i, s)
    /\ table[fdOf[s]] \in up
    /\ s \notin players
    /\ Killed(Others(s))
    /\ players' = (players \ Others(s)) \cup {s}

\* Any other packet.  What it sends to players whose peer is gone may fail, and
\* sendPacket kills them; /kick and /ban kill a player, as does cheating one's own.
Unreachable == {p \in players : sock[p] = "alive" /\ table[fdOf[p]] \notin up}
StepPacket(i, s) ==
    /\ Stepping(i, s)
    /\ table[fdOf[s]] \in up \cup {Foreign}
    /\ \E S \in SUBSET Unreachable : Killed(S) \/ \E p \in players : Killed(S \cup {p})
    /\ UNCHANGED players

\* onStep and its timers: keepAliveTimer kills the players it has not heard for
\* TIMEOUT, whatever the reason, dead ones again.
OnStep(S) ==
    /\ turn # None /\ Due = {}
    /\ S \subseteq players
    /\ Killed(S)
    /\ turn' = None
    /\ UNCHANGED <<netVars, fdOf, connections, elsewhere, fds, knock, players, clash>>

\* The rest of the process, in threads of its own: the login server accepts, kills,
\* dead sockets again, and reaps; the database opens and closes a journal.
OpenElsewhere ==
    /\ FreeFds # {} /\ Cardinality({f \in Fd : elsewhere[f] # "none"}) < MaxForeign
    /\ LET f == Min(FreeFds)
       IN  /\ table' = [table EXCEPT ![f] = Foreign]
           /\ elsewhere' = [elsewhere EXCEPT ![f] = "alive"]
           /\ clash' = (clash \/ ~Forgotten(f))
    /\ UNCHANGED <<netVars, sock, fdOf, connections, fds, knock, turn, players>>
CloseElsewhere(f) ==
    /\ elsewhere[f] # "none"
    /\ table' = [table EXCEPT ![f] = None]
    /\ elsewhere' = [elsewhere EXCEPT ![f] = "dead"]
    /\ UNCHANGED <<netVars, sock, fdOf, connections, fds, knock, turn, players, clash>>
ForgetElsewhere(f) ==
    /\ elsewhere[f] = "dead"
    /\ elsewhere' = [elsewhere EXCEPT ![f] = "none"]
    /\ UNCHANGED <<netVars, socketVars, connections, fds, knock, turn, players, clash>>
Elsewhere == OpenElsewhere \/ \E f \in Fd : CloseElsewhere(f) \/ ForgetElsewhere(f)

Handle ==
    \/ Poll
    \/ \E c \in Client : Accept(c)
    \/ AcceptFails
    \/ \E i \in 1 .. Len(fds) :
        \/ NoConnection(i)
        \/ \E s \in Client : Reap(i, s) \/ StepHangup(i, s) \/ StepEnter(i, s) \/ StepPacket(i, s)
    \/ \E S \in SUBSET Client : OnStep(S)

Next ==
    \/ \E c \in Client : Connect(c) \/ Vanish(c)
    \/ Elsewhere
    \/ Handle

Spec == Init /\ [][Next]_vars

\* The loop goes on by itself, and keepAliveTimer, which runs at the end of
\* every round it is due, in the end finds a player that stays silent.
Silent(c) == c \in players /\ (c \notin up \/ table[fdOf[c]] # c)
Fairness ==
    /\ WF_vars(Handle)
    /\ \A c \in Client : SF_vars(Silent(c) /\ \E S \in SUBSET Client : c \in S /\ OnStep(S))

FairSpec == Spec /\ Fairness

-----------------------------------------------------------------------------

\* The types of the variables.
LoopTypeOK ==
    /\ up \subseteq Client /\ backlog \subseteq Client
    /\ table \in [Fd -> Client \cup {Foreign, None}]
    /\ elsewhere \in [Fd -> SockState \ {"deleted"}]
    /\ sock \in [Client -> SockState]
    /\ fdOf \in [Client -> Fd \cup {0}]
    /\ connections \in [Fd -> Client \cup {None}]
    /\ fds \in Seq(PollFd)
    /\ knock \in BOOLEAN
    /\ turn \in Nat \cup {None}
    /\ players \subseteq Client

\* No CNSocket is used after it was deleted: the ones connections and
\* PlayerManager::players lead to are all still there, although handlers kill
\* and remove each other's sockets in the middle of the loop.
NoUseAfterDelete ==
    /\ \A f \in Fd : connections[f] # None => sock[connections[f]] \in {"alive", "dead"}
    /\ \A p \in players : sock[p] \in {"alive", "dead"}

\* Every connection is still polled, whatever is added to and removed from fds
\* while the loop runs over it: none is forgotten with its socket open.
ConnectionsPolled ==
    \A f \in Fd : connections[f] # None => \E i \in 1 .. Len(fds) : fds[i].fd = f

\* As long as no descriptor is given out again too early, a socket that is alive
\* has a descriptor of its own: what is sent to a player is never written to
\* another client's connection, nor into anything of the rest of the process, and
\* nothing of the latter is closed by the shard.
OwnDescriptor ==
    ~clash => /\ \A c \in Client : sock[c] = "alive" => table[fdOf[c]] = c
              /\ \A f \in Fd : elsewhere[f] = "alive" => table[f] = Foreign

\* As long as no descriptor is given out again too early, the player of a client
\* that is gone is in the end removed.
ThrownOutUnlessClash == \A c \in Client : (c \in players /\ c \notin up) ~> (c \notin players \/ clash)

\* "if the client hasn't responded in 60 seconds, its a dead connection so throw
\* it out" (CNShardServer.cpp:44): the player of a client that is gone is removed.
ThrownOut == \A c \in Client : (c \in players /\ c \notin up) ~> c \notin players

=============================================================================
