-------------------------- MODULE EventLoopProofs --------------------------
(***************************************************************************)
(* For any number of connections and descriptors, and however early the    *)
(* system gives a descriptor out again: the loop uses no CNSocket after it *)
(* was deleted, and polls every connection it knows.                       *)
(***************************************************************************)
EXTENDS EventLoop, DataLemmas

\* removePollFD: the entry it takes out is one of the descriptor, and the
\* entries of every other descriptor stay.
LEMMA DroppedKeeps ==
    ASSUME fds \in Seq(PollFd), NEW i \in 1 .. Len(fds)
    PROVE  /\ Dropped(fds[i].fd) \in Seq(PollFd)
           /\ \A j \in 1 .. Len(fds) : fds[j].fd # fds[i].fd =>
                \E k \in 1 .. Len(Dropped(fds[i].fd)) : Dropped(fds[i].fd)[k] = fds[j]
  <1> DEFINE f == fds[i].fd
             T == {k \in 1 .. Len(fds) : fds[k].fd = f}
             e == Entry(f)
  <1>0. Len(fds) \in Nat /\ \A k \in 1 .. Len(fds) : fds[k] \in PollFd
    BY LenProperties, ElementOfSeq
  <1>1. \E k \in T : \A y \in T : k <= y
    <2>1. T \in SUBSET Nat /\ T # {}
      BY <1>0
    <2> QED
      BY <2>1, LeastElement
  <1>2. \E k \in 1 .. Len(fds) : fds[k].fd = f /\ \A j \in 1 .. k - 1 : fds[j].fd # f
    <2>1. PICK k \in T : \A y \in T : k <= y
      BY <1>1
    <2>2. ASSUME NEW j \in 1 .. k - 1 PROVE fds[j].fd # f
      BY <1>0, <2>1, <2>2
    <2> QED
      BY <2>1, <2>2
  <1>3. e \in 1 .. Len(fds) /\ fds[e].fd = f
    BY <1>2 DEF Entry
  <1> HIDE DEF e
  <1>4. Dropped(f) = RemoveAt(fds, e)
    BY DEF Dropped, e
  <1>5. /\ RemoveAt(fds, e) \in Seq(PollFd) /\ Len(RemoveAt(fds, e)) = Len(fds) - 1
        /\ \A k \in 1 .. Len(fds) - 1 : RemoveAt(fds, e)[k] = IF k < e THEN fds[k] ELSE fds[k + 1]
    BY <1>3, RemoveAtProperties
  <1>6. ASSUME NEW j \in 1 .. Len(fds), fds[j].fd # f
        PROVE  \E k \in 1 .. Len(fds) - 1 : RemoveAt(fds, e)[k] = fds[j]
    <2>1. CASE j < e
      BY <1>0, <1>3, <1>5, <2>1
    <2>2. CASE j > e
      <3>1. j - 1 \in 1 .. Len(fds) - 1 /\ ~(j - 1 < e) /\ (j - 1) + 1 = j
        BY <1>0, <1>3, <2>2
      <3>2. RemoveAt(fds, e)[j - 1] = fds[(j - 1) + 1]
        BY <1>5, <3>1
      <3> QED
        BY <3>1, <3>2
    <2> QED
      BY <1>0, <1>3, <1>6, <2>1, <2>2
  <1> QED
    BY <1>4, <1>5, <1>6

-----------------------------------------------------------------------------
(***************************************************************************)
(* The invariant.  A socket is only ever registered under the descriptor   *)
(* it was accepted with, and who still waits to be accepted has no socket: *)
(* that is why deleting the socket of one descriptor leaves nothing behind *)
(* under another one.                                                      *)
(***************************************************************************)
Types ==
    /\ sock \in [Client -> SockState]
    /\ fdOf \in [Client -> Fd \cup {0}]
    /\ connections \in [Fd -> Client \cup {None}]
    /\ fds \in Seq(PollFd)
    /\ players \subseteq Client
    /\ backlog \subseteq Client

Registered ==
    /\ \A f \in Fd : connections[f] # None =>
         fdOf[connections[f]] = f /\ sock[connections[f]] \in {"alive", "dead"}
    /\ \A p \in players : sock[p] \in {"alive", "dead"}
    /\ \A c \in backlog : sock[c] = "none"

LoopInv == Types /\ Registered /\ ConnectionsPolled

LEMMA LoopInit == Init => LoopInv
  <1> SUFFICES ASSUME Init PROVE LoopInv
    OBVIOUS
  <1>1. fds \in Seq(PollFd)
    BY EmptySeq DEF Init
  <1> QED
    BY <1>1, LoopAssumption DEF Init, LoopInv, Types, Registered, ConnectionsPolled, SockState

\* kill only marks sockets that are there.
LEMMA KilledKeeps ==
    ASSUME LoopInv, NEW S \in SUBSET Client, Killed(S), \A s \in S : sock[s] \in {"alive", "dead"},
           NEW P \in SUBSET Client, P = players', \A p \in P : sock[p] \in {"alive", "dead"},
           UNCHANGED <<backlog, fdOf, connections, fds>>
    PROVE  LoopInv'
  <1>1. Types'
    BY DEF Killed, LoopInv, Types, SockState
  <1>2. \A c \in Client : sock[c] \in {"alive", "dead"} => sock'[c] \in {"alive", "dead"}
    BY DEF Killed
  <1>3. \A c \in Client : c \notin S => sock'[c] = sock[c]
    BY DEF Killed
  <1>4. \A f \in Fd : connections[f] # None => connections[f] \in Client
    BY DEF LoopInv, Types
  <1>5. \A c \in backlog : c \notin S
    BY DEF LoopInv, Registered
  <1>6. \A c \in backlog' : sock'[c] = "none"
    BY <1>3, <1>5 DEF LoopInv, Types, Registered
  <1>7. Registered'
    BY <1>2, <1>4, <1>6 DEF LoopInv, Types, Registered
  <1> QED
    BY <1>1, <1>7 DEF LoopInv, ConnectionsPolled

\* accept: the newcomer takes its descriptor over.
LEMMA AcceptKeeps == ASSUME LoopInv, NEW c \in Client, Accept(c) PROVE LoopInv'
  <1> DEFINE f == Min(FreeFds)
             new == [fd |-> f, revents |-> "none"]
  <1>1. f \in Fd
    <2>1. FreeFds \in SUBSET Nat /\ FreeFds # {} /\ FreeFds \subseteq Fd
      BY LoopAssumption DEF Accept, FreeFds, Fd
    <2> QED
      BY <2>1, MinIsLeast
  <1>2. /\ fdOf' = [fdOf EXCEPT ![c] = f]
        /\ connections' = [connections EXCEPT ![f] = c]
        /\ fds' = Append(fds, new)
        /\ sock' = [sock EXCEPT ![c] = "alive"]
        /\ backlog' = backlog \ {c}
        /\ players' = players
        /\ c \in backlog
    BY DEF Accept
  <1> HIDE DEF f
  <1>3. new \in PollFd
    BY <1>1 DEF PollFd, Revents
  <1>4. /\ fds' \in Seq(PollFd) /\ Len(fds') = Len(fds) + 1 /\ Len(fds) \in Nat
        /\ \A i \in 1 .. Len(fds) : fds'[i] = fds[i]
        /\ fds'[Len(fds) + 1] = new
    BY <1>2, <1>3, AppendProperties, LenProperties DEF LoopInv, Types
  <1>5. sock[c] = "none"
    BY <1>2 DEF LoopInv, Registered
  <1>6. Types'
    BY <1>1, <1>2, <1>4 DEF LoopInv, Types, SockState
  <1>7. \A g \in Fd : g # f => connections'[g] = connections[g]
    BY <1>2 DEF LoopInv, Types
  <1>8. connections'[f] = c /\ fdOf'[c] = f /\ sock'[c] = "alive"
    BY <1>1, <1>2 DEF LoopInv, Types
  <1>9. \A d \in Client : d # c => fdOf'[d] = fdOf[d] /\ sock'[d] = sock[d]
    BY <1>2 DEF LoopInv, Types
  <1>10. \A g \in Fd : connections[g] # None => connections[g] # c /\ connections[g] \in Client
    BY <1>5 DEF LoopInv, Types, Registered
  <1>11. Registered'
    <2>1. \A g \in Fd : connections'[g] # None =>
            fdOf'[connections'[g]] = g /\ sock'[connections'[g]] \in {"alive", "dead"}
      BY <1>7, <1>8, <1>9, <1>10 DEF LoopInv, Registered
    <2>2. \A p \in players' : sock'[p] \in {"alive", "dead"}
      BY <1>2, <1>5, <1>9 DEF LoopInv, Types, Registered
    <2>3. \A d \in backlog' : sock'[d] = "none"
      BY <1>2 DEF LoopInv, Types, Registered
    <2> QED
      BY <2>1, <2>2, <2>3 DEF Registered
  <1>12. ConnectionsPolled'
    <2>1. ASSUME NEW g \in Fd, connections'[g] # None
          PROVE  \E i \in 1 .. Len(fds') : fds'[i].fd = g
      <3>1. CASE g = f
        BY <1>4, <3>1
      <3>2. CASE g # f
        <4>1. PICK i \in 1 .. Len(fds) : fds[i].fd = g
          BY <1>7, <2>1, <3>2 DEF LoopInv, ConnectionsPolled
        <4> QED
          BY <1>4, <4>1
      <3> QED
        BY <3>1, <3>2
    <2> QED
      BY <2>1 DEF ConnectionsPolled
  <1> QED
    BY <1>6, <1>11, <1>12 DEF LoopInv

\* The socket that is deleted was registered under this descriptor only.
LEMMA ReapKeeps ==
    ASSUME LoopInv, NEW i \in 1 .. Len(fds), NEW s \in Client, Reap(i, s)
    PROVE  LoopInv'
  <1> DEFINE f == fds[i].fd
  <1>1. /\ connections[f] = s
        /\ sock' = [sock EXCEPT ![s] = "deleted"]
        /\ players' = players \ {s}
        /\ connections' = [connections EXCEPT ![f] = None]
        /\ fds' = Dropped(f)
        /\ UNCHANGED <<backlog, fdOf>>
    BY DEF Reap, PlayersWithout, netVars
  <1>2. fds[i] \in PollFd /\ f \in Fd
    <2>1. fds[i] \in PollFd
      BY ElementOfSeq DEF LoopInv, Types
    <2> QED
      BY <2>1 DEF PollFd
  <1>3. /\ fds' \in Seq(PollFd)
        /\ \A j \in 1 .. Len(fds) : fds[j].fd # f => \E k \in 1 .. Len(fds') : fds'[k] = fds[j]
    BY <1>1, DroppedKeeps DEF LoopInv, Types
  <1> HIDE DEF f
  <1>4. s # None
    BY LoopAssumption
  <1>5. fdOf[s] = f /\ sock[s] # "none"
    BY <1>1, <1>2, <1>4 DEF LoopInv, Registered
  <1>6. /\ connections'[f] = None
        /\ \A g \in Fd : g # f => connections'[g] = connections[g]
        /\ \A d \in Client : d # s => sock'[d] = sock[d]
    BY <1>1, <1>2 DEF LoopInv, Types
  <1>7. Types'
    BY <1>1, <1>3 DEF LoopInv, Types, SockState
  <1>8. Registered'
    <2>1. ASSUME NEW g \in Fd, connections'[g] # None
          PROVE  fdOf'[connections'[g]] = g /\ sock'[connections'[g]] \in {"alive", "dead"}
      <3>1. g # f /\ connections'[g] = connections[g]
        BY <1>6, <2>1
      <3>2. fdOf[connections[g]] = g /\ sock[connections[g]] \in {"alive", "dead"}
        BY <2>1, <3>1 DEF LoopInv, Registered
      <3>3. connections[g] # s /\ connections[g] \in Client
        BY <1>5, <2>1, <3>1, <3>2 DEF LoopInv, Types
      <3> QED
        BY <1>1, <1>6, <3>1, <3>2, <3>3
    <2>2. \A p \in players' : sock'[p] \in {"alive", "dead"}
      BY <1>1, <1>6 DEF LoopInv, Types, Registered
    <2>3. \A d \in backlog' : sock'[d] = "none"
      BY <1>1, <1>5 DEF LoopInv, Types, Registered
    <2> QED
      BY <2>1, <2>2, <2>3 DEF Registered
  <1>9. ConnectionsPolled'
    <2>1. ASSUME NEW g \in Fd, connections'[g] # None
          PROVE  \E k \in 1 .. Len(fds') : fds'[k].fd = g
      <3>1. g # f /\ connections[g] # None
        BY <1>6, <2>1
      <3>2. PICK j \in 1 .. Len(fds) : fds[j].fd = g
        BY <3>1 DEF LoopInv, ConnectionsPolled
      <3> QED
        BY <1>3, <3>1, <3>2
    <2> QED
      BY <2>1 DEF ConnectionsPolled
  <1> QED
    BY <1>7, <1>8, <1>9 DEF LoopInv

\* poll only fills in the revents.
LEMMA PollKeeps == ASSUME LoopInv, Poll PROVE LoopInv'
  <1>1. PICK r \in [1 .. Len(fds) -> Revents] :
          fds' = [i \in 1 .. Len(fds) |-> [fd |-> fds[i].fd, revents |-> r[i]]]
    BY DEF Poll
  <1>2. UNCHANGED <<backlog, sock, fdOf, connections, players>>
    BY DEF Poll, netVars, socketVars
  <1>3. Len(fds) \in Nat /\ \A i \in 1 .. Len(fds) : fds[i] \in PollFd
    BY LenProperties, ElementOfSeq DEF LoopInv, Types
  <1>4. \A i \in 1 .. Len(fds) : [fd |-> fds[i].fd, revents |-> r[i]] \in PollFd
    BY <1>3 DEF PollFd
  <1>5. fds' \in Seq(PollFd) /\ Len(fds') = Len(fds)
    BY <1>1, <1>3, <1>4, IsASeq, LenProperties
  <1>6. \A i \in 1 .. Len(fds) : fds'[i].fd = fds[i].fd
    BY <1>1
  <1>7. ConnectionsPolled'
    BY <1>2, <1>5, <1>6 DEF LoopInv, ConnectionsPolled
  <1> QED
    BY <1>2, <1>5, <1>7 DEF LoopInv, Types, Registered

\* What a packet kills are players.
LEMMA PacketKills ==
    ASSUME NEW i, NEW s, StepPacket(i, s)
    PROVE  \E S \in SUBSET players : Killed(S)
  <1>1. PICK S \in SUBSET Unreachable : Killed(S) \/ \E p \in players : Killed(S \cup {p})
    BY DEF StepPacket
  <1>2. S \in SUBSET players /\ \A p \in players : S \cup {p} \in SUBSET players
    BY DEF Unreachable
  <1> QED
    BY <1>1, <1>2

LEMMA LoopStep == LoopInv /\ [Next]_vars => LoopInv'
  <1> SUFFICES ASSUME LoopInv, [Next]_vars PROVE LoopInv'
    OBVIOUS
  <1>0. /\ players \in SUBSET Client
        /\ \A p \in players : sock[p] \in {"alive", "dead"}
    BY DEF LoopInv, Types, Registered
  <1>1. ASSUME NEW c \in Client, Connect(c) PROVE LoopInv'
    BY <1>1 DEF Connect, socketVars, LoopInv, Types, Registered, ConnectionsPolled
  <1>2. ASSUME NEW c \in Client, Vanish(c) PROVE LoopInv'
    BY <1>2 DEF Vanish, socketVars, LoopInv, Types, Registered, ConnectionsPolled
  <1>3. CASE Poll
    BY <1>3, PollKeeps
  <1>4. ASSUME NEW c \in Client, Accept(c) PROVE LoopInv'
    BY <1>4, AcceptKeeps
  <1>5. CASE AcceptFails
    BY <1>5 DEF AcceptFails, netVars, socketVars, LoopInv, Types, Registered, ConnectionsPolled
  <1>6. ASSUME NEW i \in 1 .. Len(fds), NoConnection(i) PROVE LoopInv'
    BY <1>6 DEF NoConnection, netVars, socketVars, LoopInv, Types, Registered, ConnectionsPolled
  <1>7. ASSUME NEW i \in 1 .. Len(fds), NEW s \in Client,
               Reap(i, s) \/ StepHangup(i, s) \/ StepEnter(i, s) \/ StepPacket(i, s)
        PROVE  LoopInv'
    <2>1. CASE Reap(i, s)
      BY <2>1, ReapKeeps
    <2>2. CASE StepHangup(i, s)
      <3>1. sock[s] = "alive" /\ Killed({s}) /\ UNCHANGED <<backlog, fdOf, connections, fds, players>>
        BY <2>2 DEF StepHangup, Stepping, netVars
      <3> QED
        BY <1>0, <3>1, KilledKeeps
    <2>3. CASE StepEnter(i, s)
      <3>1. /\ sock[s] = "alive" /\ Killed(Others(s))
            /\ players' = (players \ Others(s)) \cup {s}
            /\ UNCHANGED <<backlog, fdOf, connections, fds>>
        BY <2>3 DEF StepEnter, Stepping, netVars
      <3>2. Others(s) \subseteq players
        BY DEF Others
      <3>3. \A p \in players' : sock[p] \in {"alive", "dead"}
        BY <1>0, <3>1
      <3>4. players' \in SUBSET Client /\ Others(s) \in SUBSET Client
        BY <1>0, <3>1, <3>2
      <3> QED
        BY <1>0, <3>1, <3>2, <3>3, <3>4, KilledKeeps
    <2>4. CASE StepPacket(i, s)
      <3>1. PICK S \in SUBSET players : Killed(S)
        BY <2>4, PacketKills DEF StepPacket
      <3>2. UNCHANGED <<backlog, fdOf, connections, fds, players>>
        BY <2>4 DEF StepPacket, Stepping, netVars
      <3>3. S \in SUBSET Client /\ \A p \in S : sock[p] \in {"alive", "dead"}
        BY <1>0
      <3> QED
        BY <1>0, <3>1, <3>2, <3>3, KilledKeeps
    <2> QED
      BY <1>7, <2>1, <2>2, <2>3, <2>4
  <1>8. ASSUME NEW S \in SUBSET Client, OnStep(S) PROVE LoopInv'
    <2>1. S \subseteq players /\ Killed(S) /\ UNCHANGED <<backlog, fdOf, connections, fds, players>>
      BY <1>8 DEF OnStep, netVars
    <2> QED
      BY <1>0, <2>1, KilledKeeps
  <1>9. CASE Elsewhere
    BY <1>9 DEF Elsewhere, OpenElsewhere, CloseElsewhere, ForgetElsewhere, netVars, socketVars,
       LoopInv, Types, Registered, ConnectionsPolled
  <1>10. CASE UNCHANGED vars
    BY <1>10 DEF vars, netVars, socketVars, LoopInv, Types, Registered, ConnectionsPolled
  <1> QED
    BY <1>1, <1>2, <1>3, <1>4, <1>5, <1>6, <1>7, <1>8, <1>9, <1>10 DEF Next, Handle

LEMMA LoopHolds == Spec => []LoopInv
  BY LoopInit, LoopStep, PTL DEF Spec

\* No CNSocket is used after it was deleted.
THEOREM SocketsAllocated == Spec => []NoUseAfterDelete
  <1>1. LoopInv => NoUseAfterDelete
    BY DEF LoopInv, Types, Registered, NoUseAfterDelete
  <1> QED
    BY <1>1, LoopHolds, PTL

\* No connection is forgotten by the loop with its socket open.
THEOREM NobodyForgotten == Spec => []ConnectionsPolled
  <1>1. LoopInv => ConnectionsPolled
    BY DEF LoopInv
  <1> QED
    BY <1>1, LoopHolds, PTL

-----------------------------------------------------------------------------
(***************************************************************************)
(* Descriptors.  Until one is given out again too early, every socket that *)
(* is not deleted is registered under its own, and under no descriptor the *)
(* rest of the process is not done with, so that no two of them have the   *)
(* same and closing one leaves the others alone.                           *)
(***************************************************************************)
LoopTypes ==
    /\ up \subseteq Client /\ table \in [Fd -> Client \cup {Foreign, None}]
    /\ elsewhere \in [Fd -> SockState \ {"deleted"}]
    /\ knock \in BOOLEAN /\ turn \in Nat \cup {None}
There(c) == sock[c] \in {"alive", "dead"}
FdsOwned ==
    /\ \A c \in Client : There(c) => fdOf[c] \in Fd /\ connections[fdOf[c]] = c
    /\ \A c \in Client : sock[c] = "alive" => table[fdOf[c]] = c
    /\ \A f \in Fd : elsewhere[f] # "none" => connections[f] = None
    /\ \A f \in Fd : elsewhere[f] = "alive" => table[f] = Foreign
FdInv == LoopTypes /\ (~clash => FdsOwned)

LEMMA KilledFds ==
    ASSUME LoopInv, FdInv, NEW S \in SUBSET Client, Killed(S), \A s \in S : There(s),
           UNCHANGED <<fdOf, connections, elsewhere, clash>>
    PROVE  /\ table' \in [Fd -> Client \cup {Foreign, None}]
           /\ ~clash' => FdsOwned'
  <1>1. /\ table' \in [Fd -> Client \cup {Foreign, None}]
        /\ \A f \in Fd : (\A s \in S : fdOf[s] # f) => table'[f] = table[f]
        /\ \A c \in Client : sock'[c] = IF c \in S THEN "dead" ELSE sock[c]
    BY DEF Killed, FdInv, LoopTypes
  <1>2. ASSUME ~clash PROVE FdsOwned'
    <2>1. FdsOwned
      BY <1>2 DEF FdInv
    <2>2. ASSUME NEW c \in Client, sock'[c] = "alive" PROVE table'[fdOf[c]] = c
      <3>1. sock[c] = "alive" /\ c \notin S
        BY <1>1, <2>2
      <3>2. \A s \in S : fdOf[s] # fdOf[c]
        BY <2>1, <3>1 DEF FdsOwned, There
      <3> QED
        BY <1>1, <2>1, <3>1, <3>2 DEF FdsOwned, There
    <2>3. \A c \in Client : There(c)' => There(c)
      BY <1>1 DEF There
    <2>4. ASSUME NEW f \in Fd, elsewhere[f] = "alive" PROVE table'[f] = Foreign
      <3>1. connections[f] = None /\ table[f] = Foreign
        BY <2>1, <2>4 DEF FdsOwned
      <3>2. \A s \in S : fdOf[s] # f
        BY <2>1, <3>1, LoopAssumption DEF FdsOwned
      <3> QED
        BY <1>1, <3>1, <3>2
    <2> QED
      BY <2>1, <2>2, <2>3, <2>4 DEF FdsOwned, There
  <1> QED
    BY <1>1, <1>2

LEMMA AcceptFds == ASSUME LoopInv, FdInv, NEW c \in Client, Accept(c) PROVE FdInv'
  <1>1. PICK f \in Fd :
          /\ f = Min(FreeFds) /\ table' = [table EXCEPT ![f] = c]
          /\ fdOf' = [fdOf EXCEPT ![c] = f] /\ connections' = [connections EXCEPT ![f] = c]
          /\ clash' = (clash \/ ~Forgotten(f))
          /\ sock' = [sock EXCEPT ![c] = "alive"]
          /\ turn' = 1 /\ UNCHANGED <<up, elsewhere, knock>>
    <2>1. FreeFds \in SUBSET Nat /\ FreeFds # {} /\ FreeFds \subseteq Fd
      BY LoopAssumption DEF Accept, FreeFds, Fd
    <2>2. Min(FreeFds) \in Fd
      BY <2>1, MinIsLeast
    <2> QED
      BY <2>2 DEF Accept
  <1>2. LoopTypes'
    BY <1>1 DEF FdInv, LoopTypes
  <1>3. ASSUME ~clash' PROVE FdsOwned'
    <2>1. FdsOwned /\ connections[f] = None /\ elsewhere[f] = "none"
      BY <1>1, <1>3 DEF FdInv, Forgotten, LoopInv, ConnectionsPolled
    <2>2. /\ fdOf'[c] = f /\ connections'[f] = c /\ table'[f] = c
          /\ \A d \in Client : d # c => fdOf'[d] = fdOf[d] /\ sock'[d] = sock[d]
          /\ \A g \in Fd : g # f => connections'[g] = connections[g] /\ table'[g] = table[g]
      BY <1>1 DEF LoopInv, Types, FdInv, LoopTypes
    <2>3. ASSUME NEW d \in Client, d # c, There(d)'
          PROVE  /\ fdOf'[d] \in Fd /\ connections'[fdOf'[d]] = d
                 /\ sock'[d] = "alive" => table'[fdOf'[d]] = d
      <3>1. There(d) /\ sock'[d] = sock[d] /\ fdOf'[d] = fdOf[d]
        BY <2>2, <2>3 DEF There
      <3>2. fdOf[d] \in Fd /\ connections[fdOf[d]] = d /\ fdOf[d] # f
        BY <2>1, <3>1, LoopAssumption DEF FdsOwned
      <3>3. sock[d] = "alive" => table[fdOf[d]] = d
        BY <2>1 DEF FdsOwned
      <3> QED
        BY <2>2, <3>1, <3>2, <3>3
    <2>4. ASSUME NEW g \in Fd, elsewhere'[g] # "none"
          PROVE  /\ connections'[g] = None
                 /\ elsewhere'[g] = "alive" => table'[g] = Foreign
      BY <1>1, <2>1, <2>2, <2>4 DEF FdsOwned
    <2> QED
      BY <2>2, <2>3, <2>4 DEF FdsOwned, There
  <1> QED
    BY <1>2, <1>3 DEF FdInv

LEMMA ReapFds ==
    ASSUME LoopInv, FdInv, NEW i \in 1 .. Len(fds), NEW s \in Client, Reap(i, s)
    PROVE  FdInv'
  <1>1. PICK f \in Fd :
          /\ f = fds[i].fd /\ connections[f] = s /\ There(s)
          /\ table' = table \/ table' = [table EXCEPT ![fdOf[s]] = None]
          /\ sock' = [sock EXCEPT ![s] = "deleted"]
          /\ connections' = [connections EXCEPT ![f] = None]
          /\ turn' = i /\ UNCHANGED <<up, knock, fdOf, elsewhere, clash>>
    <2>1. fds[i] \in PollFd
      BY ElementOfSeq DEF LoopInv, Types
    <2>2. fds[i].fd \in Fd
      BY <2>1 DEF PollFd
    <2>3. connections[fds[i].fd] = s /\ s # None
      BY LoopAssumption DEF Reap
    <2> QED
      BY <2>2, <2>3 DEF Reap, netVars, There, LoopInv, Registered
  <1>2. LoopTypes'
    <2>1. i \in Nat
      BY LenProperties DEF LoopInv, Types
    <2> QED
      BY <1>1, <2>1 DEF FdInv, LoopTypes
  <1>3. ASSUME ~clash' PROVE FdsOwned'
    <2>1. FdsOwned
      BY <1>1, <1>3 DEF FdInv
    <2>2. fdOf[s] = f
      BY <1>1, LoopAssumption DEF LoopInv, Registered
    <2>3. ASSUME NEW c \in Client, There(c)' PROVE c # s /\ There(c) /\ sock'[c] = sock[c] /\ fdOf[c] # f
      <3>1. c # s /\ There(c) /\ sock'[c] = sock[c]
        BY <1>1, <2>3 DEF There, LoopInv, Types
      <3> QED
        BY <1>1, <2>1, <3>1 DEF FdsOwned
    <2>4. \A g \in Fd : g # f => connections'[g] = connections[g] /\ table'[g] = table[g]
      BY <1>1, <2>2 DEF LoopInv, Types, FdInv, LoopTypes
    <2>5. ASSUME NEW g \in Fd, elsewhere'[g] # "none"
          PROVE  /\ connections'[g] = None
                 /\ elsewhere'[g] = "alive" => table'[g] = Foreign
      <3>1. connections[g] = None /\ (elsewhere[g] = "alive" => table[g] = Foreign)
        BY <1>1, <2>1, <2>5 DEF FdsOwned
      <3>2. g # f
        BY <1>1, <3>1, LoopAssumption
      <3> QED
        BY <1>1, <2>4, <3>1, <3>2
    <2> QED
      BY <1>1, <2>1, <2>3, <2>4, <2>5 DEF FdsOwned, There
  <1> QED
    BY <1>2, <1>3 DEF FdInv

\* A descriptor of the shard's is none of the rest of the process's.
LEMMA ElsewhereFds == ASSUME LoopInv, FdInv, Elsewhere PROVE FdInv'
  <1>1. UNCHANGED <<up, sock, fdOf, connections, knock, turn>>
    BY DEF Elsewhere, OpenElsewhere, CloseElsewhere, ForgetElsewhere, netVars, socketVars
  <1>2. CASE OpenElsewhere
    <2>1. PICK f \in Fd :
            /\ table[f] = None /\ table' = [table EXCEPT ![f] = Foreign]
            /\ elsewhere' = [elsewhere EXCEPT ![f] = "alive"]
            /\ clash' = (clash \/ ~Forgotten(f))
      <3>1. FreeFds \in SUBSET Nat /\ FreeFds # {} /\ FreeFds \subseteq Fd
        BY <1>2, LoopAssumption DEF OpenElsewhere, FreeFds, Fd
      <3>2. Min(FreeFds) \in FreeFds
        BY <3>1, MinIsLeast
      <3> QED
        BY <1>2, <3>1, <3>2 DEF OpenElsewhere, FreeFds
    <2>2. LoopTypes'
      BY <1>1, <2>1 DEF FdInv, LoopTypes, SockState
    <2>3. ASSUME ~clash' PROVE FdsOwned'
      <3>1. FdsOwned /\ connections[f] = None
        BY <2>1, <2>3 DEF FdInv, Forgotten, LoopInv, ConnectionsPolled
      <3>2. /\ elsewhere'[f] = "alive" /\ table'[f] = Foreign
            /\ \A g \in Fd : g # f => elsewhere'[g] = elsewhere[g] /\ table'[g] = table[g]
        BY <2>1 DEF FdInv, LoopTypes
      <3>3. ASSUME NEW c \in Client, There(c)
            PROVE  /\ fdOf[c] \in Fd /\ connections[fdOf[c]] = c
                   /\ sock[c] = "alive" => table'[fdOf[c]] = c
        <4>1. fdOf[c] \in Fd /\ connections[fdOf[c]] = c /\ fdOf[c] # f
          BY <3>1, <3>3, LoopAssumption DEF FdsOwned
        <4>2. sock[c] = "alive" => table[fdOf[c]] = c
          BY <3>1 DEF FdsOwned
        <4> QED
          BY <3>2, <4>1, <4>2
      <3> QED
        BY <1>1, <3>1, <3>2, <3>3 DEF FdsOwned, There
    <2> QED
      BY <2>2, <2>3 DEF FdInv
  <1>3. ASSUME NEW f \in Fd, CloseElsewhere(f) PROVE FdInv'
    <2>1. /\ elsewhere[f] # "none" /\ table' = [table EXCEPT ![f] = None]
          /\ elsewhere' = [elsewhere EXCEPT ![f] = "dead"] /\ clash' = clash
      BY <1>3 DEF CloseElsewhere
    <2>2. LoopTypes'
      BY <1>1, <2>1 DEF FdInv, LoopTypes, SockState
    <2>3. ASSUME ~clash' PROVE FdsOwned'
      <3>1. FdsOwned /\ connections[f] = None
        BY <2>1, <2>3 DEF FdInv, FdsOwned
      <3>2. /\ elsewhere'[f] = "dead"
            /\ \A g \in Fd : g # f => elsewhere'[g] = elsewhere[g] /\ table'[g] = table[g]
        BY <2>1 DEF FdInv, LoopTypes
      <3>3. ASSUME NEW c \in Client, There(c)
            PROVE  /\ fdOf[c] \in Fd /\ connections[fdOf[c]] = c
                   /\ sock[c] = "alive" => table'[fdOf[c]] = c
        <4>1. fdOf[c] \in Fd /\ connections[fdOf[c]] = c /\ fdOf[c] # f
          BY <3>1, <3>3, LoopAssumption DEF FdsOwned
        <4>2. sock[c] = "alive" => table[fdOf[c]] = c
          BY <3>1 DEF FdsOwned
        <4> QED
          BY <3>2, <4>1, <4>2
      <3> QED
        BY <1>1, <3>1, <3>2, <3>3 DEF FdsOwned, There
    <2> QED
      BY <2>2, <2>3 DEF FdInv
  <1>4. ASSUME NEW f \in Fd, ForgetElsewhere(f) PROVE FdInv'
    <2>1. /\ elsewhere' = [elsewhere EXCEPT ![f] = "none"]
          /\ UNCHANGED <<table, clash>>
      BY <1>4 DEF ForgetElsewhere, socketVars
    <2>2. \A g \in Fd : elsewhere'[g] # "none" => elsewhere'[g] = elsewhere[g]
      BY <2>1 DEF FdInv, LoopTypes
    <2>3. LoopTypes'
      BY <1>1, <2>1 DEF FdInv, LoopTypes, SockState
    <2>4. ~clash' => FdsOwned'
      BY <1>1, <2>1, <2>2 DEF FdInv, FdsOwned, There
    <2> QED
      BY <2>3, <2>4 DEF FdInv
  <1> QED
    BY <1>2, <1>3, <1>4 DEF Elsewhere

LEMMA FdStep == LoopInv /\ FdInv /\ [Next]_vars => FdInv'
  <1> SUFFICES ASSUME LoopInv, FdInv, [Next]_vars PROVE FdInv'
    OBVIOUS
  <1>0. /\ \A p \in players : There(p)
        /\ players \in SUBSET Client /\ Len(fds) \in Nat
    BY LenProperties DEF LoopInv, Types, Registered, There
  <1>1. ASSUME up' \subseteq Client, knock' \in BOOLEAN, turn' \in Nat \cup {None},
               UNCHANGED <<socketVars, connections, elsewhere, clash>>
        PROVE  FdInv'
    BY <1>1 DEF socketVars, FdInv, LoopTypes, FdsOwned, There
  <1>2. ASSUME NEW c \in Client, Connect(c) \/ Vanish(c) PROVE FdInv'
    <2>1. up' \subseteq Client /\ UNCHANGED <<knock, turn, socketVars, connections, elsewhere, clash>>
      BY <1>2 DEF Connect, Vanish, FdInv, LoopTypes
    <2> QED
      BY <1>1, <2>1 DEF FdInv, LoopTypes
  <1>3. CASE Poll
    <2>1. knock' \in BOOLEAN /\ turn' = 0 /\ UNCHANGED <<up, socketVars, connections, elsewhere, clash>>
      BY <1>3 DEF Poll, netVars
    <2> QED
      BY <1>1, <2>1 DEF FdInv, LoopTypes
  <1>4. ASSUME NEW c \in Client, Accept(c) PROVE FdInv'
    BY <1>4, AcceptFds
  <1>5. CASE AcceptFails
    BY <1>1, <1>5 DEF AcceptFails, netVars, FdInv, LoopTypes
  <1>6. ASSUME NEW i \in 1 .. Len(fds), NoConnection(i) PROVE FdInv'
    BY <1>0, <1>1, <1>6 DEF NoConnection, netVars, FdInv, LoopTypes
  <1>7. ASSUME NEW S \in SUBSET Client, Killed(S), \A s \in S : There(s),
               UNCHANGED <<up, knock, fdOf, connections, elsewhere, clash>>, turn' \in Nat \cup {None}
        PROVE  FdInv'
    BY <1>7, KilledFds DEF FdInv, LoopTypes
  <1>8. ASSUME NEW i \in 1 .. Len(fds), NEW s \in Client,
               Reap(i, s) \/ StepHangup(i, s) \/ StepEnter(i, s) \/ StepPacket(i, s)
        PROVE  FdInv'
    <2>1. CASE Reap(i, s)
      BY <2>1, ReapFds
    <2>2. ASSUME Stepping(i, s)
          PROVE  There(s) /\ UNCHANGED <<up, knock, fdOf, connections, elsewhere, clash>> /\ turn' \in Nat \cup {None}
      BY <1>0, <2>2 DEF Stepping, There, netVars
    <2>3. CASE StepHangup(i, s)
      BY <1>7, <2>2, <2>3 DEF StepHangup
    <2>4. CASE StepEnter(i, s)
      <3>1. Others(s) \in SUBSET Client /\ \A o \in Others(s) : There(o)
        BY <1>0 DEF Others
      <3> QED
        BY <1>7, <2>2, <2>4, <3>1 DEF StepEnter
    <2>5. CASE StepPacket(i, s)
      <3>1. PICK S \in SUBSET players : Killed(S)
        BY <2>5, PacketKills DEF StepPacket
      <3>2. S \in SUBSET Client /\ \A o \in S : There(o)
        BY <1>0
      <3> QED
        BY <1>7, <2>2, <2>5, <3>1, <3>2 DEF StepPacket
    <2> QED
      BY <1>8, <2>1, <2>3, <2>4, <2>5
  <1>9. ASSUME NEW S \in SUBSET Client, OnStep(S) PROVE FdInv'
    BY <1>0, <1>7, <1>9 DEF OnStep, netVars
  <1>10. CASE Elsewhere
    BY <1>10, ElsewhereFds
  <1>11. CASE UNCHANGED vars
    BY <1>11 DEF vars, netVars, socketVars, FdInv, LoopTypes, FdsOwned, There
  <1> QED
    BY <1>2, <1>3, <1>4, <1>5, <1>6, <1>8, <1>9, <1>10, <1>11 DEF Next, Handle

LEMMA FdHolds == Spec => []FdInv
  <1>1. Init => FdInv
    BY DEF Init, FdInv, LoopTypes, FdsOwned, There, SockState
  <1>2. LoopInv /\ FdInv /\ [Next]_vars => FdInv'
    BY FdStep
  <1> QED
    BY <1>1, <1>2, LoopHolds, PTL DEF Spec

\* Types: every variable keeps its type.
THEOREM LoopTyping == Spec => []LoopTypeOK
  <1>1. LoopInv /\ FdInv => LoopTypeOK
    BY DEF LoopInv, Types, FdInv, LoopTypes, LoopTypeOK
  <1> QED
    BY <1>1, LoopHolds, FdHolds, PTL

\* As long as accept gives out no descriptor the loop still has (CNProtocol.cpp:412),
\* no socket writes to another client's connection or to another thread's descriptor.
THEOREM DescriptorsOwned == Spec => []OwnDescriptor
  <1>1. FdInv => OwnDescriptor
    BY DEF FdInv, FdsOwned, OwnDescriptor
  <1> QED
    BY <1>1, FdHolds, PTL
==============================================================================
