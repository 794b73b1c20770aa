--------------------------- MODULE SessionProofs ---------------------------
(***************************************************************************)
(* For any number of clients, characters and accounts, and any bounds: the *)
(* types, one session per account, getPlayer never asserts, no player      *)
(* outlives its socket.  None of them is inductive alone; ShardInv joins   *)
(* them with what holds inside a handler (HandlerInv).                     *)
(*                                                                         *)
(* An account none of whose sessions overlapped (one that is not hasty)    *)
(* loses nothing and is played by nobody as a Player{}, whatever the other *)
(* accounts do, and for such accounts the two servers implement SaveStore. *)
(* Apart says why: of each account there is then one copy at most that is  *)
(* not the database's, whether the login thread, the hand-off, the game or *)
(* the removal holds it, and what it carries is all the character earned.  *)
(***************************************************************************)
EXTENDS Session, TLAPS

USE DEF HasPlayer, Killed, Removed

\* The account of a character, and of none.
LEMMA AccountType ==
    \A c \in Character \cup {None} : AccountOf(c) \in Account \cup {None}
  BY OwnerAssumption, NoneAssumption DEF AccountOf

\* A Player that is given a key is a Slot.
LEMMA WithKeyType ==
    ASSUME NEW plr \in Player, NEW k \in Character
    PROVE  /\ WithKey(plr, k) \in Slot
           /\ WithKey(plr, k).key = k
           /\ WithKey(plr, k).char = plr.char
  BY DEF WithKey, Player, Slot

\* The constants of the types.
LEMMA ConstantTypes == Blank \in Player /\ Absent \in Slot /\ Idle \in ShardThread
  <1>1. 0 \in Progress
    BY BoundAssumption DEF Progress
  <1>2. Blank \in Player /\ Absent \in Slot
    BY <1>1 DEF Blank, Player, Absent, Slot
  <1> QED
    BY <1>2 DEF Idle, ShardThread, ShardStep

\* updatePlayer leaves a database of the same shape.
LEMMA StoredType ==
    ASSUME TypeOK, NEW plr, plr.val \in Progress
    PROVE  Stored(plr) \in [Character -> Progress]
  BY DEF Stored, TypeOK

\* The entry of any client or character can be replaced by one of its type.
LEMMA UpdateType ==
    ASSUME NEW S, NEW T, NEW f \in [S -> T], NEW x, NEW y \in T
    PROVE  [f EXCEPT ![x] = y] \in [S -> T]
  OBVIOUS

LEMMA TypingStep == TypeOK /\ HandlerInv /\ [Next]_vars => TypeOK'
  <1> SUFFICES ASSUME TypeOK, HandlerInv, [Next]_vars PROVE TypeOK'
    OBVIOUS
  <1> USE DEF TypeOK, SockState, loginVars, shardVars
  <1>1. ASSUME NEW cl \in Client, ClientStep(cl) PROVE TypeOK'
    <2>1. CASE ClientStart(cl)
      BY <2>1 DEF ClientStart
    <2>2. CASE ClientConnect(cl)
      BY <2>2 DEF ClientConnect
    <2>3. CASE ClientGone(cl)
      BY <2>3 DEF ClientGone
    <2> QED
      BY <1>1, <2>1, <2>2, <2>3 DEF ClientStep
  <1>2. ASSUME NEW cl \in Client, LoginStep(cl) PROVE TypeOK'
    <2>1. CASE LoginHangup(cl)
      BY <2>1 DEF LoginHangup
    <2>2. CASE LoginReap(cl)
      BY <2>2 DEF LoginReap
    <2>3. ASSUME NEW a \in Account, Login(cl, a) PROVE TypeOK'
      BY <2>3 DEF Login
    <2>4. ASSUME NEW c \in Character, SelectLoad(cl, c) PROVE TypeOK'
      <3>1. [char |-> c, val |-> db[c]] \in Player
        BY DEF Player
      <3> QED
        BY <2>4, <3>1, OwnerAssumption DEF SelectLoad, Loaded, Pick
    <2> QED
      BY <1>2, <2>1, <2>2, <2>3, <2>4 DEF LoginStep
  <1>3. ASSUME NEW cl \in Client, ShardPoll(cl) PROVE TypeOK'
    <2>1. CASE EnterFetch(cl)
      <3> DEFINE plr == shared[key[cl]]
      <3>1. key[cl] \in Character /\ plr \in Player
        BY <2>1 DEF EnterFetch
      <3>2. WithKey(plr, key[cl]) \in Slot
        BY <3>1, WithKeyType
      <3>3. players' \in [Client -> Slot] /\ entered' \subseteq Client
        BY <2>1, <3>2 DEF EnterFetch
      <3>4. shard' \in ShardThread
        <4>1. CASE UNCHANGED shard
          BY <4>1
        <4>2. ASSUME NEW old \in Client,
                     shard' = [Idle EXCEPT !.pc = "kick", !.cl = cl, !.old = old,
                                           !.copy = WithKey(plr, key[cl])]
              PROVE  shard' \in ShardThread
          BY <4>2, <3>2, ConstantTypes DEF ShardThread, ShardStep
        <4> QED
          BY <2>1, <4>1, <4>2 DEF EnterFetch, SameAccount
      <3> QED
        BY <2>1, <3>3, <3>4 DEF EnterFetch
    <2>2. CASE Play(cl)
      <3>1. /\ players[cl] \in Slot
            /\ players[cl].char \in Character
            /\ earned[players[cl].char] + 1 \in Progress
        BY <2>2, BoundAssumption DEF Play, Slot, Progress
      <3>2. earned' \in [Character -> Progress]
        BY <2>2, <3>1 DEF Play
      <3>3. [players[cl] EXCEPT !.val = @ + 1] \in Slot
        BY <3>1 DEF Slot, Progress
      <3>4. players' \in [Client -> Slot]
        BY <2>2, <3>3 DEF Play
      <3> QED
        BY <2>2, <3>2, <3>4 DEF Play
    <2>3. CASE ShardHangup(cl)
      BY <2>3 DEF ShardHangup
    <2>4. CASE Reap(cl)
      <3>1. Stored(players[cl]) \in [Character -> Progress]
        BY StoredType DEF Slot
      <3>2. db' \in [Character -> Progress]
        BY <2>4, <3>1 DEF Reap
      <3>3. players' \in [Client -> Slot]
        BY <2>4, ConstantTypes DEF Reap
      <3>4. shard' \in ShardThread
        <4>1. players[cl].key \in Character \cup {None}
          BY DEF Slot
        <4>2. [Idle EXCEPT !.pc = "reaped", !.cl = cl, !.erase = players[cl].key] \in ShardThread
          BY <4>1, ConstantTypes DEF ShardThread, ShardStep
        <4> QED
          BY <2>4, <4>2, ConstantTypes DEF Reap
      <3> QED
        BY <2>4, <3>2, <3>3, <3>4 DEF Reap
    <2>5. CASE SaveOne(cl)
      <3>1. Stored(players[cl]) \in [Character -> Progress]
        BY StoredType DEF Slot
      <3>2. shard' \in ShardThread
        BY <2>5, ConstantTypes DEF SaveOne, ShardThread
      <3> QED
        BY <2>5, <3>1, <3>2 DEF SaveOne
    <2> QED
      BY <1>3, <2>1, <2>2, <2>3, <2>4, <2>5 DEF ShardPoll
  <1>4. ASSUME NEW a \in Account, DuplicateExit(a) PROVE TypeOK'
    BY <1>4 DEF DuplicateExit
  <1>5. CASE SelectPublish
    <2>1. pick.copy \in Player
      BY DEF Pick
    <2>2. CASE pick.copy.char \in Character
      BY <1>5, <2>1, <2>2, ConstantTypes DEF SelectPublish, Published, Pick, NoPick
    <2>3. CASE pick.copy.char \notin Character
      BY <1>5, <2>1, <2>3, ConstantTypes DEF SelectPublish, Published, Pick, NoPick, Player
    <2> QED
      BY <2>2, <2>3
  <1>6. CASE KickSave
    <2>1. shard.old \in Client /\ players[shard.old].key \in Character
      BY <1>6 DEF KickSave, HandlerInv, SameAccount, Slot
    <2>2. Stored(players[shard.old]) \in [Character -> Progress]
      BY <2>1, StoredType DEF Slot
    <2>3. shard' \in ShardThread
      BY <1>6, <2>1 DEF KickSave, ShardThread, ShardStep
    <2> QED
      BY <1>6, <2>2, <2>3, ConstantTypes DEF KickSave
  <1>7. CASE KickedEnter
    BY <1>7, ConstantTypes DEF KickedEnter, Erased, HandlerInv, ShardThread
  <1>8. CASE ReapErase
    BY <1>8, ConstantTypes DEF ReapErase, Erased
  <1>9. CASE SaveStart
    BY <1>9, ConstantTypes DEF SaveStart, ShardThread, ShardStep
  <1>10. CASE Crash
    BY <1>10, ConstantTypes, BoundAssumption DEF Crash, Pick, NoPick
  <1>11. CASE UNCHANGED vars
    BY <1>11 DEF vars
  <1> QED
    BY <1>1, <1>2, <1>3, <1>4, <1>5, <1>6, <1>7, <1>8, <1>9, <1>10, <1>11 DEF Next

-----------------------------------------------------------------------------
(***************************************************************************)
(* The parts of IInv that relate the shard's variables.  An action that    *)
(* leaves shardVars alone leaves them alone; the others follow.            *)
(***************************************************************************)
ShardInv == OneSessionPerAccount /\ GetPlayerNeverAsserts /\ NoDanglingSocket /\ HandlerInv

LEMMA ShardInvStutter ==
    ASSUME ShardInv, UNCHANGED shardVars
    PROVE  ShardInv'
  BY DEF ShardInv, shardVars, OneSessionPerAccount, GetPlayerNeverAsserts, NoDanglingSocket,
         HandlerInv, SameAccount, AccountOf

\* Entering a client whose account is nowhere in the game.
LEMMA EnterStep ==
    ASSUME TypeOK, ShardInv,
           NEW cl \in Client, NEW plr \in Slot,
           cl \notin entered, shardSock[cl] = "open", plr.key # None,
           SameAccount(plr) = {},
           players' = [players EXCEPT ![cl] = plr],
           entered' = entered \cup {cl},
           UNCHANGED shardSock,
           shard' = Idle
    PROVE  ShardInv'
  <1>1. OneSessionPerAccount'
    BY DEF ShardInv, TypeOK, OneSessionPerAccount, SameAccount, AccountOf
  <1>2. GetPlayerNeverAsserts' /\ NoDanglingSocket'
    BY DEF ShardInv, TypeOK, GetPlayerNeverAsserts, NoDanglingSocket
  <1>3. HandlerInv'
    BY DEF HandlerInv, Idle
  <1> QED
    BY <1>1, <1>2, <1>3 DEF ShardInv

\* Removing the player of a connection that is, or is about to be, dead.
LEMMA RemoveStep ==
    ASSUME TypeOK, ShardInv, NEW cl \in Client,
           players' = [players EXCEPT ![cl] = Absent],
           entered' = entered,
           cl \in entered => shardSock' = [shardSock EXCEPT ![cl] = "dead"],
           cl \notin entered => shardSock' = shardSock
    PROVE  OneSessionPerAccount' /\ GetPlayerNeverAsserts' /\ NoDanglingSocket'
  BY NoneAssumption
  DEF ShardInv, TypeOK, OneSessionPerAccount, GetPlayerNeverAsserts, NoDanglingSocket,
      Absent, AccountOf

LEMMA ShardInvStep == TypeOK /\ ShardInv /\ [Next]_vars => ShardInv'
  <1> SUFFICES ASSUME TypeOK, ShardInv, [Next]_vars PROVE ShardInv'
    OBVIOUS
  <1>1. ASSUME NEW cl \in Client, ClientStep(cl) PROVE ShardInv'
    <2>1. CASE ClientStart(cl) \/ ClientGone(cl)
      BY <2>1, ShardInvStutter DEF ClientStart, ClientGone
    <2>2. CASE ClientConnect(cl)
      <3>1. cl \notin entered
        BY <2>2 DEF ClientConnect, ShardInv, NoDanglingSocket
      <3>2. OneSessionPerAccount'
        BY <2>2 DEF ClientConnect, ShardInv, OneSessionPerAccount, AccountOf
      <3>3. GetPlayerNeverAsserts' /\ NoDanglingSocket'
        BY <2>2, <3>1 DEF ClientConnect, ShardInv, TypeOK, GetPlayerNeverAsserts, NoDanglingSocket
      <3>4. HandlerInv'
        BY <2>2 DEF ClientConnect, ShardInv, TypeOK, HandlerInv, SameAccount, AccountOf
      <3> QED
        BY <3>2, <3>3, <3>4 DEF ShardInv
    <2> QED
      BY <1>1, <2>1, <2>2 DEF ClientStep
  <1>2. ASSUME NEW cl \in Client, LoginStep(cl) PROVE ShardInv'
    BY <1>2, ShardInvStutter DEF LoginStep, LoginHangup, LoginReap, Login, SelectLoad, Loaded
  <1>3. ASSUME NEW cl \in Client, ShardPoll(cl) PROVE ShardInv'
    <2>1. CASE EnterFetch(cl)
      <3> DEFINE plr == shared[key[cl]]
      <3>1. /\ key[cl] \in Character /\ plr \in Player
            /\ cl \notin entered /\ shardSock[cl] = "open" /\ shard = Idle
        BY <2>1 DEF EnterFetch, TypeOK
      <3>2. /\ WithKey(plr, key[cl]) \in Slot
            /\ WithKey(plr, key[cl]).key # None
            /\ SameAccount(WithKey(plr, key[cl])) = SameAccount(plr)
        BY <3>1, WithKeyType, NoneAssumption DEF SameAccount
      <3>3. CASE /\ SameAccount(plr) = {}
                 /\ players' = [players EXCEPT ![cl] = WithKey(plr, key[cl])]
                 /\ entered' = entered \cup {cl}
                 /\ UNCHANGED shard
        BY <2>1, <3>1, <3>2, <3>3, EnterStep DEF EnterFetch
      <3>4. ASSUME NEW old \in SameAccount(plr),
                   shard' = [Idle EXCEPT !.pc = "kick", !.cl = cl, !.old = old,
                                         !.copy = WithKey(plr, key[cl])],
                   UNCHANGED <<players, entered>>
            PROVE  ShardInv'
        <4>1. /\ shard'.pc = "kick" /\ shard'.cl = cl /\ shard'.old = old
              /\ shard'.copy = WithKey(plr, key[cl]) /\ shard'.todo = {}
          BY <3>4 DEF Idle
        <4>2. UNCHANGED shardSock
          BY <2>1 DEF EnterFetch
        <4>3. HandlerInv'
          BY <3>1, <3>2, <3>4, <4>1, <4>2 DEF HandlerInv, SameAccount, AccountOf
        <4> QED
          BY <3>4, <4>2, <4>3
          DEF ShardInv, OneSessionPerAccount, GetPlayerNeverAsserts, NoDanglingSocket, AccountOf
      <3> QED
        BY <2>1, <3>3, <3>4 DEF EnterFetch
    <2>2. CASE Play(cl)
      <3>1. \A c \in Client : players'[c].key = players[c].key /\ players'[c].char = players[c].char
        BY <2>2 DEF Play, TypeOK, Slot
      <3>2. UNCHANGED <<shardSock, entered, shard>> /\ shard = Idle
        BY <2>2 DEF Play
      <3>3. OneSessionPerAccount'
        BY <3>1 DEF ShardInv, OneSessionPerAccount, AccountOf
      <3>4. GetPlayerNeverAsserts' /\ NoDanglingSocket'
        BY <3>1, <3>2 DEF ShardInv, TypeOK, GetPlayerNeverAsserts, NoDanglingSocket
      <3>5. HandlerInv'
        BY <3>2 DEF HandlerInv, Idle
      <3> QED
        BY <3>3, <3>4, <3>5 DEF ShardInv
    <2>3. CASE ShardHangup(cl)
      <3>1. OneSessionPerAccount'
        BY <2>3 DEF ShardHangup, ShardInv, OneSessionPerAccount, AccountOf
      <3>2. GetPlayerNeverAsserts' /\ NoDanglingSocket'
        BY <2>3 DEF ShardHangup, ShardInv, TypeOK, GetPlayerNeverAsserts, NoDanglingSocket
      <3>3. HandlerInv'
        BY <2>3 DEF ShardHangup, HandlerInv, Idle
      <3> QED
        BY <3>1, <3>2, <3>3 DEF ShardInv
    <2>4. CASE Reap(cl)
      <3>1. CASE HasPlayer(cl)
        <4>1. /\ shard' = [Idle EXCEPT !.pc = "reaped", !.cl = cl, !.erase = players[cl].key]
              /\ UNCHANGED <<shardSock, entered>>
              /\ shardSock[cl] = "dead"
              /\ players' = [players EXCEPT ![cl] = Absent]
          BY <2>4, <3>1 DEF Reap
        <4>2. shardSock = [shardSock EXCEPT ![cl] = "dead"]
          BY <4>1 DEF TypeOK
        <4>3. OneSessionPerAccount' /\ GetPlayerNeverAsserts' /\ NoDanglingSocket'
          BY <4>1, <4>2, RemoveStep
        <4>4. HandlerInv'
          BY <3>1, <4>1 DEF HandlerInv, Idle, TypeOK, Absent
        <4> QED
          BY <4>3, <4>4 DEF ShardInv
      <3>2. CASE ~HasPlayer(cl)
        <4>1. /\ shardSock' = [shardSock EXCEPT ![cl] = "none"]
              /\ entered' = entered \ {cl}
              /\ players' = [players EXCEPT ![cl] = Absent]
              /\ shard = Idle /\ shard' = Idle
          BY <2>4, <3>2 DEF Reap
        <4>2. OneSessionPerAccount'
          BY <4>1 DEF ShardInv, TypeOK, OneSessionPerAccount, Absent, AccountOf
        <4>3. GetPlayerNeverAsserts' /\ NoDanglingSocket'
          BY <4>1, <3>2 DEF ShardInv, TypeOK, GetPlayerNeverAsserts, NoDanglingSocket, Absent
        <4>4. HandlerInv'
          BY <4>1 DEF HandlerInv, Idle
        <4> QED
          BY <4>2, <4>3, <4>4 DEF ShardInv
      <3> QED
        BY <3>1, <3>2
    <2>5. CASE SaveOne(cl)
      <3>1. UNCHANGED <<players, entered, shardSock>>
        BY <2>5 DEF SaveOne
      <3>2. HandlerInv'
        <4>1. CASE shard' = Idle
          BY <4>1 DEF HandlerInv, Idle
        <4>2. CASE shard' = [shard EXCEPT !.todo = @ \ {cl}]
          <5>1. shard'.pc = "saving" /\ shard'.todo \subseteq shard.todo
            BY <2>5, <4>2 DEF SaveOne, TypeOK, ShardThread
          <5> QED
            BY <3>1, <5>1 DEF ShardInv, HandlerInv
        <4> QED
          BY <2>5, <4>1, <4>2 DEF SaveOne
      <3> QED
        BY <3>1, <3>2
        DEF ShardInv, OneSessionPerAccount, GetPlayerNeverAsserts, NoDanglingSocket, AccountOf
    <2> QED
      BY <1>3, <2>1, <2>2, <2>3, <2>4, <2>5 DEF ShardPoll
  <1>4. ASSUME NEW a \in Account, DuplicateExit(a) PROVE ShardInv'
    BY <1>4, ShardInvStutter DEF DuplicateExit
  <1>5. CASE SelectPublish
    BY <1>5, ShardInvStutter DEF SelectPublish
  <1>6. CASE KickSave
    <2> DEFINE old == shard.old
    <2>1. /\ old \in Client /\ HasPlayer(old) /\ old \in entered
          /\ AccountOf(players[old].char) = AccountOf(shard.copy.char)
          /\ shard.cl \in Client \ entered
          /\ shardSock[shard.cl] = "open" /\ shard.copy.key # None
      BY <1>6 DEF KickSave, ShardInv, HandlerInv, SameAccount, NoDanglingSocket
    <2>2. /\ players' = [players EXCEPT ![old] = Absent]
          /\ shardSock' = [shardSock EXCEPT ![old] = "dead"]
          /\ entered' = entered
          /\ shard' = [shard EXCEPT !.pc = "kicked", !.erase = players[old].key]
      BY <1>6 DEF KickSave
    <2>3. OneSessionPerAccount' /\ GetPlayerNeverAsserts' /\ NoDanglingSocket'
      BY <2>1, <2>2, RemoveStep
    <2>4. /\ shard'.pc = "kicked" /\ shard'.cl = shard.cl /\ shard'.copy = shard.copy
          /\ shard'.erase # None /\ shard'.todo = shard.todo
      BY <2>1, <2>2 DEF TypeOK, ShardThread
    <2>5. SameAccount(shard.copy)' = {}
      BY <2>1, <2>2, <2>4 DEF SameAccount, AccountOf, ShardInv, OneSessionPerAccount, TypeOK, Absent
    <2>6. shard.todo = {}
      BY <1>6 DEF KickSave, ShardInv, HandlerInv, TypeOK, ShardThread
    <2>7. HandlerInv'
      BY <2>1, <2>2, <2>4, <2>5, <2>6 DEF HandlerInv, TypeOK
    <2> QED
      BY <2>3, <2>7 DEF ShardInv
  <1>7. CASE KickedEnter
    <2>1. /\ shard.cl \in Client \ entered /\ shardSock[shard.cl] = "open"
          /\ shard.copy \in Slot /\ shard.copy.key # None /\ SameAccount(shard.copy) = {}
      BY <1>7 DEF KickedEnter, ShardInv, HandlerInv, TypeOK, ShardThread
    <2> QED
      BY <1>7, <2>1, EnterStep DEF KickedEnter
  <1>8. CASE ReapErase
    <2>1. shard.cl \in Client /\ ~HasPlayer(shard.cl)
      BY <1>8 DEF ReapErase, ShardInv, HandlerInv
    <2>2. OneSessionPerAccount'
      BY <1>8 DEF ReapErase, ShardInv, OneSessionPerAccount, AccountOf
    <2>3. GetPlayerNeverAsserts' /\ NoDanglingSocket'
      BY <1>8, <2>1 DEF ReapErase, ShardInv, TypeOK, GetPlayerNeverAsserts, NoDanglingSocket
    <2>4. HandlerInv'
      BY <1>8 DEF ReapErase, HandlerInv, Idle
    <2> QED
      BY <2>2, <2>3, <2>4 DEF ShardInv
  <1>9. CASE SaveStart
    <2>1. /\ UNCHANGED <<players, entered, shardSock>>
          /\ shard'.pc = "saving" /\ shard'.todo = {cl \in Client : HasPlayer(cl)}
      BY <1>9 DEF SaveStart, Idle
    <2>2. HandlerInv'
      BY <2>1 DEF HandlerInv
    <2> QED
      BY <2>1, <2>2
      DEF ShardInv, OneSessionPerAccount, GetPlayerNeverAsserts, NoDanglingSocket, AccountOf
  <1>10. CASE Crash
    BY <1>10
    DEF Crash, ShardInv, OneSessionPerAccount, GetPlayerNeverAsserts, NoDanglingSocket,
        HandlerInv, Idle, Absent
  <1>11. CASE UNCHANGED vars
    BY <1>11, ShardInvStutter DEF vars
  <1> QED
    BY <1>1, <1>2, <1>3, <1>4, <1>5, <1>6, <1>7, <1>8, <1>9, <1>10, <1>11 DEF Next

-----------------------------------------------------------------------------

LEMMA Invariance == Spec => [](TypeOK /\ ShardInv)
  <1>1. Init => TypeOK
    BY ConstantTypes, BoundAssumption, NoneAssumption
    DEF Init, TypeOK, SockState, Pick, NoPick, Progress
  <1>2. Init => ShardInv
    BY DEF Init, ShardInv, OneSessionPerAccount, GetPlayerNeverAsserts, NoDanglingSocket,
           HandlerInv, Idle, Absent
  <1>3. TypeOK /\ ShardInv /\ [Next]_vars => (TypeOK /\ ShardInv)'
    BY TypingStep, ShardInvStep DEF ShardInv
  <1> QED
    BY <1>1, <1>2, <1>3, PTL DEF Spec

\* Types: every variable keeps its type.
THEOREM Typing == Spec => []TypeOK
  BY Invariance, PTL

\* isAccountInUse and exitDuplicate (PlayerManager.cpp:217-220, 620-646) keep
\* every account out of the game twice, however many clients race for it.
THEOREM OneSession == Spec => []OneSessionPerAccount
  <1>1. ShardInv => OneSessionPerAccount
    BY DEF ShardInv
  <1> QED
    BY <1>1, Invariance, PTL

\* The assert in PlayerManager::getPlayer (PlayerManager.cpp:599) is never
\* reached by the packets of a client that has entered.
THEOREM NeverAsserts == Spec => []GetPlayerNeverAsserts
  <1>1. ShardInv => GetPlayerNeverAsserts
    BY DEF ShardInv
  <1> QED
    BY <1>1, Invariance, PTL

\* A player in PlayerManager::players always has its CNSocket.
THEOREM SocketsOutlivePlayers == Spec => []NoDanglingSocket
  <1>1. ShardInv => NoDanglingSocket
    BY DEF ShardInv
  <1> QED
    BY <1>1, Invariance, PTL

\* What a handler of the shard found before it waited for a lock still holds
\* when it goes on.
THEOREM HandlersUndisturbed == Spec => []HandlerInv
  <1>1. ShardInv => HandlerInv
    BY DEF ShardInv
  <1> QED
    BY <1>1, Invariance, PTL

\* CNLoginServer::isAccountInUse and exitDuplicate (CNLoginServer.cpp:172, 621-625)
\* keep an account from two login connections: it alone is inductive.
THEOREM OneLogin == Spec => []OneLoginPerAccount
  <1>1. Init => OneLoginPerAccount
    BY DEF Init, OneLoginPerAccount
  <1>2. TypeOK /\ OneLoginPerAccount /\ [Next]_vars => OneLoginPerAccount'
    <2> SUFFICES ASSUME TypeOK, OneLoginPerAccount, [Next]_vars PROVE OneLoginPerAccount'
      OBVIOUS
    <2>1. ASSUME UNCHANGED loginUser PROVE OneLoginPerAccount'
      BY <2>1 DEF OneLoginPerAccount
    <2>2. ASSUME NEW cl \in Client, LoginStep(cl) PROVE OneLoginPerAccount'
      <3>1. CASE LoginHangup(cl)
        BY <2>1, <3>1 DEF LoginHangup
      <3>2. CASE LoginReap(cl)
        BY <3>2 DEF LoginReap, OneLoginPerAccount, TypeOK
      <3>3. ASSUME NEW a \in Account, Login(cl, a) PROVE OneLoginPerAccount'
        BY <3>3 DEF Login, LoginInUse, OneLoginPerAccount, TypeOK
      <3>4. ASSUME NEW c \in Character, SelectLoad(cl, c) PROVE OneLoginPerAccount'
        BY <2>1, <3>4 DEF SelectLoad
      <3> QED
        BY <2>2, <3>1, <3>2, <3>3, <3>4 DEF LoginStep
    <2>3. ASSUME NEW cl \in Client, ClientStep(cl) \/ ShardPoll(cl) PROVE OneLoginPerAccount'
      BY <2>1, <2>3
      DEF ClientStep, ClientStart, ClientConnect, ClientGone, ShardPoll, EnterFetch, Play,
          ShardHangup, Reap, SaveOne, loginVars
    <2>4. CASE Crash
      BY <2>4 DEF Crash, OneLoginPerAccount
    <2>5. CASE \/ \E a \in Account : DuplicateExit(a)
               \/ SelectPublish \/ KickSave \/ KickedEnter \/ ReapErase \/ SaveStart
      BY <2>1, <2>5 DEF DuplicateExit, SelectPublish, KickSave, KickedEnter, ReapErase, SaveStart, loginVars
    <2>6. CASE UNCHANGED vars
      BY <2>1, <2>6 DEF vars, loginVars
    <2> QED
      BY <2>2, <2>3, <2>4, <2>5, <2>6 DEF Next
  <1> QED
    BY <1>1, <1>2, Invariance, PTL DEF Spec

-----------------------------------------------------------------------------
(***************************************************************************)
(* What a copy is a copy of: of the character of the key it goes by, or of *)
(* none.                                                                   *)
(***************************************************************************)
Keyed ==
    /\ \A k \in Character : shared[k].char \in {k, None}
    /\ \A cl \in Client : players[cl].char \in {players[cl].key, None}
    /\ shard.copy.char \in {shard.copy.key, None}
    /\ pick # NoPick => pick.copy.char \in Character

LEMMA KeyedInit == Init => Keyed
  BY DEF Init, Keyed, Blank, Absent, Idle, NoPick

LEMMA KeyedStep == TypeOK /\ Keyed /\ [Next]_vars => Keyed'
  <1> SUFFICES ASSUME TypeOK, Keyed, [Next]_vars PROVE Keyed'
    OBVIOUS
  <1>1. ASSUME UNCHANGED <<shared, players, pick>>, shard'.copy.char \in {shard'.copy.key, None}
        PROVE  Keyed'
    BY <1>1 DEF Keyed
  <1>2. ASSUME UNCHANGED <<shared, players, pick, shard>> PROVE Keyed'
    BY <1>2 DEF Keyed
  <1>3. Idle.copy.char \in {Idle.copy.key, None}
    BY DEF Idle, Absent
  <1>4. ASSUME NEW cl \in Client, ClientStep(cl) PROVE Keyed'
    BY <1>2, <1>4 DEF ClientStep, ClientStart, ClientConnect, ClientGone, loginVars, shardVars
  <1>5. ASSUME NEW cl \in Client, LoginStep(cl) PROVE Keyed'
    <2>1. ASSUME NEW c \in Character, SelectLoad(cl, c) PROVE Keyed'
      <3>1. pick'.copy.char = c /\ UNCHANGED <<shared, players, shard>>
        BY <2>1 DEF SelectLoad, Loaded, shardVars
      <3> QED
        BY <3>1 DEF Keyed
    <2> QED
      BY <1>2, <1>5, <2>1 DEF LoginStep, LoginHangup, LoginReap, Login, shardVars
  <1>6. ASSUME NEW cl \in Client, ShardPoll(cl) PROVE Keyed'
    <2>1. CASE EnterFetch(cl)
      <3> DEFINE plr == shared[key[cl]]
      <3>1. key[cl] \in Character /\ plr.char \in {key[cl], None}
        BY <2>1 DEF EnterFetch, TypeOK, Keyed
      <3>2. WithKey(plr, key[cl]).char \in {WithKey(plr, key[cl]).key, None}
        BY <3>1 DEF WithKey
      <3> HIDE DEF plr
      <3>3. CASE /\ players' = [players EXCEPT ![cl] = WithKey(plr, key[cl])]
                 /\ UNCHANGED shard
        BY <2>1, <3>2, <3>3 DEF EnterFetch, loginVars, Keyed, TypeOK
      <3>4. ASSUME NEW old,
                   shard' = [Idle EXCEPT !.pc = "kick", !.cl = cl, !.old = old,
                                         !.copy = WithKey(plr, key[cl])],
                   UNCHANGED players
            PROVE  Keyed'
        <4>1. shard'.copy = WithKey(plr, key[cl])
          BY <3>4 DEF Idle
        <4> QED
          BY <1>1, <2>1, <3>2, <3>4, <4>1 DEF EnterFetch, loginVars
      <3> QED
        BY <2>1, <3>3, <3>4 DEF EnterFetch, plr
    <2>2. CASE Play(cl)
      <3>1. /\ \A o \in Client : players'[o].char = players[o].char /\ players'[o].key = players[o].key
            /\ UNCHANGED <<shared, pick, shard>>
        BY <2>2 DEF Play, TypeOK, Slot, loginVars
      <3> QED
        BY <3>1 DEF Keyed
    <2>3. CASE ShardHangup(cl)
      BY <1>2, <2>3 DEF ShardHangup, loginVars
    <2>4. CASE Reap(cl)
      <3>1. /\ players' = [players EXCEPT ![cl] = Absent] /\ UNCHANGED <<shared, pick>>
            /\ shard'.copy = Idle.copy
        BY <2>4 DEF Reap, loginVars, Idle
      <3>2. \A o \in Client : players'[o] \in {players[o], Absent}
        BY <3>1 DEF TypeOK
      <3> QED
        BY <1>3, <3>1, <3>2 DEF Keyed, Absent
    <2>5. CASE SaveOne(cl)
      <3>1. shard' = Idle \/ shard'.copy = shard.copy
        BY <2>5 DEF SaveOne, TypeOK, ShardThread
      <3> QED
        BY <1>1, <1>3, <2>5, <3>1 DEF SaveOne, loginVars, Keyed
    <2> QED
      BY <1>6, <2>1, <2>2, <2>3, <2>4, <2>5 DEF ShardPoll
  <1>7. ASSUME NEW a \in Account, DuplicateExit(a) PROVE Keyed'
    BY <1>2, <1>7 DEF DuplicateExit, shardVars
  <1>8. CASE SelectPublish
    <2>1. /\ shared' = [shared EXCEPT ![pick.copy.char] = pick.copy] /\ pick' = NoPick
          /\ UNCHANGED <<players, shard>>
      BY <1>8 DEF SelectPublish, Published, shardVars
    <2> QED
      BY <2>1 DEF Keyed, TypeOK
  <1>9. CASE KickSave
    <2>1. /\ players' = [players EXCEPT ![shard.old] = Absent] /\ UNCHANGED <<shared, pick>>
          /\ shard'.copy = shard.copy
      BY <1>9 DEF KickSave, loginVars, TypeOK, ShardThread
    <2>2. \A o \in Client : players'[o] \in {players[o], Absent}
      BY <2>1 DEF TypeOK
    <2> QED
      BY <2>1, <2>2 DEF Keyed, Absent
  <1>10. CASE KickedEnter
    <2>1. /\ players' = [players EXCEPT ![shard.cl] = shard.copy] /\ UNCHANGED pick
          /\ shared' = [shared EXCEPT ![shard.erase] = Blank] /\ shard' = Idle
      BY <1>10 DEF KickedEnter, Erased, loginVars
    <2>2. \A o \in Client : players'[o] \in {players[o], shard.copy}
      BY <2>1 DEF TypeOK
    <2>3. \A k \in Character : shared'[k] \in {shared[k], Blank}
      BY <2>1 DEF TypeOK
    <2> QED
      BY <1>3, <2>1, <2>2, <2>3 DEF Keyed, Blank
  <1>11. CASE ReapErase
    <2>1. /\ shared' = [shared EXCEPT ![shard.erase] = Blank] /\ shard' = Idle
          /\ UNCHANGED <<players, pick>>
      BY <1>11 DEF ReapErase, Erased, loginVars
    <2>2. \A k \in Character : shared'[k] \in {shared[k], Blank}
      BY <2>1 DEF TypeOK
    <2> QED
      BY <1>3, <2>1, <2>2 DEF Keyed, Blank
  <1>12. CASE SaveStart
    <2>1. shard'.copy = Idle.copy
      BY <1>12 DEF SaveStart, Idle
    <2> QED
      BY <1>1, <1>3, <1>12, <2>1 DEF SaveStart, loginVars
  <1>13. CASE Crash
    BY <1>3, <1>13 DEF Crash, Keyed, Blank, Absent
  <1>14. CASE UNCHANGED vars
    BY <1>2, <1>14 DEF vars, loginVars, shardVars
  <1> QED
    BY <1>4, <1>5, <1>6, <1>7, <1>8, <1>9, <1>10, <1>11, <1>12, <1>13, <1>14 DEF Next

-----------------------------------------------------------------------------
(***************************************************************************)
(* What holds of an account that was never hasty: what the login thread    *)
(* has read for it, its key that waits, its player, what is stored.        *)
(***************************************************************************)
PickOK(a) ==
    pick # NoPick /\ AccountOf(pick.copy.char) = a =>
        pick.copy.val = db[pick.copy.char] /\ Settled(a)
KeyOK(a) ==
    \A cl \in Client : AccountOf(key[cl]) = a =>
        /\ shared[key[cl]] = [char |-> key[cl], val |-> db[key[cl]]]
        /\ \A o \in Client : o # cl => AccountOf(key[o]) # a
        /\ \A o \in Client : AccountOf(players[o].key) # a
        /\ AccountOf(shard.erase) # a
PlayerOK(a) ==
    \A cl \in Client : AccountOf(players[cl].key) = a =>
        /\ players[cl].char = players[cl].key
        /\ players[cl].val = earned[players[cl].key]
        /\ \A o \in Client : o # cl => AccountOf(players[o].key) # a
        /\ AccountOf(shard.erase) # a
StoredOK(a) ==
    \A c \in Character :
        Owner[c] = a /\ (\A cl \in Client : players[cl].key # c) => db[c] = earned[c]
Apart(a) == AccountOf(shard.copy.key) # a /\ PickOK(a) /\ KeyOK(a) /\ PlayerOK(a) /\ StoredOK(a)

\* The account of a character or of none.
LEMMA OwnersAre ==
    ASSUME NEW a \in Account, NEW k \in Character \cup {None}
    PROVE  /\ AccountOf(k) = a <=> k \in Character /\ Owner[k] = a
           /\ AccountOf(None) # a
  BY NoneAssumption, OwnerAssumption DEF AccountOf

\* Of such an account the character played is the one of the key.
LEMMA PlaysItsKey ==
    ASSUME TypeOK, Keyed, NEW a \in Account, PlayerOK(a), NEW cl \in Client,
           NEW c \in Character, Owner[c] = a
    PROVE  players[cl].char = c <=> players[cl].key = c
  <1>1. /\ players[cl].key \in Character \cup {None}
        /\ players[cl].char \in {players[cl].key, None} /\ c # None
    BY NoneAssumption DEF TypeOK, Slot, Keyed
  <1>2. players[cl].key = c => AccountOf(players[cl].key) = a
    BY OwnersAre
  <1> QED
    BY <1>1, <1>2 DEF PlayerOK

\* A step that leaves an account's own alone, or only lets its key or what is to
\* be erased go.
KeysLeft(a) == \A cl \in Client : key'[cl] = key[cl] \/ AccountOf(key'[cl]) # a
PlayersLeft(a) ==
    \A cl \in Client : \/ players'[cl] = players[cl]
                       \/ AccountOf(players[cl].key) # a /\ AccountOf(players'[cl].key) # a
RowsLeft(a) == \A c \in Character : Owner[c] = a => db'[c] = db[c] /\ earned'[c] = earned[c]
CopiesLeft(a) == \A cl \in Client : AccountOf(key'[cl]) = a => shared'[key'[cl]] = shared[key'[cl]]
PickLeft(a) == pick' = NoPick \/ pick' = pick \/ AccountOf(pick'.copy.char) # a
ShardLeft(a) == /\ AccountOf(shard'.erase) = a => AccountOf(shard.erase) = a
                /\ AccountOf(shard'.copy.key) # a
Left(a) == KeysLeft(a) /\ PlayersLeft(a) /\ RowsLeft(a) /\ CopiesLeft(a) /\ PickLeft(a) /\ ShardLeft(a)

LEMMA LeftAlone ==
    ASSUME TypeOK, Keyed, NEW a \in Account, Apart(a), Left(a),
           key' \in [Client -> Character \cup {None}]
    PROVE  Apart(a)'
  <1> USE DEF Left
  <1>1. \A cl \in Client : AccountOf(key'[cl]) = a =>
            key'[cl] = key[cl] /\ key[cl] \in Character /\ Owner[key[cl]] = a
    BY OwnersAre DEF KeysLeft, TypeOK
  <1>2. \A cl \in Client : AccountOf(players'[cl].key) = a =>
            /\ players'[cl] = players[cl]
            /\ players[cl].key \in Character /\ Owner[players[cl].key] = a
    BY OwnersAre DEF PlayersLeft, TypeOK, Slot
  <1>3. Settled(a) => Settled(a)'
    <2> SUFFICES ASSUME Settled(a) PROVE Settled(a)'
      OBVIOUS
    <2>1. \A cl \in Client : AccountOf(key'[cl]) # a /\ AccountOf(players'[cl].key) # a
      BY <1>1, <1>2 DEF Settled
    <2>2. AccountOf(shard'.erase) # a /\ AccountOf(shard'.copy.key) # a
      BY DEF Settled, ShardLeft
    <2> QED
      BY <2>1, <2>2 DEF Settled, AccountOf
  <1>4. PickOK(a)'
    <2> SUFFICES ASSUME pick' # NoPick, AccountOf(pick'.copy.char) = a
                 PROVE  pick'.copy.val = db'[pick'.copy.char] /\ Settled(a)'
      BY DEF PickOK, AccountOf
    <2>1. pick' = pick /\ pick # NoPick /\ AccountOf(pick.copy.char) = a
      BY DEF PickLeft
    <2>2. pick.copy.char \in Character /\ Owner[pick.copy.char] = a
      BY <2>1, OwnersAre DEF Keyed
    <2> QED
      BY <1>3, <2>1, <2>2 DEF Apart, PickOK, RowsLeft
  <1>5. KeyOK(a)'
    <2> SUFFICES ASSUME NEW cl \in Client, AccountOf(key'[cl]) = a
                 PROVE  /\ shared'[key'[cl]] = [char |-> key'[cl], val |-> db'[key'[cl]]]
                        /\ \A o \in Client : o # cl => AccountOf(key'[o]) # a
                        /\ \A o \in Client : AccountOf(players'[o].key) # a
                        /\ AccountOf(shard'.erase) # a
      BY DEF KeyOK, AccountOf
    <2>1. key'[cl] = key[cl] /\ key[cl] \in Character /\ Owner[key[cl]] = a /\ AccountOf(key[cl]) = a
      BY <1>1
    <2>2. /\ shared[key[cl]] = [char |-> key[cl], val |-> db[key[cl]]]
          /\ \A o \in Client : o # cl => AccountOf(key[o]) # a
          /\ \A o \in Client : AccountOf(players[o].key) # a
          /\ AccountOf(shard.erase) # a
      BY <2>1 DEF Apart, KeyOK
    <2>3. shared'[key'[cl]] = shared[key[cl]] /\ db'[key[cl]] = db[key[cl]]
      BY <2>1 DEF CopiesLeft, RowsLeft
    <2>4. \A o \in Client : o # cl => AccountOf(key'[o]) # a
      BY <1>1, <2>2
    <2>5. \A o \in Client : AccountOf(players'[o].key) # a
      BY <1>2, <2>2
    <2> QED
      BY <2>1, <2>2, <2>3, <2>4, <2>5 DEF ShardLeft
  <1>6. PlayerOK(a)'
    <2> SUFFICES ASSUME NEW cl \in Client, AccountOf(players'[cl].key) = a
                 PROVE  /\ players'[cl].char = players'[cl].key
                        /\ players'[cl].val = earned'[players'[cl].key]
                        /\ \A o \in Client : o # cl => AccountOf(players'[o].key) # a
                        /\ AccountOf(shard'.erase) # a
      BY DEF PlayerOK, AccountOf
    <2>1. /\ players'[cl] = players[cl] /\ AccountOf(players[cl].key) = a
          /\ players[cl].key \in Character /\ Owner[players[cl].key] = a
      BY <1>2
    <2>2. /\ players[cl].char = players[cl].key
          /\ players[cl].val = earned[players[cl].key]
          /\ \A o \in Client : o # cl => AccountOf(players[o].key) # a
          /\ AccountOf(shard.erase) # a
      BY <2>1 DEF Apart, PlayerOK
    <2>3. earned'[players[cl].key] = earned[players[cl].key]
      BY <2>1 DEF RowsLeft
    <2>4. \A o \in Client : o # cl => AccountOf(players'[o].key) # a
      BY <1>2, <2>2
    <2> QED
      BY <2>1, <2>2, <2>3, <2>4 DEF ShardLeft
  <1>7. StoredOK(a)'
    <2> SUFFICES ASSUME NEW c \in Character, Owner[c] = a,
                        \A cl \in Client : players'[cl].key # c
                 PROVE  db'[c] = earned'[c]
      BY DEF StoredOK
    <2>1. ASSUME NEW cl \in Client PROVE players[cl].key # c
      BY OwnersAre DEF PlayersLeft
    <2> QED
      BY <2>1 DEF Apart, StoredOK, RowsLeft
  <1> QED
    BY <1>4, <1>5, <1>6, <1>7 DEF Apart, ShardLeft, AccountOf

-----------------------------------------------------------------------------
(***************************************************************************)
(* Every step keeps an account apart that it does not make hasty.          *)
(***************************************************************************)

\* Saving a player of another account leaves this one's rows.
LEMMA OthersRows ==
    ASSUME TypeOK, Keyed, NEW a \in Account, NEW cl \in Client, AccountOf(players[cl].key) # a,
           NEW c \in Character, Owner[c] = a
    PROVE  Stored(players[cl])[c] = db[c]
  <1>1. players[cl].char # c
    <2>1. players[cl].char = c => players[cl].key = c
      BY NoneAssumption DEF Keyed
    <2> QED
      BY <2>1, OwnersAre
  <1> QED
    BY <1>1 DEF Stored

\* Saving a player of this one stores what its character earned.
LEMMA OwnRow ==
    ASSUME TypeOK, NEW a \in Account, PlayerOK(a), NEW cl \in Client, AccountOf(players[cl].key) = a
    PROVE  /\ players[cl].key \in Character /\ players[cl].char = players[cl].key
           /\ Owner[players[cl].key] = a
           /\ Stored(players[cl]) = [db EXCEPT ![players[cl].key] = earned[players[cl].key]]
  <1>1. players[cl].key \in Character /\ Owner[players[cl].key] = a
    BY OwnersAre DEF TypeOK, Slot
  <1>2. players[cl].char = players[cl].key /\ players[cl].val = earned[players[cl].key]
    BY DEF PlayerOK
  <1>3. Stored(players[cl]) = [db EXCEPT ![players[cl].key] = earned[players[cl].key]]
    BY <1>1, <1>2 DEF Stored, TypeOK
  <1> QED
    BY <1>1, <1>2, <1>3

\* Whoever plays is alone: no key of the account is out and none is on its way.
LEMMA PlaysAlone ==
    ASSUME TypeOK, NEW a \in Account, Apart(a), NEW cl \in Client, AccountOf(players[cl].key) = a
    PROVE  /\ \A o \in Client : AccountOf(key[o]) # a
           /\ pick # NoPick => AccountOf(pick.copy.char) # a
           /\ \A o \in Client : o # cl => AccountOf(players[o].key) # a
           /\ AccountOf(shard.erase) # a
  <1>1. \A o \in Client : AccountOf(key[o]) # a
    BY DEF Apart, KeyOK
  <1>2. pick # NoPick => AccountOf(pick.copy.char) # a
    BY DEF Apart, PickOK, Settled
  <1> QED
    BY <1>1, <1>2 DEF Apart, PlayerOK

\* Erasing a key takes no copy that a key of this account still waits for.
LEMMA EraseLeaves ==
    ASSUME TypeOK, NEW a \in Account, Apart(a), shared' = Erased(shard.erase), UNCHANGED key
    PROVE  CopiesLeft(a)
  <1> SUFFICES ASSUME NEW cl \in Client, AccountOf(key[cl]) = a
               PROVE  shared'[key[cl]] = shared[key[cl]]
    BY DEF CopiesLeft
  <1>1. key[cl] \in Character /\ key[cl] # shard.erase
    BY OwnersAre DEF TypeOK, Apart, KeyOK
  <1> QED
    BY <1>1 DEF Erased, TypeOK

\* A step that at most takes keys away.
KeysGo == \A cl \in Client : key'[cl] \in {key[cl], None}
LEMMA Aside ==
    ASSUME TypeOK, Keyed, NEW a \in Account, Apart(a), KeysGo,
           UNCHANGED <<pick, shared, players, shard, db, earned>>
    PROVE  Left(a)
  <1>1. AccountOf(None) # a
    BY NoneAssumption DEF AccountOf
  <1> QED
    BY <1>1 DEF KeysGo, Left, KeysLeft, PlayersLeft, RowsLeft, CopiesLeft, PickLeft, ShardLeft, Apart

\* The rest of the account, when it is the player that a step is about.
LEMMA PlayerStep ==
    ASSUME TypeOK, Keyed, NEW a \in Account, Apart(a), NEW cl \in Client,
           AccountOf(players[cl].key) = a, KeysGo, UNCHANGED pick,
           AccountOf(shard'.copy.key) # a
    PROVE  PickOK(a)' /\ KeyOK(a)'
  <1>1. AccountOf(None) # a
    BY NoneAssumption DEF AccountOf
  <1>2. \A o \in Client : AccountOf(key'[o]) # a
    BY <1>1, PlaysAlone DEF KeysGo
  <1>3. pick' # NoPick => AccountOf(pick'.copy.char) # a
    BY PlaysAlone
  <1> QED
    BY <1>2, <1>3 DEF PickOK, KeyOK, AccountOf

\* characterSelect reads the row of an account nothing of which is left elsewhere.
LEMMA LoadApart ==
    ASSUME TypeOK, Keyed, NEW a \in Account, Apart(a), a \notin hasty',
           NEW cl \in Client, NEW c \in Character, SelectLoad(cl, c)
    PROVE  Apart(a)'
  <1>1. /\ UNCHANGED <<key, shared, players, shard, db, earned>>
        /\ pick' = [cl |-> cl, copy |-> [char |-> c, val |-> db[c]]]
    BY DEF SelectLoad, Loaded, shardVars
  <1>2. Owner[c] = a => Settled(a)
    BY DEF SelectLoad
  <1>3. Settled(a) => Settled(a)'
    BY <1>1 DEF Settled, AccountOf
  <1>4. AccountOf(c) = Owner[c]
    BY NoneAssumption DEF AccountOf
  <1>5. PickOK(a)'
    <2>1. pick'.copy.char = c /\ pick'.copy.val = db'[c]
      BY <1>1
    <2>2. AccountOf(c)' = Owner[c]
      BY <1>4 DEF AccountOf
    <2> QED
      BY <1>2, <1>3, <2>1, <2>2 DEF PickOK, AccountOf
  <1>6. KeyOK(a)'
    BY <1>1 DEF Apart, KeyOK, AccountOf
  <1>7. PlayerOK(a)'
    BY <1>1 DEF Apart, PlayerOK, AccountOf
  <1>8. StoredOK(a)'
    BY <1>1 DEF Apart, StoredOK
  <1> QED
    BY <1>1, <1>5, <1>6, <1>7, <1>8 DEF Apart, AccountOf

\* The copy it publishes is the row, and its key the only one.
LEMMA PublishApart ==
    ASSUME TypeOK, TypeOK', Keyed, NEW a \in Account, Apart(a), SelectPublish
    PROVE  Apart(a)'
  <1> DEFINE c == pick.copy.char
  <1>1. /\ c \in Character /\ pick.copy \in Player
        /\ shared' = [shared EXCEPT ![c] = pick.copy]
        /\ key' = IF pick.cl \in up THEN [key EXCEPT ![pick.cl] = c] ELSE key
        /\ pick' = NoPick
        /\ UNCHANGED <<players, shard, db, earned>>
    BY DEF SelectPublish, Published, shardVars, Keyed, TypeOK, Pick
  <1>2. \A o \in Client : key'[o] \in {key[o], c}
    BY <1>1 DEF TypeOK
  <1>3. shared' [c] = pick.copy /\ \A k \in Character : k # c => shared'[k] = shared[k]
    BY <1>1 DEF TypeOK
  <1>4. c # None /\ AccountOf(c) = Owner[c]
    BY <1>1, NoneAssumption DEF AccountOf
  <1>5. CASE Owner[c] # a
    <2>1. KeysLeft(a)
      BY <1>2, <1>4, <1>5 DEF KeysLeft
    <2>2. CopiesLeft(a)
      <3> SUFFICES ASSUME NEW o \in Client, AccountOf(key'[o]) = a
                   PROVE  shared'[key'[o]] = shared[key'[o]]
        BY DEF CopiesLeft
      <3>1. key'[o] \in Character /\ key'[o] # c
        BY <1>4, <1>5, OwnersAre DEF TypeOK
      <3> QED
        BY <1>3, <3>1
    <2>3. PlayersLeft(a) /\ RowsLeft(a) /\ PickLeft(a) /\ ShardLeft(a)
      BY <1>1 DEF PlayersLeft, RowsLeft, PickLeft, ShardLeft, Apart
    <2> QED
      BY <2>1, <2>2, <2>3, LeftAlone DEF Left, TypeOK
  <1>6. CASE Owner[c] = a
    <2>1. Settled(a) /\ pick.copy.val = db[c] /\ pick # NoPick
      BY <1>4, <1>6 DEF Apart, PickOK, SelectPublish
    <2>2. pick.copy = [char |-> c, val |-> db[c]]
      BY <1>1, <2>1 DEF Player
    <2>3. /\ \A o \in Client : AccountOf(key[o]) # a /\ AccountOf(players'[o].key) # a
          /\ AccountOf(shard'.erase) # a /\ AccountOf(shard'.copy.key) # a
      BY <1>1, <2>1 DEF Settled
    <2> HIDE DEF c
    <2>4. \A o \in Client : AccountOf(key'[o]) = a => o = pick.cl /\ key'[o] = c
      BY <1>1, <2>3 DEF TypeOK
    <2>5. KeyOK(a)'
      <3> SUFFICES ASSUME NEW o \in Client, AccountOf(key'[o]) = a
                   PROVE  /\ shared'[key'[o]] = [char |-> key'[o], val |-> db'[key'[o]]]
                          /\ \A p \in Client : p # o => AccountOf(key'[p]) # a
                          /\ \A p \in Client : AccountOf(players'[p].key) # a
                          /\ AccountOf(shard'.erase) # a
        BY DEF KeyOK, AccountOf
      <3>1. key'[o] = c /\ shared'[c] = [char |-> c, val |-> db'[c]]
        BY <1>1, <1>3, <2>2, <2>4
      <3> QED
        BY <2>3, <2>4, <3>1
    <2>6. PickOK(a)' /\ PlayerOK(a)'
      BY <1>1, <2>3 DEF PickOK, PlayerOK, AccountOf
    <2>7. StoredOK(a)'
      BY <1>1 DEF Apart, StoredOK
    <2> QED
      BY <2>3, <2>5, <2>6, <2>7 DEF Apart, AccountOf
  <1> QED
    BY <1>5, <1>6

\* Whoever enters with the account's key plays what is stored, which is all it earned.
LEMMA EnterOwn ==
    ASSUME TypeOK, ShardInv, Keyed, NEW a \in Account, Apart(a), NEW cl \in Client, EnterFetch(cl),
           AccountOf(key[cl]) = a
    PROVE  /\ key[cl] \in Character /\ Owner[key[cl]] = a
           /\ \A o \in Client : o # cl => AccountOf(key[o]) # a
           /\ \A o \in Client : AccountOf(players[o].key) # a
           /\ AccountOf(shard.erase) # a /\ (pick # NoPick => AccountOf(pick.copy.char) # a)
           /\ db[key[cl]] = earned[key[cl]]
           /\ players' = [players EXCEPT ![cl] =
                              [char |-> key[cl], val |-> db[key[cl]], key |-> key[cl]]]
           /\ shard' = Idle
  <1> DEFINE k == key[cl]
  <1>1. k \in Character /\ Owner[k] = a
    BY OwnersAre DEF TypeOK
  <1>2. /\ shared[k] = [char |-> k, val |-> db[k]]
        /\ \A o \in Client : o # cl => AccountOf(key[o]) # a
        /\ \A o \in Client : AccountOf(players[o].key) # a
        /\ AccountOf(shard.erase) # a
    BY DEF Apart, KeyOK
  <1>3. pick # NoPick => AccountOf(pick.copy.char) # a
    BY DEF Apart, PickOK, Settled
  <1>4. \A o \in Client : players[o].key # k
    BY <1>1, <1>2, OwnersAre
  <1>5. db[k] = earned[k]
    BY <1>1, <1>4 DEF Apart, StoredOK
  <1> HIDE DEF k
  <1>6. SameAccount(shared[k]) = {}
    <2> SUFFICES ASSUME NEW o \in Client, AccountOf(players[o].char) = a PROVE FALSE
      BY <1>1, <1>2, NoneAssumption DEF SameAccount, AccountOf
    <2>1. players[o].char = players[o].key
      BY NoneAssumption DEF Keyed, AccountOf
    <2> QED
      BY <1>2, <2>1
  <1>7. WithKey(shared[k], k) = [char |-> k, val |-> db[k], key |-> k]
    BY <1>2 DEF WithKey
  <1>8. /\ shard = Idle
        /\ players' = [players EXCEPT ![cl] = WithKey(shared[k], k)]
        /\ UNCHANGED shard
    BY <1>6 DEF EnterFetch, k
  <1> QED
    BY <1>1, <1>2, <1>3, <1>5, <1>7, <1>8 DEF k

LEMMA EnterApart ==
    ASSUME TypeOK, TypeOK', ShardInv, Keyed, NEW a \in Account, Apart(a),
           NEW cl \in Client, EnterFetch(cl)
    PROVE  Apart(a)'
  <1>1. /\ cl \notin entered /\ shard = Idle
        /\ key' = [key EXCEPT ![cl] = None]
        /\ UNCHANGED <<pick, shared, db, earned>>
    BY DEF EnterFetch, loginVars
  <1>2. \A o \in Client : key'[o] \in {key[o], None}
    BY <1>1 DEF TypeOK
  <1>3. AccountOf(None) # a /\ players[cl].key = None
    BY <1>1, NoneAssumption DEF AccountOf, ShardInv, NoDanglingSocket
  <1>4. Idle.copy.key = None /\ Idle.erase = None
    BY DEF Idle, Absent
  <1>5. CASE AccountOf(key[cl]) # a
    <2>1. KeysLeft(a) /\ CopiesLeft(a) /\ RowsLeft(a) /\ PickLeft(a)
      BY <1>1, <1>2, <1>3 DEF KeysLeft, CopiesLeft, RowsLeft, PickLeft
    <2>2. PlayersLeft(a)
      <3>1. \/ players' = players
            \/ players' = [players EXCEPT ![cl] = WithKey(shared[key[cl]], key[cl])]
        BY DEF EnterFetch
      <3>2. WithKey(shared[key[cl]], key[cl]).key = key[cl]
        BY DEF WithKey
      <3>3. \A o \in Client : o # cl => players'[o] = players[o]
        BY <3>1 DEF TypeOK
      <3>4. players'[cl] = players[cl] \/ players'[cl].key = key[cl]
        BY <3>1, <3>2 DEF TypeOK
      <3> QED
        BY <1>3, <1>5, <3>3, <3>4 DEF PlayersLeft
    <2>3. ShardLeft(a)
      <3>1. CASE UNCHANGED shard
        BY <3>1 DEF ShardLeft, Apart
      <3>2. ASSUME NEW old \in Client,
                   shard' = [Idle EXCEPT !.pc = "kick", !.cl = cl, !.old = old,
                                         !.copy = WithKey(shared[key[cl]], key[cl])]
            PROVE  ShardLeft(a)
        <4>1. shard'.erase = None /\ shard'.copy.key = key[cl]
          BY <3>2 DEF Idle, WithKey
        <4> QED
          BY <1>3, <1>5, <4>1 DEF ShardLeft
      <3> QED
        BY <3>1, <3>2 DEF EnterFetch, SameAccount
    <2> QED
      BY <2>1, <2>2, <2>3, LeftAlone DEF Left, TypeOK
  <1>6. CASE AccountOf(key[cl]) = a
    <2> DEFINE k == key[cl]
    <2>1. /\ k \in Character /\ Owner[k] = a
          /\ \A o \in Client : o # cl => AccountOf(key[o]) # a
          /\ \A o \in Client : AccountOf(players[o].key) # a
          /\ pick # NoPick => AccountOf(pick.copy.char) # a
          /\ db[k] = earned[k]
          /\ players' = [players EXCEPT ![cl] = [char |-> k, val |-> db[k], key |-> k]]
          /\ shard' = Idle
      BY <1>6, EnterOwn
    <2> HIDE DEF k
    <2>2. /\ players'[cl] = [char |-> k, val |-> db[k], key |-> k]
          /\ \A o \in Client : o # cl => players'[o] = players[o]
      BY <2>1 DEF TypeOK
    <2>3. \A o \in Client : AccountOf(key'[o]) # a
      BY <1>1, <1>3, <2>1 DEF TypeOK
    <2>4. PickOK(a)' /\ KeyOK(a)'
      BY <1>1, <2>1, <2>3 DEF PickOK, KeyOK, AccountOf
    <2>5. AccountOf(shard'.erase) # a /\ AccountOf(shard'.copy.key) # a
      BY <1>3, <1>4, <2>1
    <2>6. PlayerOK(a)'
      <3> SUFFICES ASSUME NEW o \in Client, AccountOf(players'[o].key) = a
                   PROVE  /\ players'[o].char = players'[o].key
                          /\ players'[o].val = earned'[players'[o].key]
                          /\ \A p \in Client : p # o => AccountOf(players'[p].key) # a
                          /\ AccountOf(shard'.erase) # a
        BY DEF PlayerOK, AccountOf
      <3>1. o = cl
        BY <2>1, <2>2
      <3> QED
        BY <1>1, <2>1, <2>2, <2>5, <3>1
    <2>7. StoredOK(a)'
      <3> SUFFICES ASSUME NEW c \in Character, Owner[c] = a PROVE db[c] = earned[c]
        BY <1>1 DEF StoredOK
      <3>1. \A o \in Client : players[o].key # c
        BY <2>1, OwnersAre
      <3> QED
        BY <3>1 DEF Apart, StoredOK
    <2> QED
      BY <2>4, <2>5, <2>6, <2>7 DEF Apart, AccountOf
  <1> QED
    BY <1>5, <1>6

\* Playing and saving.
LEMMA PlayApart ==
    ASSUME TypeOK, TypeOK', Keyed, NEW a \in Account, Apart(a), NEW cl \in Client, Play(cl)
    PROVE  Apart(a)'
  <1> DEFINE c == players[cl].char
  <1>1. /\ HasPlayer(cl) /\ c \in Character
        /\ players' = [players EXCEPT ![cl].val = @ + 1]
        /\ earned' = [earned EXCEPT ![c] = @ + 1]
        /\ UNCHANGED <<pick, key, shared, shard, db>>
    BY DEF Play, loginVars, TypeOK, Slot
  <1>2. c = players[cl].key
    BY <1>1, NoneAssumption DEF Keyed
  <1> HIDE DEF c
  <1>3. /\ \A o \in Client : o # cl => players'[o] = players[o]
        /\ players'[cl].key = players[cl].key /\ players'[cl].char = players[cl].char
        /\ players'[cl].val = players[cl].val + 1
    BY <1>1 DEF TypeOK, Slot
  <1>4. earned'[c] = earned[c] + 1 /\ \A d \in Character : d # c => earned'[d] = earned[d]
    BY <1>1 DEF TypeOK
  <1>5. CASE AccountOf(players[cl].key) # a
    <2>1. Owner[c] # a
      BY <1>1, <1>2, <1>5, OwnersAre
    <2>2. RowsLeft(a)
      BY <1>1, <1>4, <2>1 DEF RowsLeft
    <2>3. PlayersLeft(a)
      BY <1>3, <1>5 DEF PlayersLeft
    <2>4. KeysLeft(a) /\ CopiesLeft(a) /\ PickLeft(a) /\ ShardLeft(a)
      BY <1>1 DEF KeysLeft, CopiesLeft, PickLeft, ShardLeft, Apart
    <2> QED
      BY <2>2, <2>3, <2>4, LeftAlone DEF Left, TypeOK
  <1>6. CASE AccountOf(players[cl].key) = a
    <2>1. PickOK(a)' /\ KeyOK(a)'
      BY <1>1, <1>6, PlayerStep DEF KeysGo, Apart
    <2>2. /\ players[cl].val = earned[c] /\ players[cl].char = c
          /\ \A o \in Client : o # cl => AccountOf(players[o].key) # a
          /\ AccountOf(shard.erase) # a
      BY <1>2, <1>6 DEF Apart, PlayerOK, c
    <2>3. PlayerOK(a)'
      <3> SUFFICES ASSUME NEW o \in Client, AccountOf(players'[o].key) = a
                   PROVE  /\ players'[o].char = players'[o].key
                          /\ players'[o].val = earned'[players'[o].key]
                          /\ \A p \in Client : p # o => AccountOf(players'[p].key) # a
                          /\ AccountOf(shard'.erase) # a
        BY DEF PlayerOK, AccountOf
      <3>1. o = cl
        BY <1>3, <2>2
      <3> QED
        BY <1>1, <1>2, <1>3, <1>4, <2>2, <3>1
    <2>4. StoredOK(a)'
      <3> SUFFICES ASSUME NEW d \in Character, Owner[d] = a,
                          \A o \in Client : players'[o].key # d
                   PROVE  db'[d] = earned'[d]
        BY DEF StoredOK
      <3>1. d # c /\ \A o \in Client : players[o].key # d
        BY <1>2, <1>3
      <3> QED
        BY <1>1, <1>4, <3>1 DEF Apart, StoredOK
    <2> QED
      BY <1>1, <2>1, <2>3, <2>4 DEF Apart, AccountOf
  <1> QED
    BY <1>5, <1>6

\* The row of a player of this account that is saved, whether it goes or stays.
LEMMA SavedRow ==
    ASSUME TypeOK, NEW a \in Account, Apart(a), NEW cl \in Client, AccountOf(players[cl].key) = a,
           db' = Stored(players[cl]), UNCHANGED earned,
           \A o \in Client : o # cl => players'[o] = players[o]
    PROVE  StoredOK(a)'
  <1>1. /\ players[cl].key \in Character
        /\ db' = [db EXCEPT ![players[cl].key] = earned[players[cl].key]]
    BY OwnRow DEF Apart
  <1> SUFFICES ASSUME NEW c \in Character, Owner[c] = a, \A o \in Client : players'[o].key # c
               PROVE  db'[c] = earned[c]
    BY DEF StoredOK
  <1>2. CASE c = players[cl].key
    BY <1>1, <1>2 DEF TypeOK
  <1>3. CASE c # players[cl].key
    <2>1. \A o \in Client : players[o].key # c
      BY <1>3
    <2> QED
      BY <1>1, <1>3, <2>1 DEF Apart, StoredOK, TypeOK
  <1> QED
    BY <1>2, <1>3

LEMMA SaveApart ==
    ASSUME TypeOK, TypeOK', ShardInv, Keyed, NEW a \in Account, Apart(a), NEW cl \in Client, SaveOne(cl)
    PROVE  Apart(a)'
  <1>1. /\ db' = Stored(players[cl])
        /\ UNCHANGED <<pick, key, shared, players, earned>>
    BY DEF SaveOne, loginVars
  <1>2. AccountOf(None) # a /\ Idle.copy.key = None /\ Idle.erase = None
    BY NoneAssumption DEF AccountOf, Idle, Absent
  <1>3. shard' = Idle \/ (shard'.copy = shard.copy /\ shard'.erase = shard.erase)
    BY DEF SaveOne, TypeOK, ShardThread
  <1>4. ShardLeft(a)
    BY <1>2, <1>3 DEF ShardLeft, Apart
  <1>5. CASE AccountOf(players[cl].key) # a
    <2>1. RowsLeft(a)
      BY <1>1, <1>5, OthersRows DEF RowsLeft
    <2>2. KeysLeft(a) /\ PlayersLeft(a) /\ CopiesLeft(a) /\ PickLeft(a)
      BY <1>1 DEF KeysLeft, PlayersLeft, CopiesLeft, PickLeft
    <2> QED
      BY <1>4, <2>1, <2>2, LeftAlone DEF Left, TypeOK
  <1>6. CASE AccountOf(players[cl].key) = a
    <2>1. AccountOf(shard'.copy.key) # a
      BY <1>4 DEF ShardLeft
    <2>2. PickOK(a)' /\ KeyOK(a)'
      BY <1>1, <1>6, <2>1, PlayerStep DEF KeysGo
    <2>3. StoredOK(a)'
      BY <1>1, <1>6, SavedRow
    <2>4. PlayerOK(a)'
      BY <1>1, <1>4 DEF Apart, PlayerOK, AccountOf, ShardLeft
    <2> QED
      BY <2>1, <2>2, <2>3, <2>4 DEF Apart, AccountOf
  <1> QED
    BY <1>5, <1>6

\* Finding a dead socket, whether there is a player behind it or not.
LEMMA ReapApart ==
    ASSUME TypeOK, TypeOK', Keyed, NEW a \in Account, Apart(a), NEW cl \in Client, Reap(cl)
    PROVE  Apart(a)'
  <1>1. /\ shard = Idle /\ players' = [players EXCEPT ![cl] = Absent]
        /\ UNCHANGED <<pick, key, shared, earned>>
    BY DEF Reap, loginVars
  <1>2. AccountOf(None) # a /\ Idle.copy.key = None /\ Idle.erase = None /\ Absent.key = None
    BY NoneAssumption DEF AccountOf, Idle, Absent
  <1>3. players'[cl] = Absent /\ \A o \in Client : o # cl => players'[o] = players[o]
    BY <1>1 DEF TypeOK
  <1>4. shard'.copy.key = None
    BY <1>1, <1>2 DEF Reap, Idle
  <1>5. shard'.erase \in {players[cl].key, None}
    BY <1>1, <1>2 DEF Reap, Idle
  <1>6. CASE AccountOf(players[cl].key) # a
    <2>1. RowsLeft(a)
      <3>1. UNCHANGED db \/ db' = Stored(players[cl])
        BY DEF Reap
      <3> QED
        BY <1>1, <1>6, <3>1, OthersRows DEF RowsLeft
    <2>2. PlayersLeft(a)
      BY <1>2, <1>3, <1>6 DEF PlayersLeft
    <2>3. ShardLeft(a)
      BY <1>2, <1>4, <1>5, <1>6 DEF ShardLeft
    <2>4. KeysLeft(a) /\ CopiesLeft(a) /\ PickLeft(a)
      BY <1>1 DEF KeysLeft, CopiesLeft, PickLeft
    <2> QED
      BY <2>1, <2>2, <2>3, <2>4, LeftAlone DEF Left, TypeOK
  <1>7. CASE AccountOf(players[cl].key) = a
    <2>1. PickOK(a)' /\ KeyOK(a)'
      BY <1>1, <1>2, <1>4, <1>7, PlayerStep DEF KeysGo
    <2>2. db' = Stored(players[cl])
      BY <1>2, <1>7 DEF Reap
    <2>3. StoredOK(a)'
      BY <1>1, <1>3, <1>7, <2>2, SavedRow
    <2>4. \A o \in Client : AccountOf(players'[o].key) # a
      BY <1>2, <1>3, <1>7, PlaysAlone
    <2>5. PlayerOK(a)'
      BY <2>4 DEF PlayerOK, AccountOf
    <2> QED
      BY <1>2, <1>4, <2>1, <2>3, <2>5 DEF Apart, AccountOf
  <1> QED
    BY <1>6, <1>7

\* The session that is thrown out is of the account of the copy that is entered:
\* not of this one.
LEMMA KickedOther ==
    ASSUME TypeOK, ShardInv, Keyed, NEW a \in Account, Apart(a), shard.pc = "kick"
    PROVE  shard.old \in Client /\ HasPlayer(shard.old) /\ AccountOf(players[shard.old].key) # a
  <1>1. /\ shard.old \in Client /\ HasPlayer(shard.old)
        /\ AccountOf(players[shard.old].char) = AccountOf(shard.copy.char)
    BY DEF ShardInv, HandlerInv, SameAccount
  <1>2. AccountOf(shard.copy.char) # a
    <2>1. AccountOf(None) # a
      BY NoneAssumption DEF AccountOf
    <2> QED
      BY <2>1 DEF Keyed, Apart
  <1>3. AccountOf(players[shard.old].key) = a => players[shard.old].char = players[shard.old].key
    BY <1>1 DEF Apart, PlayerOK
  <1> QED
    BY <1>1, <1>2, <1>3

LEMMA KickApart ==
    ASSUME TypeOK, TypeOK', ShardInv, Keyed, NEW a \in Account, Apart(a), KickSave
    PROVE  Apart(a)'
  <1> DEFINE old == shard.old
  <1>1. /\ db' = Stored(players[old]) /\ players' = [players EXCEPT ![old] = Absent]
        /\ UNCHANGED <<pick, key, shared, earned>>
    BY DEF KickSave, loginVars
  <1>2. /\ shard'.copy = shard.copy /\ shard'.erase = players[old].key
    BY DEF KickSave, TypeOK, ShardThread
  <1>3. AccountOf(None) # a /\ Absent.key = None
    BY NoneAssumption DEF AccountOf, Absent
  <1>4. old \in Client /\ AccountOf(players[old].key) # a
    BY KickedOther DEF KickSave
  <1> HIDE DEF old
  <1>5. players'[old] = Absent /\ \A o \in Client : o # old => players'[o] = players[o]
    BY <1>1, <1>4 DEF TypeOK
  <1>6. RowsLeft(a)
    BY <1>1, <1>4, OthersRows DEF RowsLeft
  <1>7. PlayersLeft(a)
    BY <1>3, <1>4, <1>5 DEF PlayersLeft
  <1>8. ShardLeft(a)
    BY <1>2, <1>4 DEF ShardLeft, Apart
  <1>9. KeysLeft(a) /\ CopiesLeft(a) /\ PickLeft(a)
    BY <1>1 DEF KeysLeft, CopiesLeft, PickLeft
  <1> QED
    BY <1>6, <1>7, <1>8, <1>9, LeftAlone DEF Left, TypeOK

\* Nor is the copy that then enters.
LEMMA KickedApart ==
    ASSUME TypeOK, TypeOK', ShardInv, Keyed, NEW a \in Account, Apart(a), KickedEnter
    PROVE  Apart(a)'
  <1>1. /\ shared' = Erased(shard.erase) /\ shard' = Idle
        /\ players' = [players EXCEPT ![shard.cl] = shard.copy]
        /\ UNCHANGED <<pick, key, db, earned>>
        /\ shard.cl \in Client \ entered
    BY DEF KickedEnter, loginVars, ShardInv, HandlerInv
  <1>2. AccountOf(None) # a /\ Idle.copy.key = None /\ Idle.erase = None
    BY NoneAssumption DEF AccountOf, Idle, Absent
  <1>3. /\ players'[shard.cl] = shard.copy
        /\ \A o \in Client : o # shard.cl => players'[o] = players[o]
    BY <1>1 DEF TypeOK
  <1>4. players[shard.cl].key = None
    BY <1>1 DEF ShardInv, NoDanglingSocket
  <1>5. PlayersLeft(a)
    BY <1>2, <1>3, <1>4 DEF PlayersLeft, Apart
  <1>6. CopiesLeft(a)
    BY <1>1, EraseLeaves
  <1>7. ShardLeft(a)
    BY <1>1, <1>2 DEF ShardLeft
  <1>8. KeysLeft(a) /\ RowsLeft(a) /\ PickLeft(a)
    BY <1>1 DEF KeysLeft, RowsLeft, PickLeft
  <1> QED
    BY <1>5, <1>6, <1>7, <1>8, LeftAlone DEF Left, TypeOK

LEMMA ApartStep ==
    ASSUME TypeOK, TypeOK', ShardInv, Keyed, NEW a \in Account, Apart(a), a \notin hasty', [Next]_vars
    PROVE  Apart(a)'
  <1>1. ASSUME KeysGo, UNCHANGED <<pick, shared, players, shard, db, earned>> PROVE Apart(a)'
    BY <1>1, Aside, LeftAlone DEF TypeOK
  <1>2. ASSUME UNCHANGED <<key, pick, shared, players, shard, db, earned>> PROVE Apart(a)'
    BY <1>1, <1>2 DEF KeysGo
  <1>3. ASSUME NEW cl \in Client, ClientStep(cl) PROVE Apart(a)'
    <2>1. CASE ClientStart(cl) \/ ClientConnect(cl)
      BY <1>2, <2>1 DEF ClientStart, ClientConnect, loginVars, shardVars
    <2>2. CASE ClientGone(cl)
      <3>1. KeysGo
        BY <2>2 DEF ClientGone, KeysGo, TypeOK
      <3> QED
        BY <1>1, <2>2, <3>1 DEF ClientGone, loginVars, shardVars
    <2> QED
      BY <1>3, <2>1, <2>2 DEF ClientStep
  <1>4. ASSUME NEW cl \in Client, LoginStep(cl) PROVE Apart(a)'
    <2>1. CASE LoginHangup(cl) \/ LoginReap(cl) \/ \E b \in Account : Login(cl, b)
      BY <1>2, <2>1 DEF LoginHangup, LoginReap, Login, shardVars
    <2>2. ASSUME NEW c \in Character, SelectLoad(cl, c) PROVE Apart(a)'
      BY <2>2, LoadApart
    <2> QED
      BY <1>4, <2>1, <2>2 DEF LoginStep
  <1>5. ASSUME NEW cl \in Client, ShardPoll(cl) PROVE Apart(a)'
    <2>1. CASE EnterFetch(cl)
      BY <2>1, EnterApart
    <2>2. CASE Play(cl)
      BY <2>2, PlayApart
    <2>3. CASE ShardHangup(cl)
      BY <1>2, <2>3 DEF ShardHangup, loginVars
    <2>4. CASE Reap(cl)
      BY <2>4, ReapApart
    <2>5. CASE SaveOne(cl)
      BY <2>5, SaveApart
    <2> QED
      BY <1>5, <2>1, <2>2, <2>3, <2>4, <2>5 DEF ShardPoll
  <1>6. ASSUME NEW b \in Account, DuplicateExit(b) PROVE Apart(a)'
    BY <1>2, <1>6 DEF DuplicateExit, shardVars
  <1>7. CASE SelectPublish
    BY <1>7, PublishApart
  <1>8. CASE KickSave
    BY <1>8, KickApart
  <1>9. CASE KickedEnter
    BY <1>9, KickedApart
  <1>10. CASE ReapErase
    <2>1. /\ shared' = Erased(shard.erase) /\ shard' = Idle
          /\ UNCHANGED <<pick, key, players, db, earned>>
      BY <1>10 DEF ReapErase, loginVars
    <2>2. AccountOf(None) # a /\ Idle.copy.key = None /\ Idle.erase = None
      BY NoneAssumption DEF AccountOf, Idle, Absent
    <2>3. CopiesLeft(a) /\ ShardLeft(a)
      BY <2>1, <2>2, EraseLeaves DEF ShardLeft
    <2>4. KeysLeft(a) /\ PlayersLeft(a) /\ RowsLeft(a) /\ PickLeft(a)
      BY <2>1 DEF KeysLeft, PlayersLeft, RowsLeft, PickLeft
    <2> QED
      BY <2>3, <2>4, LeftAlone DEF Left, TypeOK
  <1>11. CASE SaveStart
    <2>1. /\ shard'.erase = None /\ shard'.copy.key = None
          /\ UNCHANGED <<pick, key, shared, players, db, earned>>
      BY <1>11 DEF SaveStart, loginVars, Idle, Absent
    <2>2. ShardLeft(a)
      BY <2>1, NoneAssumption DEF ShardLeft, AccountOf
    <2>3. KeysLeft(a) /\ PlayersLeft(a) /\ RowsLeft(a) /\ CopiesLeft(a) /\ PickLeft(a)
      BY <2>1 DEF KeysLeft, PlayersLeft, RowsLeft, CopiesLeft, PickLeft
    <2> QED
      BY <2>2, <2>3, LeftAlone DEF Left, TypeOK
  <1>12. CASE Crash
    <2>1. /\ \A cl \in Client : key'[cl] = None /\ players'[cl].key = None
          /\ shard'.copy.key = None /\ pick' = NoPick /\ earned' = db /\ db' = db
      BY <1>12 DEF Crash, Idle, Absent
    <2>2. AccountOf(None) # a
      BY NoneAssumption DEF AccountOf
    <2>3. PickOK(a)' /\ KeyOK(a)' /\ PlayerOK(a)'
      BY <2>1, <2>2 DEF PickOK, KeyOK, PlayerOK, AccountOf
    <2>4. StoredOK(a)'
      BY <2>1 DEF StoredOK
    <2> QED
      BY <2>1, <2>2, <2>3, <2>4 DEF Apart, AccountOf
  <1>13. CASE UNCHANGED vars
    BY <1>2, <1>13 DEF vars, loginVars, shardVars
  <1> QED
    BY <1>3, <1>4, <1>5, <1>6, <1>7, <1>8, <1>9, <1>10, <1>11, <1>12, <1>13 DEF Next

\* A hasty account stays one.
LEMMA HastyGrows == [Next]_vars => hasty \subseteq hasty'
  <1> SUFFICES ASSUME [Next]_vars PROVE hasty \subseteq hasty'
    OBVIOUS
  <1>1. ASSUME NEW cl \in Client, ClientStep(cl) \/ ShardPoll(cl) PROVE UNCHANGED hasty
    BY <1>1 DEF ClientStep, ClientStart, ClientConnect, ClientGone, ShardPoll, EnterFetch, Play,
                ShardHangup, Reap, SaveOne
  <1>2. ASSUME NEW cl \in Client, LoginStep(cl) PROVE hasty \subseteq hasty'
    BY <1>2 DEF LoginStep, LoginHangup, LoginReap, Login, SelectLoad
  <1>3. CASE \/ \E a \in Account : DuplicateExit(a)
             \/ SelectPublish \/ KickSave \/ KickedEnter \/ ReapErase \/ SaveStart \/ Crash
    BY <1>3 DEF DuplicateExit, SelectPublish, KickSave, KickedEnter, ReapErase, SaveStart, Crash
  <1>4. CASE UNCHANGED vars
    BY <1>4 DEF vars
  <1> QED
    BY <1>1, <1>2, <1>3, <1>4 DEF Next

HastyInv == Keyed /\ \A a \in Account \ hasty : Apart(a)

LEMMA HastyInvariance == Spec => []HastyInv
  <1>1. Init => HastyInv
    <2> SUFFICES ASSUME Init, NEW a \in Account PROVE Apart(a)
      BY KeyedInit DEF HastyInv
    <2>1. /\ \A cl \in Client : key[cl] = None /\ players[cl].key = None
          /\ shard.copy.key = None /\ pick = NoPick /\ \A c \in Character : db[c] = earned[c]
      BY DEF Init, Idle, Absent
    <2>2. AccountOf(None) # a
      BY NoneAssumption DEF AccountOf
    <2> QED
      BY <2>1, <2>2 DEF Apart, PickOK, KeyOK, PlayerOK, StoredOK
  <1>2. TypeOK /\ TypeOK' /\ ShardInv /\ HastyInv /\ [Next]_vars => HastyInv'
    <2> SUFFICES ASSUME TypeOK, TypeOK', ShardInv, HastyInv, [Next]_vars PROVE HastyInv'
      OBVIOUS
    <2>1. Keyed'
      BY KeyedStep DEF HastyInv
    <2>2. ASSUME NEW a \in Account, a \notin hasty' PROVE Apart(a)'
      <3>1. Apart(a) /\ Keyed
        BY <2>2, HastyGrows DEF HastyInv
      <3> QED
        BY <2>2, <3>1, ApartStep
    <2> QED
      BY <2>1, <2>2 DEF HastyInv
  <1> QED
    BY <1>1, <1>2, Invariance, PTL DEF Spec

\* What HastyInv says of a character of an account that was never hasty.
LEMMA ApartPlaying ==
    ASSUME TypeOK, HastyInv, NEW c \in Character, Owner[c] \notin hasty
    PROVE  /\ \A cl \in Client : players[cl].key = c <=> players[cl].char = c
           /\ \A cl \in Client : players[cl].key = c =>
                /\ Playing(c) = {cl} /\ players[cl].val = earned[c]
                /\ Stored(players[cl]) = [db EXCEPT ![c] = earned[c]]
           /\ Playing(c) = {} => db[c] = earned[c]
  <1>1. Owner[c] \in Account /\ Apart(Owner[c]) /\ Keyed /\ c # None
    BY OwnerAssumption, NoneAssumption DEF HastyInv
  <1>2. \A cl \in Client : players[cl].key = c <=> players[cl].char = c
    BY <1>1, PlaysItsKey DEF Apart
  <1>3. Playing(c) = {cl \in Client : players[cl].key = c}
    BY <1>1, <1>2 DEF Playing
  <1>4. ASSUME NEW cl \in Client, players[cl].key = c
        PROVE  /\ Playing(c) = {cl} /\ players[cl].val = earned[c]
               /\ Stored(players[cl]) = [db EXCEPT ![c] = earned[c]]
    <2>1. AccountOf(c) = Owner[c]
      BY <1>1 DEF AccountOf
    <2>2. /\ players[cl].val = earned[c]
          /\ \A o \in Client : o # cl => players[o].key # c
      BY <1>1, <1>4, <2>1 DEF Apart, PlayerOK
    <2>3. Stored(players[cl]) = [db EXCEPT ![c] = earned[c]]
      BY <1>1, <1>4, <2>1, OwnRow DEF Apart
    <2> QED
      BY <1>3, <1>4, <2>2, <2>3
  <1>5. Playing(c) = {} => db[c] = earned[c]
    BY <1>1, <1>3 DEF Apart, StoredOK
  <1> QED
    BY <1>2, <1>4, <1>5

\* Every progress of an account that never had two sessions overlap is in its
\* session or in the database: getPlayer, enterPlayer's copy, removePlayer and the
\* saves (CNLoginServer.cpp:478, PlayerManager.cpp:203, CNShardServer.cpp:150-160),
\* whatever the other accounts do, and whoever is thrown out or crashes.
THEOREM LossTakesHaste == Spec => []LostByHasteOnly
  <1>1. TypeOK /\ HastyInv => LostByHasteOnly
    <2> SUFFICES ASSUME TypeOK, HastyInv, NEW c \in Character, Owner[c] \notin hasty PROVE Kept(c)
      BY DEF LostByHasteOnly
    <2>1. ASSUME NEW cl \in Playing(c) PROVE players[cl].val = earned[c]
      <3>1. cl \in Client /\ players[cl].char = c
        BY DEF Playing
      <3> QED
        BY <3>1, ApartPlaying
    <2>2. Playing(c) = {} => db[c] = earned[c]
      BY ApartPlaying
    <2> QED
      BY <2>1, <2>2 DEF Kept
  <1> QED
    BY <1>1, HastyInvariance, Invariance, PTL

\* The key a client of such an account enters with still has its copy in
\* CNSharedData (PlayerManager.cpp:203): it does not play as a Player{}.
THEOREM PhantomTakesHaste == Spec => []PhantomByHasteOnly
  <1>1. TypeOK /\ HastyInv => PhantomByHasteOnly
    <2> SUFFICES ASSUME TypeOK, HastyInv, NEW cl \in Client, HasPlayer(cl),
                        AccountOf(players[cl].key) \notin hasty
                 PROVE  players[cl].char # None
      BY DEF PhantomByHasteOnly
    <2>1. players[cl].key \in Character /\ Owner[players[cl].key] \notin hasty
      BY DEF TypeOK, Slot, AccountOf
    <2> QED
      BY <2>1, ApartPlaying
  <1> QED
    BY <1>1, HastyInvariance, Invariance, PTL

-----------------------------------------------------------------------------
(***************************************************************************)
(* The refinement.  What a character that is shown carries is what it      *)
(* earned, so that the mapping needs no choice among its sessions.         *)
(***************************************************************************)
Online == {c \in Character : Shown(c)}
Live == [c \in Character |-> IF Shown(c) THEN earned[c] ELSE 0]
Kdb == [c \in Character |-> IF c \in Void THEN 0 ELSE db[c]]
Seen == [c \in Character |-> IF Shown(c) THEN players[CHOOSE cl \in Playing(c) : TRUE].val ELSE 0]

LEMMA SeenIsLive == TypeOK /\ HastyInv => Seen = Live
  <1> SUFFICES ASSUME TypeOK, HastyInv PROVE Seen = Live
    OBVIOUS
  <1>1. ASSUME NEW c \in Character, Shown(c)
        PROVE  players[CHOOSE cl \in Playing(c) : TRUE].val = earned[c]
    <2>1. PICK cl \in Client : cl = (CHOOSE x \in Playing(c) : TRUE) /\ players[cl].char = c
      BY <1>1 DEF Shown, Playing
    <2>2. Owner[c] \notin hasty
      BY <1>1 DEF Shown, Void
    <2> QED
      BY <2>1, <2>2, ApartPlaying
  <1> QED
    BY <1>1 DEF Seen, Live

\* What the steps of SaveStore are in these terms.
LEMMA StoreMapped ==
    ASSUME Seen = Live, Seen' = Live'
    PROVE  /\ UNCHANGED <<Online, Live, Kdb, Void>> => UNCHANGED Store!vars
           /\ \A c \in Character :
                /\ /\ c \notin Online \cup Void /\ Online' = Online \cup {c}
                   /\ Live' = [Live EXCEPT ![c] = Kdb[c]] /\ UNCHANGED <<Kdb, Void>>
                   => Store!Resume(c)
                /\ /\ c \in Online /\ UNCHANGED <<Online, Kdb, Void>>
                   /\ Live' = [Live EXCEPT ![c] = @ + 1]
                   => Store!Play(c)
                /\ /\ c \in Online /\ UNCHANGED <<Online, Live, Void>>
                   /\ Kdb' = [Kdb EXCEPT ![c] = Live[c]]
                   => Store!Save(c)
                /\ /\ c \in Online /\ Online' = Online \ {c} /\ UNCHANGED Void
                   /\ Kdb' = [Kdb EXCEPT ![c] = Live[c]] /\ Live' = [Live EXCEPT ![c] = 0]
                   => Store!Leave(c)
           /\ \A S \in SUBSET Character :
                /\ Void' = Void \cup S /\ Online' = Online \ S
                /\ Live' = [c \in Character |-> IF c \in S THEN 0 ELSE Live[c]]
                /\ Kdb' = [c \in Character |-> IF c \in S THEN 0 ELSE Kdb[c]]
                => Store!Forfeit(S)
           /\ Online' = {} /\ Live' = [c \in Character |-> 0] /\ UNCHANGED <<Kdb, Void>>
                => Store!Crash
  <1> USE DEF Seen, Online, Kdb
  <1>1. UNCHANGED <<Online, Live, Kdb, Void>> => UNCHANGED Store!vars
    BY DEF Store!vars
  <1>2. ASSUME NEW c \in Character
        PROVE  /\ /\ c \notin Online \cup Void /\ Online' = Online \cup {c}
                  /\ Live' = [Live EXCEPT ![c] = Kdb[c]] /\ UNCHANGED <<Kdb, Void>>
                  => Store!Resume(c)
               /\ /\ c \in Online /\ UNCHANGED <<Online, Kdb, Void>>
                  /\ Live' = [Live EXCEPT ![c] = @ + 1]
                  => Store!Play(c)
               /\ /\ c \in Online /\ UNCHANGED <<Online, Live, Void>>
                  /\ Kdb' = [Kdb EXCEPT ![c] = Live[c]]
                  => Store!Save(c)
               /\ /\ c \in Online /\ Online' = Online \ {c} /\ UNCHANGED Void
                  /\ Kdb' = [Kdb EXCEPT ![c] = Live[c]] /\ Live' = [Live EXCEPT ![c] = 0]
                  => Store!Leave(c)
    BY DEF Store!Resume, Store!Play, Store!Save, Store!Leave
  <1>3. ASSUME NEW S \in SUBSET Character,
               Void' = Void \cup S, Online' = Online \ S,
               Live' = [c \in Character |-> IF c \in S THEN 0 ELSE Live[c]],
               Kdb' = [c \in Character |-> IF c \in S THEN 0 ELSE Kdb[c]]
        PROVE  Store!Forfeit(S)
    BY <1>3 DEF Store!Forfeit, Store!Blanked
  <1>4. Online' = {} /\ Live' = [c \in Character |-> 0] /\ UNCHANGED <<Kdb, Void>> => Store!Crash
    BY DEF Store!Crash
  <1> QED
    BY <1>1, <1>2, <1>3, <1>4

\* A step after which every character that is not void is played and stored as before.
LEMMA NothingShown ==
    ASSUME Seen = Live, Seen' = Live', UNCHANGED hasty,
           \A c \in Character : c \notin Void =>
               /\ db'[c] = db[c] /\ earned'[c] = earned[c]
               /\ Playing(c)' = {} <=> Playing(c) = {}
    PROVE  UNCHANGED Store!vars
  <1>1. Void' = Void
    BY DEF Void
  <1>2. \A c \in Character : Shown(c)' = Shown(c)
    BY <1>1 DEF Shown
  <1>3. Online' = Online /\ Live' = Live /\ Kdb' = Kdb
    BY <1>1, <1>2 DEF Online, Live, Kdb, Shown
  <1> QED
    BY <1>1, <1>3, StoreMapped

\* A step of a session that nothing is promised of: before and after it its player,
\* if there is one, is of no character that is not void.
OffStage(slot, c) == slot.key = None \/ slot.char # c

LEMMA OffStageStep ==
    ASSUME Seen = Live, Seen' = Live', UNCHANGED hasty, NEW cl \in Client,
           \A o \in Client : o # cl => players'[o] = players[o],
           \A c \in Character : c \notin Void =>
               /\ db'[c] = db[c] /\ earned'[c] = earned[c]
               /\ OffStage(players[cl], c) /\ OffStage(players'[cl], c)
    PROVE  UNCHANGED Store!vars
  <1>1. ASSUME NEW c \in Character, c \notin Void PROVE Playing(c)' = Playing(c)
    BY <1>1 DEF Playing, OffStage
  <1> QED
    BY <1>1, NothingShown

\* The players of void characters are off stage, and saving them stores no other's progress.
LEMMA VoidPlayer ==
    ASSUME TypeOK, Keyed, NEW cl \in Client, players[cl].key \in Void \cup {None},
           NEW c \in Character, c \notin Void
    PROVE  OffStage(players[cl], c) /\ (HasPlayer(cl) => Stored(players[cl])[c] = db[c])
  <1>1. c # None /\ players[cl].char \in {players[cl].key, None}
    BY NoneAssumption DEF Keyed
  <1> QED
    BY <1>1 DEF OffStage, Stored

\* The player of a character that is not void is the one that is shown.
LEMMA ShownPlayer ==
    ASSUME TypeOK, HastyInv, NEW cl \in Client, HasPlayer(cl), players[cl].key \notin Void
    PROVE  \E c \in Character :
               /\ c = players[cl].key /\ c = players[cl].char /\ c \notin Void
               /\ Playing(c) = {cl} /\ Shown(c) /\ Live[c] = earned[c]
               /\ Stored(players[cl]) = [db EXCEPT ![c] = earned[c]]
  <1> DEFINE c == players[cl].key
  <1>1. c \in Character /\ Owner[c] \notin hasty
    BY DEF TypeOK, Slot, Void
  <1>2. /\ c = players[cl].char /\ Playing(c) = {cl}
        /\ Stored(players[cl]) = [db EXCEPT ![c] = earned[c]]
    BY <1>1, ApartPlaying
  <1>3. Shown(c) /\ c \notin Void
    BY <1>1, <1>2 DEF Shown, Void
  <1>4. Live[c] = earned[c]
    BY <1>1, <1>3 DEF Live
  <1> QED
    BY <1>1, <1>2, <1>3, <1>4

LEMMA StoreEnter ==
    ASSUME TypeOK, ShardInv, HastyInv, Seen = Live, Seen' = Live', NEW cl \in Client, EnterFetch(cl)
    PROVE  [Store!Next]_(Store!vars)
  <1> DEFINE k == key[cl]
  <1>1. /\ k \in Character /\ cl \notin entered /\ UNCHANGED <<db, earned, hasty>>
        /\ players[cl].key = None /\ Keyed
    BY DEF EnterFetch, TypeOK, ShardInv, NoDanglingSocket, HastyInv
  <1>2. Void' = Void
    BY <1>1 DEF Void
  <1>3. CASE k \in Void
    <2>1. \/ players' = players
          \/ players' = [players EXCEPT ![cl] = WithKey(shared[k], k)]
      BY DEF EnterFetch
    <2>2. \A c \in Character : c \notin Void => OffStage(WithKey(shared[k], k), c)
      BY <1>1, <1>3, NoneAssumption DEF OffStage, WithKey, Keyed
    <2> HIDE DEF k
    <2>3. \A o \in Client : o # cl => players'[o] = players[o]
      BY <2>1 DEF TypeOK
    <2>4. \A c \in Character : c \notin Void => OffStage(players[cl], c) /\ OffStage(players'[cl], c)
      BY <1>1, <2>1, <2>2 DEF OffStage, TypeOK
    <2>5. UNCHANGED Store!vars
      BY <1>1, <2>3, <2>4, OffStageStep
    <2> QED
      BY <2>5
  <1>4. CASE k \notin Void
    <2>1. Owner[k] \in Account /\ Apart(Owner[k]) /\ AccountOf(k) = Owner[k] /\ Owner[k] \notin hasty
      BY <1>1, <1>4, OwnerAssumption, NoneAssumption DEF HastyInv, Void, AccountOf
    <2>2. PICK c \in Character :
              /\ c \notin Void /\ Owner[c] \notin hasty
              /\ players' = [players EXCEPT ![cl] = [char |-> c, val |-> db[c], key |-> c]]
              /\ db[c] = earned[c]
              /\ \A o \in Client : players[o].key # c
      BY <1>1, <1>4, <2>1, EnterOwn
    <2>3. /\ players'[cl].char = c /\ players'[cl].key = c
          /\ \A o \in Client : o # cl => players'[o] = players[o]
      BY <2>2 DEF TypeOK
    <2>4. Playing(c) = {}
      BY <2>2, ApartPlaying DEF Playing
    <2>5. c # None /\ Playing(c)' = {cl}
      BY <2>3, <2>4, NoneAssumption DEF Playing
    <2>6. \A d \in Character : d # c => Playing(d)' = Playing(d)
      BY <1>1, <2>3 DEF Playing
    <2>7. Shown(c)' /\ ~Shown(c) /\ \A d \in Character : d # c => Shown(d)' = Shown(d)
      BY <1>2, <2>2, <2>4, <2>5, <2>6 DEF Shown
    <2>8. c \notin Online \cup Void /\ Online' = Online \cup {c}
      BY <2>2, <2>7 DEF Online
    <2>9. Kdb' = Kdb /\ Kdb[c] = earned[c]
      BY <1>1, <1>2, <2>2 DEF Kdb
    <2>10. Live' = [Live EXCEPT ![c] = Kdb[c]]
      BY <1>1, <2>7, <2>9 DEF Live
    <2>11. Store!Resume(c)
      BY <1>2, <2>8, <2>9, <2>10, StoreMapped
    <2> QED
      BY <2>11 DEF Store!Next
  <1> QED
    BY <1>3, <1>4

LEMMA StorePlay ==
    ASSUME TypeOK, HastyInv, Seen = Live, Seen' = Live', NEW cl \in Client, Play(cl)
    PROVE  [Store!Next]_(Store!vars)
  <1>1. /\ HasPlayer(cl) /\ players[cl].char \in Character
        /\ players' = [players EXCEPT ![cl].val = @ + 1]
        /\ earned' = [earned EXCEPT ![players[cl].char] = @ + 1]
        /\ UNCHANGED <<db, hasty>> /\ Keyed
    BY DEF Play, HastyInv, TypeOK, Slot
  <1>2. Void' = Void
    BY <1>1 DEF Void
  <1>3. /\ \A o \in Client : o # cl => players'[o] = players[o]
        /\ \A o \in Client : players'[o].char = players[o].char /\ players'[o].key = players[o].key
    BY <1>1 DEF TypeOK, Slot
  <1>4. CASE players[cl].key \in Void
    <2>1. \A c \in Character : c \notin Void => OffStage(players[cl], c)
      BY <1>1, <1>4, VoidPlayer
    <2>2. \A c \in Character : c \notin Void => OffStage(players'[cl], c) /\ earned'[c] = earned[c]
      BY <1>1, <1>3, <2>1 DEF OffStage, TypeOK
    <2>3. UNCHANGED Store!vars
      BY <1>1, <1>3, <2>1, <2>2, OffStageStep
    <2> QED
      BY <2>3
  <1>5. CASE players[cl].key \notin Void
    <2>1. PICK c \in Character :
              /\ c = players[cl].char /\ c \notin Void /\ Shown(c) /\ Live[c] = earned[c]
      BY <1>1, <1>5, ShownPlayer
    <2>2. \A d \in Character : Playing(d)' = Playing(d)
      BY <1>3 DEF Playing
    <2>3. \A d \in Character : Shown(d)' = Shown(d)
      BY <1>2, <2>2 DEF Shown
    <2>4. c \in Online /\ Online' = Online /\ Kdb' = Kdb
      BY <1>1, <1>2, <2>1, <2>3 DEF Online, Kdb
    <2>5. Live' = [Live EXCEPT ![c] = @ + 1]
      BY <1>1, <2>1, <2>3 DEF Live, TypeOK
    <2>6. Store!Play(c)
      BY <1>2, <2>4, <2>5, StoreMapped
    <2> QED
      BY <2>6 DEF Store!Next
  <1> QED
    BY <1>4, <1>5

\* A player is removed and its row saved, or was not there.
LEMMA StoreLeave ==
    ASSUME TypeOK, HastyInv, Seen = Live, Seen' = Live', NEW cl \in Client,
           players' = [players EXCEPT ![cl] = Absent],
           IF HasPlayer(cl) THEN db' = Stored(players[cl]) ELSE db' = db,
           UNCHANGED <<earned, hasty>>
    PROVE  [Store!Next]_(Store!vars)
  <1>1. Void' = Void /\ Keyed
    BY DEF Void, HastyInv
  <1>2. /\ players'[cl].key = None
        /\ \A o \in Client : o # cl => players'[o] = players[o]
    BY DEF TypeOK, Absent
  <1>3. CASE players[cl].key \in Void \cup {None}
    <2>1. \A c \in Character : c \notin Void =>
              /\ OffStage(players[cl], c) /\ OffStage(players'[cl], c) /\ db'[c] = db[c]
      BY <1>1, <1>2, <1>3, VoidPlayer DEF OffStage
    <2>2. UNCHANGED Store!vars
      BY <1>2, <2>1, OffStageStep
    <2> QED
      BY <2>2
  <1>4. CASE players[cl].key \notin Void \cup {None}
    <2>1. PICK c \in Character :
              /\ c = players[cl].char /\ c \notin Void /\ Shown(c) /\ Live[c] = earned[c]
              /\ Playing(c) = {cl} /\ db' = [db EXCEPT ![c] = earned[c]]
      BY <1>4, ShownPlayer
    <2>2. Playing(c)' = {}
      BY <1>2, <2>1 DEF Playing
    <2>3. \A d \in Character : d # c => Playing(d)' = Playing(d)
      BY <1>2, <2>1 DEF Playing
    <2>4. ~Shown(c)' /\ \A d \in Character : d # c => Shown(d)' = Shown(d)
      BY <1>1, <2>2, <2>3 DEF Shown
    <2>5. c \in Online /\ Online' = Online \ {c}
      BY <2>1, <2>4 DEF Online
    <2>6. Kdb' = [Kdb EXCEPT ![c] = Live[c]]
      BY <1>1, <2>1 DEF Kdb, TypeOK
    <2>7. Live' = [Live EXCEPT ![c] = 0]
      BY <2>4 DEF Live
    <2>8. Store!Leave(c)
      BY <1>1, <2>5, <2>6, <2>7, StoreMapped
    <2> QED
      BY <2>8 DEF Store!Next
  <1> QED
    BY <1>3, <1>4

LEMMA StoreSave ==
    ASSUME TypeOK, ShardInv, HastyInv, Seen = Live, Seen' = Live', NEW cl \in Client, SaveOne(cl)
    PROVE  [Store!Next]_(Store!vars)
  <1>1. /\ HasPlayer(cl) /\ db' = Stored(players[cl])
        /\ UNCHANGED <<players, earned, hasty>> /\ Keyed
    BY DEF SaveOne, ShardInv, HandlerInv, HastyInv
  <1>2. Void' = Void
    BY <1>1 DEF Void
  <1>3. CASE players[cl].key \in Void
    <2>1. \A c \in Character : c \notin Void =>
              /\ OffStage(players[cl], c) /\ OffStage(players'[cl], c) /\ db'[c] = db[c]
      BY <1>1, <1>3, VoidPlayer
    <2>2. UNCHANGED Store!vars
      BY <1>1, <2>1, OffStageStep
    <2> QED
      BY <2>2
  <1>4. CASE players[cl].key \notin Void
    <2>1. PICK c \in Character :
              /\ c \notin Void /\ Shown(c) /\ Live[c] = earned[c]
              /\ db' = [db EXCEPT ![c] = earned[c]]
      BY <1>1, <1>4, ShownPlayer
    <2>2. \A d \in Character : Shown(d)' = Shown(d)
      BY <1>1, <1>2 DEF Shown, Playing
    <2>3. c \in Online /\ Online' = Online
      BY <2>1, <2>2 DEF Online
    <2>4. Live' = Live
      BY <1>1, <2>2 DEF Live
    <2>5. Kdb' = [Kdb EXCEPT ![c] = Live[c]]
      BY <1>2, <2>1 DEF Kdb, TypeOK
    <2>6. Store!Save(c)
      BY <1>2, <2>3, <2>4, <2>5, StoreMapped
    <2> QED
      BY <2>6 DEF Store!Next
  <1> QED
    BY <1>3, <1>4

\* The session that is thrown out, and the one that then enters, are of accounts
\* that nothing is promised of.
LEMMA StoreKick ==
    ASSUME TypeOK, ShardInv, HastyInv, Seen = Live, Seen' = Live', KickSave
    PROVE  UNCHANGED Store!vars
  <1> DEFINE old == shard.old
  <1>1. /\ old \in Client /\ HasPlayer(old) /\ shard.pc = "kick" /\ Keyed
        /\ db' = Stored(players[old]) /\ players' = [players EXCEPT ![old] = Absent]
        /\ UNCHANGED <<earned, hasty>>
    BY DEF KickSave, ShardInv, HandlerInv, SameAccount, HastyInv
  <1>2. players[old].key \in Void
    <2>1. players[old].key \in Character /\ Owner[players[old].key] \in Account
      BY <1>1, OwnerAssumption DEF TypeOK, Slot
    <2>2. AccountOf(players[old].key) = Owner[players[old].key]
      BY <2>1, NoneAssumption DEF AccountOf
    <2>3. Owner[players[old].key] \in hasty
      BY <1>1, <2>1, <2>2, KickedOther DEF HastyInv
    <2> QED
      BY <2>1, <2>3 DEF Void
  <1> HIDE DEF old
  <1>3. /\ players'[old].key = None
        /\ \A o \in Client : o # old => players'[o] = players[o]
    BY <1>1 DEF TypeOK, Absent
  <1>4. \A c \in Character : c \notin Void =>
            /\ OffStage(players[old], c) /\ OffStage(players'[old], c) /\ db'[c] = db[c]
    BY <1>1, <1>2, <1>3, VoidPlayer DEF OffStage
  <1> QED
    BY <1>1, <1>3, <1>4, OffStageStep

LEMMA StoreKicked ==
    ASSUME TypeOK, ShardInv, HastyInv, Seen = Live, Seen' = Live', KickedEnter
    PROVE  UNCHANGED Store!vars
  <1> DEFINE cl == shard.cl
  <1>1. /\ cl \in Client \ entered /\ Keyed /\ shard.copy \in Slot /\ shard.copy.key # None
        /\ players' = [players EXCEPT ![cl] = shard.copy]
        /\ UNCHANGED <<db, earned, hasty>>
    BY DEF KickedEnter, ShardInv, HandlerInv, HastyInv, TypeOK, ShardThread
  <1>2. shard.copy.key \in Void
    <2>1. shard.copy.key \in Character /\ Owner[shard.copy.key] \in Account
      BY <1>1, OwnerAssumption DEF Slot
    <2>2. AccountOf(shard.copy.key) = Owner[shard.copy.key]
      BY <2>1, NoneAssumption DEF AccountOf
    <2>3. Owner[shard.copy.key] \in hasty
      BY <2>1, <2>2 DEF HastyInv, Apart
    <2> QED
      BY <2>1, <2>3 DEF Void
  <1>3. players[cl].key = None
    BY <1>1 DEF ShardInv, NoDanglingSocket
  <1> HIDE DEF cl
  <1>4. /\ players'[cl] = shard.copy
        /\ \A o \in Client : o # cl => players'[o] = players[o]
    BY <1>1 DEF TypeOK
  <1>5. \A c \in Character : c \notin Void => OffStage(players[cl], c) /\ OffStage(players'[cl], c)
    BY <1>1, <1>2, <1>3, <1>4, NoneAssumption DEF OffStage, Keyed
  <1> QED
    BY <1>1, <1>4, <1>5, OffStageStep

\* A character is picked too early: its account's promises are off.
LEMMA StoreLoad ==
    ASSUME Seen = Live, Seen' = Live', NEW cl \in Client, NEW c \in Character, SelectLoad(cl, c)
    PROVE  [Store!Next]_(Store!vars)
  <1>1. UNCHANGED <<players, db, earned>>
    BY DEF SelectLoad, shardVars
  <1>2. \A d \in Character : Playing(d)' = Playing(d)
    BY <1>1 DEF Playing
  <1>3. CASE hasty' = hasty
    <2>1. UNCHANGED Store!vars
      BY <1>1, <1>2, <1>3, NothingShown
    <2> QED
      BY <2>1
  <1>4. CASE hasty' = hasty \cup {Owner[c]}
    <2>1. PICK S \in SUBSET Character : S = {d \in Character : Owner[d] = Owner[c]}
      OBVIOUS
    <2>2. Void' = Void \cup S
      BY <1>4, <2>1 DEF Void
    <2>3. \A d \in Character : Shown(d)' <=> d \notin S /\ Shown(d)
      BY <1>2, <2>2 DEF Shown
    <2>4. Online' = Online \ S
      BY <2>3 DEF Online
    <2>5. Live' = [d \in Character |-> IF d \in S THEN 0 ELSE Live[d]]
      BY <1>1, <2>3 DEF Live
    <2>6. Kdb' = [d \in Character |-> IF d \in S THEN 0 ELSE Kdb[d]]
      BY <1>1, <2>2 DEF Kdb
    <2>7. Store!Forfeit(S)
      BY <2>2, <2>4, <2>5, <2>6, StoreMapped
    <2> QED
      BY <2>7 DEF Store!Next
  <1> QED
    BY <1>3, <1>4 DEF SelectLoad

LEMMA StoreStep ==
    ASSUME TypeOK, ShardInv, HastyInv, Seen = Live, Seen' = Live', [Next]_vars
    PROVE  [Store!Next]_(Store!vars)
  <1>1. ASSUME UNCHANGED <<players, db, earned, hasty>> PROVE UNCHANGED Store!vars
    BY <1>1, NothingShown DEF Playing
  <1>2. ASSUME NEW cl \in Client, ClientStep(cl) PROVE UNCHANGED Store!vars
    BY <1>1, <1>2 DEF ClientStep, ClientStart, ClientConnect, ClientGone, shardVars
  <1>3. ASSUME NEW cl \in Client, LoginStep(cl) PROVE [Store!Next]_(Store!vars)
    <2>1. CASE LoginHangup(cl) \/ LoginReap(cl) \/ \E a \in Account : Login(cl, a)
      BY <1>1, <2>1 DEF LoginHangup, LoginReap, Login, shardVars
    <2>2. ASSUME NEW c \in Character, SelectLoad(cl, c) PROVE [Store!Next]_(Store!vars)
      BY <2>2, StoreLoad
    <2> QED
      BY <1>3, <2>1, <2>2 DEF LoginStep
  <1>4. ASSUME NEW cl \in Client, ShardPoll(cl) PROVE [Store!Next]_(Store!vars)
    <2>1. CASE EnterFetch(cl)
      BY <2>1, StoreEnter
    <2>2. CASE Play(cl)
      BY <2>2, StorePlay
    <2>3. CASE ShardHangup(cl)
      BY <1>1, <2>3 DEF ShardHangup
    <2>4. CASE Reap(cl)
      BY <2>4, StoreLeave DEF Reap
    <2>5. CASE SaveOne(cl)
      BY <2>5, StoreSave
    <2> QED
      BY <1>4, <2>1, <2>2, <2>3, <2>4, <2>5 DEF ShardPoll
  <1>5. ASSUME NEW a \in Account, DuplicateExit(a) PROVE UNCHANGED Store!vars
    BY <1>1, <1>5 DEF DuplicateExit, shardVars
  <1>6. CASE SelectPublish \/ ReapErase \/ SaveStart
    BY <1>1, <1>6 DEF SelectPublish, ReapErase, SaveStart, shardVars
  <1>7. CASE KickSave
    BY <1>7, StoreKick
  <1>8. CASE KickedEnter
    BY <1>8, StoreKicked
  <1>9. CASE Crash
    <2>1. \A c \in Character : ~Shown(c)'
      BY <1>9 DEF Crash, Shown, Playing, Absent
    <2>2. Online' = {} /\ Live' = [c \in Character |-> 0]
      BY <2>1 DEF Online, Live
    <2>3. UNCHANGED <<Kdb, Void>>
      BY <1>9 DEF Crash, Kdb, Void
    <2> QED
      BY <2>2, <2>3, StoreMapped DEF Store!Next
  <1>10. CASE UNCHANGED vars
    BY <1>1, <1>10 DEF vars, shardVars
  <1> QED
    BY <1>2, <1>3, <1>4, <1>5, <1>6, <1>7, <1>8, <1>9, <1>10 DEF Next

\* The login server, the hand-off, the shard and the database implement SaveStore:
\* to every account whose own sessions never overlapped they keep its promise.
THEOREM ImplementsStore == Spec => StoreSpec
  <1>1. Init => Store!Init
    <2> SUFFICES ASSUME Init PROVE Store!Init
      OBVIOUS
    <2>1. \A c \in Character : Playing(c) = {} /\ db[c] = 0
      BY DEF Init, Playing, Absent
    <2>2. Void = {}
      BY DEF Init, Void
    <2> QED
      BY <2>1, <2>2 DEF Shown, Store!Init
  <1>2. TypeOK /\ ShardInv /\ HastyInv /\ Seen = Live /\ (Seen = Live)' /\ [Next]_vars
        => [Store!Next]_(Store!vars)
    BY StoreStep
  <1>3. TypeOK /\ HastyInv => Seen = Live
    BY SeenIsLive
  <1> QED
    BY <1>1, <1>2, <1>3, HastyInvariance, Invariance, PTL DEF Spec, StoreSpec, Store!Spec
=============================================================================
