------------------------------ MODULE Session ------------------------------
(***************************************************************************)
(* A game session from login to save: the login server (a thread), the     *)
(* shard server (another thread), the hand-off table between them          *)
(* (CNSharedData, under playerCrit) and the database (under dbCrit).       *)
(*                                                                         *)
(* A step is what one thread does between two acquisitions of a lock that  *)
(* the other thread also takes.  A Player is abstracted to the character   *)
(* it was loaded from and a counter of the progress it carries, so that a  *)
(* copy can be told to be older than another.  Names, passwords, packets   *)
(* and encryption keys are left out.  An operator marked "mutant" is a slip *)
(* in the definition that follows it, for the runs that must notice it.    *)
(*                                                                         *)
(* A client is one run of the game: it logs in, picks a character, gets    *)
(* the key (iEnterSerialKey, the character's id), connects to the shard    *)
(* and sends one PC_ENTER with that key; to enter again it has to pick     *)
(* again.  It may vanish at any moment.                                    *)
(***************************************************************************)
EXTENDS Naturals, FiniteSets

CONSTANTS
    Client,       \* runs of the game client
    Character,    \* rows of the Players table
    Account,      \* rows of the Accounts table
    Owner,        \* the account each character belongs to
    None,         \* no client, no character, no account
    MaxProgress   \* bound on the progress a character earns

ASSUME OwnerAssumption == Owner \in [Character -> Account]

ASSUME NoneAssumption ==
    /\ None \notin Character
    /\ None \notin Account
    /\ None \notin Client

ASSUME BoundAssumption == MaxProgress \in Nat

VARIABLES
    up,         \* the clients that are running
    loginSock,  \* each client's connection to the login server
    loginUser,  \* CNLoginServer::loginSessions: the account logged in on it
    pick,       \* the login thread inside characterSelect, after it has read the database
    key,        \* the key each client was given and has yet to enter the shard with
    shared,     \* CNSharedData::players: the copy each key is mapped to
    shardSock,  \* each client's connection to the shard
    entered,    \* the clients whose PC_ENTER the shard has handled on this connection
    players,    \* PlayerManager::players: the player behind each connection
    shard,      \* where the shard thread is
    db,         \* the progress stored for each character
    earned,     \* history: the progress each character has earned and no crash took away
    hasty       \* history: the accounts of which a character was picked while an earlier
                \* session of the account was not over yet

loginVars == <<loginSock, loginUser, pick>>
shardVars == <<shardSock, entered, players, shard>>
vars == <<up, loginVars, key, shared, shardVars, db, earned, hasty>>

SockState == {"none", "open", "dead"}  \* no CNSocket, alive, alive = false but still polled

Progress == Nat

\* What is left of a Player: the character it was loaded from, None for the
\* zero iID and accountId of Player{}, and the progress it carries.
Player == [char : Character \cup {None}, val : Progress]
Blank == [char |-> None, val |-> 0]

\* An entry of PlayerManager::players: a Player and its SerialKey.  No entry is
\* an entry without a key.
Slot == [char : Character \cup {None}, val : Progress, key : Character \cup {None}]
Absent == [char |-> None, val |-> 0, key |-> None]
WithKey(plr, k) == [char |-> plr.char, val |-> plr.val, key |-> k]

HasPlayer(cl) == players[cl].key # None

AccountOf(char) == IF char = None THEN None ELSE Owner[char]

NotStored(plr) == db  \* mutant

\* Database::updatePlayer: the row of the player's character takes its values;
\* a Player{} matches no row.
Stored(plr) == [c \in Character |-> IF c = plr.char THEN plr.val ELSE db[c]]

\* CNSharedData::setPlayer and erasePlayer.
NotPublished(k, plr) == shared  \* mutant
Published(k, plr) == [shared EXCEPT ![k] = plr]
Erased(k) == [shared EXCEPT ![k] = Blank]

\* The login thread: idle, or in characterSelect with the Player it has loaded.
Pick == [cl : Client \cup {None}, copy : Player]
NoPick == [cl |-> None, copy |-> Blank]

\* The shard thread: idle, or between two locks of enterPlayer (kick, kicked),
\* killConnection (reaped) or periodicSaveTimer (saving).
ShardStep == {"idle", "kick", "kicked", "reaped", "saving"}
ShardThread ==
    [pc : ShardStep,
     cl : Client \cup {None},       \* whose packet or connection it handles
     old : Client \cup {None},      \* the session that is thrown out
     erase : Character \cup {None}, \* the key it still has to erase
     copy : Slot,                   \* enterPlayer's local plr
     todo : SUBSET Client]          \* the players it still has to save
Idle == [pc |-> "idle", cl |-> None, old |-> None, erase |-> None, copy |-> Absent, todo |-> {}]

Init ==
    /\ up = {}
    /\ loginSock = [cl \in Client |-> "none"]
    /\ loginUser = [cl \in Client |-> None]
    /\ pick = NoPick
    /\ key = [cl \in Client |-> None]
    /\ shared = [c \in Character |-> Blank]
    /\ shardSock = [cl \in Client |-> "none"]
    /\ entered = {}
    /\ players = [cl \in Client |-> Absent]
    /\ shard = Idle
    /\ db = [c \in Character |-> 0]
    /\ earned = [c \in Character |-> 0]
    /\ hasty = {}

-----------------------------------------------------------------------------
(***************************************************************************)
(* The client and the user behind it.                                      *)
(***************************************************************************)

\* The game is started and connects to the login server.
ClientStart(cl) ==
    /\ cl \notin up
    /\ loginSock[cl] = "none"
    /\ shardSock[cl] = "none"
    /\ up' = up \cup {cl}
    /\ loginSock' = [loginSock EXCEPT ![cl] = "open"]
    /\ UNCHANGED <<loginUser, pick, key, shared, shardVars, db, earned, hasty>>

\* The client connects to the shard it was told about.
ClientConnect(cl) ==
    /\ cl \in up
    /\ key[cl] # None
    /\ shardSock[cl] = "none"
    /\ shardSock' = [shardSock EXCEPT ![cl] = "open"]
    /\ UNCHANGED <<up, loginVars, key, shared, entered, players, shard, db, earned, hasty>>

\* The game is closed, crashes or loses its network: nothing tells the servers
\* yet, they find out in LoginHangup and ShardHangup.
ClientGone(cl) ==
    /\ cl \in up
    /\ up' = up \ {cl}
    /\ key' = [key EXCEPT ![cl] = None]
    /\ UNCHANGED <<loginVars, shared, shardVars, db, earned, hasty>>

-----------------------------------------------------------------------------
(***************************************************************************)
(* The login thread.                                                       *)
(***************************************************************************)

\* CNLoginServer::isAccountInUse looks at the login sessions only.
LiveLogin(a) == \E cl \in Client : loginUser[cl] = a /\ loginSock[cl] = "open"  \* mutant
LoginInUse(a) == \E cl \in Client : loginUser[cl] = a

Login(cl, a) ==
    /\ pick = NoPick
    /\ cl \in up
    /\ loginSock[cl] = "open"
    /\ ~LoginInUse(a)
    /\ loginUser' = [loginUser EXCEPT ![cl] = a]
    /\ UNCHANGED <<up, loginSock, pick, key, shared, shardVars, db, earned, hasty>>

\* A client that was refused asks to throw the other login session out.
DuplicateExit(a) ==
    /\ pick = NoPick
    /\ \E cl \in Client : cl \in up /\ loginSock[cl] = "open"
    /\ \E victim \in Client :
        /\ loginUser[victim] = a
        /\ loginSock[victim] = "open"
        /\ loginSock' = [loginSock EXCEPT ![victim] = "dead"]
    /\ UNCHANGED <<up, loginUser, pick, key, shared, shardVars, db, earned, hasty>>

\* The peer closed the connection, or onStep saw no heartbeat for 32 seconds.
LoginHangup(cl) ==
    /\ pick = NoPick
    /\ loginSock[cl] = "open"
    /\ loginSock' = [loginSock EXCEPT ![cl] = "dead"]
    /\ UNCHANGED <<up, loginUser, pick, key, shared, shardVars, db, earned, hasty>>

\* The poll loop finds the dead socket: killConnection, then the entry goes.
LoginReap(cl) ==
    /\ pick = NoPick
    /\ loginSock[cl] = "dead"
    /\ loginSock' = [loginSock EXCEPT ![cl] = "none"]
    /\ loginUser' = [loginUser EXCEPT ![cl] = None]
    /\ UNCHANGED <<up, pick, key, shared, shardVars, db, earned, hasty>>

\* Nothing of account a is left in the shard, in the hand-off or on its way there.
Settled(a) ==
    /\ \A cl \in Client : AccountOf(key[cl]) # a /\ AccountOf(players[cl].key) # a
    /\ AccountOf(shard.erase) # a
    /\ AccountOf(shard.copy.key) # a

\* Database::getPlayer: the row of the character becomes a Player.
LoadedAnew(c) == [char |-> c, val |-> 0]  \* mutant
Loaded(c) == [char |-> c, val |-> db[c]]

\* characterSelect up to Database::getPlayer: the character is the account's own.
SelectLoad(cl, c) ==
    /\ pick = NoPick
    /\ cl \in up
    /\ loginSock[cl] = "open"
    /\ loginUser[cl] = Owner[c]
    /\ key[cl] = None /\ shardSock[cl] = "none"
    /\ pick' = [cl |-> cl, copy |-> Loaded(c)]
    /\ hasty' = IF Settled(Owner[c]) THEN hasty ELSE hasty \cup {Owner[c]}
    /\ UNCHANGED <<up, loginSock, loginUser, key, shared, shardVars, db, earned>>

\* The rest of it: CNSharedData::setPlayer, then the key goes to the client.
SelectPublish ==
    /\ pick # NoPick
    /\ LET c == pick.copy.char
       IN  /\ shared' = Published(c, pick.copy)
           /\ key' = IF pick.cl \in up THEN [key EXCEPT ![pick.cl] = c] ELSE key
    /\ pick' = NoPick
    /\ UNCHANGED <<up, loginSock, loginUser, shardVars, db, earned, hasty>>

-----------------------------------------------------------------------------
(***************************************************************************)
(* The shard thread.                                                       *)
(***************************************************************************)

\* The players PlayerManager::isAccountInUse and exitDuplicate find.
SameCharacter(plr) == {cl \in Client : HasPlayer(cl) /\ players[cl].char = plr.char}  \* mutant
SameAccount(plr) ==
    {cl \in Client : HasPlayer(cl) /\ AccountOf(players[cl].char) = AccountOf(plr.char)}

\* CNSocket::kill: alive = false and the descriptor is closed; the poll loop has
\* yet to find it.
NotKilled(cl) == shardSock  \* mutant
Killed(cl) == [shardSock EXCEPT ![cl] = "dead"]

\* The end of removePlayer: the entry leaves PlayerManager::players.
NotRemoved(cl) == players  \* mutant
Blanked(cl) == [players EXCEPT ![cl] = Blank]  \* mutant
Removed(cl) == [players EXCEPT ![cl] = Absent]

\* enterPlayer up to isAccountInUse: it takes its copy first.  A key that is not
\* in the table gives a Player{}.
EnterFetch(cl) ==
    /\ shard = Idle
    /\ cl \in up
    /\ shardSock[cl] = "open"
    /\ key[cl] # None
    /\ cl \notin entered
    /\ LET plr == shared[key[cl]]
       IN  \/ /\ SameAccount(plr) = {}
              /\ players' = [players EXCEPT ![cl] = WithKey(plr, key[cl])]
              /\ entered' = entered \cup {cl}
              /\ UNCHANGED shard
           \/ \E old \in SameAccount(plr) :
              /\ shard' = [Idle EXCEPT !.pc = "kick", !.cl = cl, !.old = old,
                                       !.copy = WithKey(plr, key[cl])]
              /\ UNCHANGED <<players, entered>>
    /\ key' = [key EXCEPT ![cl] = None]
    /\ UNCHANGED <<up, loginVars, shared, shardSock, db, earned, hasty>>

\* exitDuplicate: the other socket is killed, its player saved and removed.
KickSave ==
    /\ shard.pc = "kick"
    /\ shardSock' = Killed(shard.old)
    /\ db' = Stored(players[shard.old])
    /\ players' = Removed(shard.old)
    /\ shard' = [shard EXCEPT !.pc = "kicked", !.erase = players[shard.old].key]
    /\ UNCHANGED <<up, loginVars, key, shared, entered, earned, hasty>>

\* The end of exitDuplicate erases the other session's key; enterPlayer then
\* goes on and adds the copy it took.
KickedEnter ==
    /\ shard.pc = "kicked"
    /\ shared' = Erased(shard.erase)
    /\ players' = [players EXCEPT ![shard.cl] = shard.copy]
    /\ entered' = entered \cup {shard.cl}
    /\ shard' = Idle
    /\ UNCHANGED <<up, loginVars, key, shardSock, db, earned, hasty>>

\* Any packet that advances the character.
Play(cl) ==
    /\ shard = Idle
    /\ cl \in up
    /\ shardSock[cl] = "open"
    /\ HasPlayer(cl)
    /\ players[cl].char # None
    /\ earned[players[cl].char] < MaxProgress
    /\ players' = [players EXCEPT ![cl].val = @ + 1]
    /\ earned' = [earned EXCEPT ![players[cl].char] = @ + 1]
    /\ UNCHANGED <<up, loginVars, key, shared, shardSock, entered, shard, db, hasty>>

\* The peer closed the connection, or keepAliveTimer, which visits the players
\* only, heard nothing for TIMEOUT.
ShardHangup(cl) ==
    /\ shard = Idle
    /\ shardSock[cl] = "open"
    /\ cl \notin up \/ HasPlayer(cl)
    /\ shardSock' = Killed(cl)
    /\ UNCHANGED <<up, loginVars, key, shared, entered, players, shard, db, earned, hasty>>

\* The poll loop finds a dead socket.  Without a player the connection is just
\* deleted; with one, killConnection saves and removes it first ...
Reap(cl) ==
    /\ shard = Idle
    /\ shardSock[cl] = "dead"
    /\ IF HasPlayer(cl)
       THEN /\ db' = Stored(players[cl])
            /\ shard' = [Idle EXCEPT !.pc = "reaped", !.cl = cl, !.erase = players[cl].key]
            /\ UNCHANGED <<shardSock, entered>>
       ELSE /\ shardSock' = [shardSock EXCEPT ![cl] = "none"]
            /\ entered' = entered \ {cl}
            /\ UNCHANGED <<db, shard>>
    /\ players' = Removed(cl)
    /\ UNCHANGED <<up, loginVars, key, shared, earned, hasty>>

\* ... and then erases its key; the connection goes.
ReapErase ==
    /\ shard.pc = "reaped"
    /\ shared' = Erased(shard.erase)
    /\ shardSock' = [shardSock EXCEPT ![shard.cl] = "none"]
    /\ entered' = entered \ {shard.cl}
    /\ shard' = Idle
    /\ UNCHANGED <<up, loginVars, key, players, db, earned, hasty>>

\* periodicSaveTimer walks over the players and saves each under dbCrit.
SaveStart ==
    /\ shard = Idle
    /\ \E cl \in Client : HasPlayer(cl)
    /\ shard' = [Idle EXCEPT !.pc = "saving", !.todo = {cl \in Client : HasPlayer(cl)}]
    /\ UNCHANGED <<up, loginVars, key, shared, shardSock, entered, players, db, earned, hasty>>

SaveOne(cl) ==
    /\ shard.pc = "saving"
    /\ cl \in shard.todo
    /\ db' = Stored(players[cl])
    /\ shard' = IF shard.todo = {cl} THEN Idle ELSE [shard EXCEPT !.todo = @ \ {cl}]
    /\ UNCHANGED <<up, loginVars, key, shared, shardSock, entered, players, earned, hasty>>

-----------------------------------------------------------------------------

\* The process dies and is started again: the database is all that is left.
\* No client survives it, the hand-off included.
Crash ==
    /\ up' = {}
    /\ loginSock' = [cl \in Client |-> "none"]
    /\ loginUser' = [cl \in Client |-> None]
    /\ pick' = NoPick
    /\ key' = [cl \in Client |-> None]
    /\ shared' = [c \in Character |-> Blank]
    /\ shardSock' = [cl \in Client |-> "none"]
    /\ entered' = {}
    /\ players' = [cl \in Client |-> Absent]
    /\ shard' = Idle
    /\ earned' = db
    /\ UNCHANGED <<db, hasty>>

ClientStep(cl) == ClientStart(cl) \/ ClientConnect(cl) \/ ClientGone(cl)

LoginStep(cl) ==
    \/ LoginHangup(cl)
    \/ LoginReap(cl)
    \/ \E a \in Account : Login(cl, a)
    \/ \E c \in Character : SelectLoad(cl, c)

ShardPoll(cl) ==
    \/ EnterFetch(cl)
    \/ Play(cl)
    \/ ShardHangup(cl)
    \/ Reap(cl)
    \/ SaveOne(cl)

Next ==
    \/ \E cl \in Client : ClientStep(cl) \/ LoginStep(cl) \/ ShardPoll(cl)
    \/ \E a \in Account : DuplicateExit(a)
    \/ SelectPublish
    \/ KickSave
    \/ KickedEnter
    \/ ReapErase
    \/ SaveStart
    \/ Crash

Spec == Init /\ [][Next]_vars

(***************************************************************************)
(* What the threads do by themselves.  An iteration of a poll loop visits  *)
(* every descriptor that is ready, and a closed one always is, whatever    *)
(* the timers and the other connections do between two iterations: hence   *)
(* SF on noticing and reaping.  What a handler has begun it ends: WF.      *)
(* Nothing is assumed of users, and a client that stays up may idle.       *)
(***************************************************************************)
Noticed(cl) == ShardHangup(cl) /\ cl \notin up

Fairness ==
    /\ WF_vars(SelectPublish)
    /\ WF_vars(KickSave)
    /\ WF_vars(KickedEnter)
    /\ WF_vars(ReapErase)
    /\ \A cl \in Client :
        /\ WF_vars(SaveOne(cl))
        /\ SF_vars(Noticed(cl))
        /\ SF_vars(Reap(cl))

FairSpec == Spec /\ Fairness

-----------------------------------------------------------------------------
(***************************************************************************)
(* Properties.                                                             *)
(***************************************************************************)

\* The types of the variables.
TypeOK ==
    /\ up \subseteq Client
    /\ loginSock \in [Client -> SockState]
    /\ loginUser \in [Client -> Account \cup {None}]
    /\ pick \in Pick
    /\ key \in [Client -> Character \cup {None}]
    /\ shared \in [Character -> Player]
    /\ shardSock \in [Client -> SockState]
    /\ entered \subseteq Client
    /\ players \in [Client -> Slot]
    /\ shard \in ShardThread
    /\ db \in [Character -> Progress]
    /\ earned \in [Character -> Progress]
    /\ hasty \subseteq Account

\* isAccountInUse and exitDuplicate (PlayerManager.cpp:217-220) keep an account,
\* the missing account of a Player{} included, from being in the game twice,
\* although the socket is found, killed and replaced in separate steps.
OneSessionPerAccount ==
    \A c1, c2 \in Client :
        HasPlayer(c1) /\ HasPlayer(c2) /\ AccountOf(players[c1].char) = AccountOf(players[c2].char)
            => c1 = c2

\* At most one login connection holds an account, also while a thrown-out one
\* waits to be reaped (CNLoginServer.cpp:172, 621-625).
OneLoginPerAccount ==
    \A c1, c2 \in Client : loginUser[c1] = loginUser[c2] /\ loginUser[c1] # None => c1 = c2

\* PlayerManager::getPlayer's "this should never happen" (PlayerManager.cpp:599):
\* as long as the socket of a client that has entered is alive, and its packets
\* are handled, there is a player behind it.
GetPlayerNeverAsserts ==
    \A cl \in entered : shardSock[cl] = "open" => HasPlayer(cl)

\* A player never outlives its CNSocket, which keepAliveTimer and every
\* broadcast dereference (PlayerManager::players is keyed by the pointer), and
\* only who has sent a PC_ENTER has one.
NoDanglingSocket ==
    /\ \A cl \in Client : HasPlayer(cl) => cl \in entered
    /\ \A cl \in entered : shardSock[cl] # "none"

\* What holds while a handler is between two locks: the client being entered is
\* still alive and not yet in the game, the session it throws out is the last
\* one of its account, and nothing else took the place of what is being removed
\* (enterPlayer, exitDuplicate, _killConnection and periodicSaveTimer use what
\* they found before they waited for the lock).
HandlerInv ==
    /\ shard.pc \in {"kick", "kicked"} =>
        /\ shard.cl \in Client \ entered
        /\ shardSock[shard.cl] = "open"
        /\ shard.copy.key # None
    /\ shard.pc = "kick" => shard.old \in SameAccount(shard.copy)
    /\ shard.pc = "kicked" => shard.erase # None /\ SameAccount(shard.copy) = {}
    /\ shard.pc = "reaped" =>
        /\ shard.erase # None
        /\ shard.cl \in Client
        /\ shardSock[shard.cl] = "dead" /\ ~HasPlayer(shard.cl)
    /\ \A cl \in shard.todo : shard.pc = "saving" /\ HasPlayer(cl)

\* Every progress a character has earned is in its session while it is played
\* and in the database otherwise: login never resumes a stale copy and nothing
\* that was earned is saved over.
Playing(c) == {cl \in Client : HasPlayer(cl) /\ players[cl].char = c}
Kept(c) ==
    /\ \A cl \in Playing(c) : players[cl].val = earned[c]
    /\ Playing(c) = {} => db[c] = earned[c]
NothingLost == \A c \in Character : Kept(c)

\* Only an account's own overlapping sessions cost it anything: as long as it has
\* had none, all its characters earned is kept, whatever other accounts' sessions
\* overlap, are thrown out in the middle of a hand-off, saved or reaped.
LostByHasteOnly == \A c \in Character : Owner[c] \notin hasty => Kept(c)

\* Somebody is in the game as a Player{} only after such an overlap of the account
\* of the key it entered with: of any other key that was handed out, and not used
\* yet, CNSharedData still has the copy.
PhantomByHasteOnly ==
    \A cl \in Client :
        HasPlayer(cl) /\ AccountOf(players[cl].key) \notin hasty => players[cl].char # None

\* A client that is gone is eventually out of the game, and with that saved:
\* it cannot keep its account's character in the game for ever.
GoneIsReaped == \A cl \in Client : cl \notin up ~> ~HasPlayer(cl)

Void == {c \in Character : Owner[c] \in hasty}
Shown(c) == c \notin Void /\ Playing(c) # {}
Store == INSTANCE SaveStore WITH
    online <- {c \in Character : Shown(c)},
    live <- [c \in Character |-> IF Shown(c) THEN players[CHOOSE cl \in Playing(c) : TRUE].val ELSE 0],
    stored <- [c \in Character |-> IF c \in Void THEN 0 ELSE db[c]],
    void <- Void

\* The two servers implement SaveStore: a session resumes what is stored and
\* removing it stores it, for every account whose sessions never overlapped.
StoreSpec == Store!Spec

=============================================================================
