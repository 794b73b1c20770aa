---------------------------- MODULE Characters ----------------------------
(***************************************************************************)
(* Accounts and characters in the database (CNLoginServer.cpp, db/login,   *)
(* db/player, the bans of db/shard).  The login server creates, finishes,  *)
(* renames and deletes characters while the shard plays its own copies of  *)
(* them and saves these over the database.  Session has how the two        *)
(* servers hand a player over; here a character that plays is not entered  *)
(* again.                                                                  *)
(*                                                                         *)
(* A statement may fail (a full disk, no memory) or be refused by a        *)
(* constraint.  SQLite then undoes the statement alone, or the whole       *)
(* transaction; then the statements after it are on their own, each        *)
(* committed by itself.  The code looks at the result of every INSERT and  *)
(* UPDATE of a transaction and rolls it back, but not at that of           *)
(* updatePlayer's four DELETEs, nor of COMMIT.  A COMMIT that fails is     *)
(* taken to have been undone by SQLite: that holds of a disk's failures,   *)
(* and no other process is assumed to use the file, whose lock would leave *)
(* the transaction open.                                                   *)
(*                                                                         *)
(* What a player has is the stamp of the step that changed it last and     *)
(* the unique rows it fills: the slots of the clothes and of the           *)
(* tutorial's gun, the nano of the tutorial.  Players is assumed to have   *)
(* the column BankOwnership, which sql/tables.sql does not create: without *)
(* it no character can be loaded at all.                                   *)
(***************************************************************************)
EXTENDS Players, Integers, Sequences, FiniteSets, TLC

CONSTANTS
    Login,          \* the logins with which accounts are made
    Gm,             \* the accounts whose AccountLevel is 30 or less
    Name,           \* first and last name, as COLLATE NOCASE compares them
    CharSlot,       \* 1..4 in the code
    MaxId,          \* bound: characters ever created
    MaxStamp,       \* bound: changes ever made
    MaxAway,        \* bound: characters handed over or played at a time
    Fragile,        \* bound: the characters of which a DELETE may fail, once
    Failing         \* bound: the parts whose DELETE may fail

VARIABLES
    accounts,       \* Accounts: login -> Selected, banned; None before it exists
    loginSessions,  \* the logins that have one
    db,             \* PlayerID -> its rows
    passed,         \* CNSharedData: id -> the Player read by characterSelect, or None
    played,         \* PlayerManager::players: id -> its Player, or None
    nextId,         \* AUTOINCREMENT
    clock,
    named,          \* ghost: the name that was last given to a character
    torn            \* ghost: the characters of which a failed DELETE went unnoticed

\* The columns of Players that the login server alone writes.
Row == [account: Login, slot: CharSlot, name: Name, appearance: BOOLEAN, tutorial: BOOLEAN]

\* What is kept of an account.
Account == [selected: CharSlot, banned: BOOLEAN]

ASSUME CharactersAssumption ==
    /\ None \notin Row /\ None \notin Account /\ 1 \in CharSlot
    /\ MaxId \in Nat /\ MaxStamp \in Nat
    /\ Failing \subseteq {"Inventory", "QuestItems", "Nanos", "RunningQuests"}

charVars == <<accounts, loginSessions, db, passed, played, nextId, clock, named, torn>>

Id == 1 .. MaxId

\* The tables updatePlayer writes, in its order, and the rows of them that count.
Parts == <<"Players", "Inventory", "QuestItems", "Nanos", "RunningQuests">>
Part == {Parts[i] : i \in DOMAIN Parts}
Unique == "Inventory" :> {"clothes", "gun"} @@ "Nanos" :> {"Buttercup"}
RowsIn(part, has) == IF part \in DOMAIN Unique THEN has \cap Unique[part] ELSE {}

Snapshot(has) == [part \in Part |-> [stamp |-> clock, has |-> RowsIn(part, has)]]
Owned(parts) == UNION {parts[part].has : part \in Part}
FirstWritten(old, new, k) ==
    [part \in Part |-> IF \E i \in 1 .. k : Parts[i] = part THEN new[part] ELSE old[part]]

\* look: the row of Appearances; parts: what the shard saves.
Nobody == [row |-> None, look |-> FALSE,
           parts |-> [part \in Part |-> [stamp |-> 0, has |-> {}]]]
There(id) == db[id].row # None
Own(a, id) == a \in loginSessions /\ id \in Id /\ There(id) /\ db[id].row.account = a

isNameFree(name) == \A id \in Id : There(id) => db[id].row.name # name
isSlotFree(a, s) == \A id \in Id : There(id) => ~(db[id].row.account = a /\ db[id].row.slot = s)
PlayedBy(a) == \E id \in Id : played[id] # None /\ played[id].row.account = a

\* A transaction whose every result but COMMIT's is looked at: the rows before it,
\* those after each statement but the last, and those after the last.
PartKept(before, now) == now  \* mutant
RolledBack(before, now) == before
Failures(before, partial) == {RolledBack(before, now) : now \in {before} \cup partial}
Outcomes(before, partial, after) == Failures(before, partial) \cup {after}
CommitLost == UNCHANGED db  \* and the caller is told that all went well
Write(id, outcomes) == \E d \in outcomes : db' = [db EXCEPT ![id] = d]

CharactersInit ==
    /\ accounts = [a \in Login |-> None] /\ loginSessions = {}
    /\ db = [id \in Id |-> Nobody]
    /\ passed = [id \in Id |-> None] /\ played = [id \in Id |-> None]
    /\ nextId = 1 /\ clock = 0 /\ named = [id \in Id |-> None] /\ torn = {}

-----------------------------------------------------------------------------
(***************************************************************************)
(* Accounts.                                                               *)
(***************************************************************************)
newAccount(a) ==
    /\ accounts[a] = None
    /\ accounts' = [accounts EXCEPT ![a] = [selected |-> 1, banned |-> FALSE]]
    /\ loginSessions' = loginSessions \cup {a}
    /\ UNCHANGED <<db, passed, played, nextId, clock, named, torn>>

login(a) ==
    /\ accounts[a] # None /\ ~accounts[a].banned /\ a \notin loginSessions
    /\ loginSessions' = loginSessions \cup {a}
    /\ UNCHANGED <<accounts, db, passed, played, nextId, clock, named, torn>>

\* killConnection: it left for the shard, closed the game, was thrown out.
Logout(a) ==
    /\ a \in loginSessions
    /\ loginSessions' = loginSessions \ {a}
    /\ UNCHANGED <<accounts, db, passed, played, nextId, clock, named, torn>>

\* /ban and /unban name a character, and mean its account until its next login; the
\* character, if it plays, is disconnected (its leaving is a step of its own).
banPlayer(id) ==
    /\ There(id) /\ db[id].row.account \notin Gm
    /\ accounts' = [accounts EXCEPT ![db[id].row.account].banned = TRUE]
    /\ UNCHANGED <<loginSessions, db, passed, played, nextId, clock, named, torn>>
unbanPlayer(id) ==
    /\ There(id)
    /\ accounts' = [accounts EXCEPT ![db[id].row.account].banned = FALSE]
    /\ UNCHANGED <<loginSessions, db, passed, played, nextId, clock, named, torn>>

-----------------------------------------------------------------------------
(***************************************************************************)
(* Characters, at the login server.                                        *)
(***************************************************************************)
Selected(a, s) == accounts' = [accounts EXCEPT ![a].selected = s]

\* nameSave: the name and the slot are free, createCharacter writes two tables.
nameSave(a, s, name) ==
    LET row == [account |-> a, slot |-> s, name |-> name, appearance |-> FALSE, tutorial |-> FALSE]
        one == [row |-> row, look |-> FALSE, parts |-> Snapshot({})]
        both == [one EXCEPT !.look = TRUE]
    IN
    /\ a \in loginSessions /\ nextId \in Id /\ isNameFree(name) /\ isSlotFree(a, s)
    /\ \/ Write(nextId, {both}) /\ Selected(a, s)
          /\ nextId' = nextId + 1 /\ named' = [named EXCEPT ![nextId] = name]
       \/ Write(nextId, Failures(Nobody, {one})) /\ UNCHANGED <<accounts, nextId, named>>
       \/ CommitLost /\ Selected(a, s) /\ UNCHANGED <<nextId, named>>
    /\ UNCHANGED <<loginSessions, passed, played, clock, torn>>

\* Rows that are there already refuse the whole transaction: nothing else does, for
\* the flags in the WHERE clauses only spare the columns of Players.
Added(d, table, rows) == [d EXCEPT !.parts[table].has = @ \cup rows]
Stamped(d, k) ==
    LET now == [part \in Part |-> [d.parts[part] EXCEPT !.stamp = clock]]
    IN  [d EXCEPT !.parts = FirstWritten(d.parts, now, k)]

finishCharacter(a, id) ==
    LET d == db[id]
        flagged == [Stamped(d, 1) EXCEPT !.row.appearance = TRUE]
        dressed == Stamped(Added(flagged, "Inventory", {"clothes"}), 5)
    IN
    /\ Own(a, id)
    /\ \/ Write(id, Failures(d, {flagged})) /\ UNCHANGED accounts
       \/ /\ "clothes" \notin Owned(d.parts)
          /\ Write(id, {dressed}) \/ CommitLost
          /\ Selected(a, d.row.slot)
    /\ UNCHANGED <<loginSessions, passed, played, nextId, clock, named, torn>>

finishTutorial(a, id) ==
    LET d == db[id]
        flagged == [Stamped(d, 1) EXCEPT !.row.tutorial = TRUE]
        armed == Stamped(Added(flagged, "Inventory", {"gun"}), 2)
        ready == Stamped(Added(armed, "Nanos", {"Buttercup"}), 5)
    IN
    /\ Own(a, id)
    /\ IF {"gun", "Buttercup"} \cap Owned(d.parts) # {}
       THEN Write(id, Failures(d, {flagged, armed}))
       ELSE Write(id, Outcomes(d, {flagged, armed}, ready))
    /\ UNCHANGED <<accounts, loginSessions, passed, played, nextId, clock, named, torn>>

changeName(a, id, name) ==
    /\ Own(a, id) /\ isNameFree(name)
    /\ db' = [db EXCEPT ![id].row.name = name] /\ named' = [named EXCEPT ![id] = name]
    /\ UNCHANGED <<accounts, loginSessions, passed, played, nextId, clock, torn>>

\* Every table refers to Players ON DELETE CASCADE.
characterDelete(a, id) ==
    /\ Own(a, id)
    /\ db' = [db EXCEPT ![id] = Nobody] /\ named' = [named EXCEPT ![id] = None]
    /\ UNCHANGED <<accounts, loginSessions, passed, played, nextId, clock, torn>>

\* validateCharacter has found the row; getPlayer joins it with its appearance.
characterSelect(a, id) ==
    /\ Own(a, id)
    /\ Cardinality({i \in Id \ {id} : passed[i] # None \/ played[i] # None}) < MaxAway
    /\ db[id].look
    /\ passed' = [passed EXCEPT ![id] = [row |-> db[id].row, parts |-> db[id].parts]]
    /\ Selected(a, db[id].row.slot)
    /\ UNCHANGED <<loginSessions, db, played, nextId, clock, named, torn>>

-----------------------------------------------------------------------------
(***************************************************************************)
(* Characters, at the shard.                                               *)
(***************************************************************************)
EnterShard(id) ==
    /\ passed[id] # None /\ ~PlayedBy(passed[id].row.account)
    /\ played' = [played EXCEPT ![id] = passed[id]]
    /\ passed' = [passed EXCEPT ![id] = None]
    /\ UNCHANGED <<accounts, loginSessions, db, nextId, clock, named, torn>>

\* Something changes, and what was worn may be put away: nanos are kept for good.
Plays(id) ==
    /\ played[id] # None /\ clock < MaxStamp
    /\ clock' = clock + 1
    /\ \E has \in {Owned(played[id].parts), Owned(played[id].parts) \cap Unique["Nanos"]} :
        played' = [played EXCEPT ![id].parts =
            [part \in Part |-> [stamp |-> clock', has |-> RowsIn(part, has)]]]
    /\ UNCHANGED <<accounts, loginSessions, db, passed, nextId, named, torn>>

\* updatePlayer.  The UPDATE leaves alone what the login server owns, and of a
\* deleted character there is no row to update and none to refer to.
NamedToo(id, d) == [d EXCEPT !.row = played[id].row]  \* mutant
Unnamed(id, d) == d
Rewritten(id, k) ==
    [Unnamed(id, db[id]) EXCEPT !.parts = FirstWritten(db[id].parts, played[id].parts, k)]

\* The parts from i to k written, with the old rows of those in kept still there, and
\* of the last part only some rows.
Mixed(old, new, i, k, kept, last) ==
    [part \in Part |->
        IF part \notin {Parts[j] : j \in i .. k} THEN old[part]
        ELSE [new[part] EXCEPT !.has = (IF part = Parts[k] THEN last ELSE @)
                                       \cup (IF part \in kept THEN old[part].has ELSE {})]]

\* DELETEs of the parts in kept fail.  If only they are undone, everything else is
\* written (i = 1).  If SQLite undoes the transaction, at part i, what went before is
\* undone with it and what comes after stays, up to the INSERT that fails and ends it.
\* An old row in the place of a new one makes the INSERT fail.
DeleteIgnored(id) ==
    LET old == db[id].parts
        new == played[id].parts
    IN
    /\ id \in Fragile \ torn
    /\ \E i \in 1 .. 5 : \E k \in i .. 5 :
       \E kept \in SUBSET (Failing \cap {Parts[j] : j \in i .. k}) \ {{}}, last \in SUBSET new[Parts[k]].has :
        /\ IF i = 1 THEN k = 5 /\ last = new[Parts[5]].has
           ELSE Parts[i] \in kept
        /\ \A part \in kept \ {Parts[k]} : old[part].has \cap new[part].has = {}
        /\ Parts[k] \in kept => old[Parts[k]].has \cap last = {}
        /\ db' = [db EXCEPT ![id].parts = Mixed(old, new, i, k, kept, last)]
    /\ torn' = torn \cup {id}

updatePlayer(id) ==
    IF There(id)
    THEN \/ /\ Write(id, Outcomes(db[id], {Rewritten(id, k) : k \in 1 .. 4}, Rewritten(id, 5)))
            /\ UNCHANGED torn
         \/ DeleteIgnored(id)
    ELSE UNCHANGED <<db, torn>>

Save(id) ==
    /\ played[id] # None /\ updatePlayer(id)
    /\ UNCHANGED <<accounts, loginSessions, passed, played, nextId, clock, named>>

\* removePlayer saves, and deletes the player whether that went well or not.
LeaveShard(id) ==
    /\ played[id] # None /\ updatePlayer(id)
    /\ played' = [played EXCEPT ![id] = None]
    /\ UNCHANGED <<accounts, loginSessions, passed, nextId, clock, named>>

AtLogin == \E a \in Login :
    \/ newAccount(a) \/ login(a) \/ Logout(a)
    \/ \E s \in CharSlot, name \in Name : nameSave(a, s, name)
    \/ \E id \in Id :
        \/ finishCharacter(a, id) \/ finishTutorial(a, id) \/ characterSelect(a, id)
        \/ characterDelete(a, id) \/ \E name \in Name : changeName(a, id, name)
AtShard == \E id \in Id :
    EnterShard(id) \/ Plays(id) \/ Save(id) \/ LeaveShard(id) \/ banPlayer(id) \/ unbanPlayer(id)
CharactersNext == AtLogin \/ AtShard

-----------------------------------------------------------------------------
(***************************************************************************)
(* Properties.                                                             *)
(***************************************************************************)
CharactersTypeOK ==
    /\ \A a \in Login : accounts[a] # None => accounts[a].selected \in CharSlot
    /\ loginSessions \subseteq {a \in Login : accounts[a] # None}
    /\ nextId \in 1 .. MaxId + 1 /\ clock \in 0 .. MaxStamp
    /\ \A id \in Id : /\ There(id) => id < nextId
                      /\ \A part \in Part : db[id].parts[part].stamp \in 0 .. MaxStamp

\* No row is left of a character that does not exist or was only half created (its
\* slot could not be chosen nor used again), whatever statement fails, and what is
\* stored of one is one whole snapshot of it: only a DELETE of its own save that failed
\* unnoticed ever mixes two.
SavedWhole ==
    \A id \in Id : LET d == db[id] IN
        /\ d.look <=> There(id)
        /\ ~There(id) => d = Nobody
        /\ id \notin torn => \A p, q \in Part : d.parts[p].stamp = d.parts[q].stamp

\* A character has the name it was given last, whatever copy of it, read before it
\* was renamed, is played and saved meanwhile.
NamesKept ==
    \A id \in Id : There(id) => db[id].row.name = named[id]
=============================================================================
