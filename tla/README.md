# OpenRetro in TLA+

A model of the game server in `src/`: TLA+ modules translated from its C++
code, TLC configurations that check them on small instances, and theorems that
TLAPS proves for every value of the constants.

## 1. The system

The server is one process with two threads, each running the poll loop of
`CNServer::start` (`core/CNProtocol.cpp`): the **login server** (`servers/CNLoginServer.cpp`)
and the **shard server** (`servers/CNShardServer.cpp`). A poll loop handles one packet,
one new connection or one dead connection at a time and ends each round with its
timers, so handlers of one thread never interleave with each other. The two
threads share two things, each under a mutex: the hand-off table `CNSharedData`
(`playerCrit`) and the SQLite database (`dbCrit`). Everything else belongs to one
thread; most of it, the whole game, to the shard's.

| component | state it keeps | operations | what is hard | what makes it correct |
|---|---|---|---|---|
| sessions (`CNLoginServer`, `CNShardServer`, `PlayerManager`, `CNShared`, `db/player`) | login sessions, hand-off copies, `PlayerManager::players`, rows of `Players` | login, select, enter, save, kick a duplicate, time out, leave | two threads between locks, duplicates, vanishing clients, crashes | one session per account, nothing earned is lost, no stale copy, no dangling pointer |
| accounts and characters (`CNLoginServer`, `db/login`, `db/player`, `db/shard`) | `Accounts`, the five tables of a character | register, create, finish, rename, delete, select, save, ban | transactions that fail in the middle, copies that are older than the row | whole characters, names that stay |
| connection loop (`CNProtocol`) | `connections`, `fds`, sockets | accept, step, kill, reap, timers | removal while iterating, descriptors that are reused | every socket polled, none used after delete, the dead are removed |
| groups (`Groups`) | `iIDGroup`, `groupIDs`, `groupCnt` of each player | invite, refuse, join, leave, disconnect | late answers, leaders leaving, arrays shifted in place | the two views of a group agree |
| group buffs (`Groups`, `Abilities`, `Nanos`) | three condition bit sets per player, the active nano | summon, join, leave | several givers of one bit | a buff is shown while something gives it |
| trading (`Trading`) | two flags, an offer and an inventory per player | offer, accept, refuse, register, confirm, cancel | requests that name the partner, belongings that change meanwhile | what was confirmed is exchanged, exactly |
| items, vendors (`Items`, `Vendor`) | equipment, inventory, banks, `money`, buyback, batteries | move, delete, use, open, buy, sell, combine | stacks that merge and split, statistics computed from what is worn | nothing is made out of nothing, statistics are current |
| email (`Email`, `db/email`) | mails and attachments in the database, inventory in memory | send, read, receive, delete | two stores, full inventories, rows that outlive a mail | nothing is made twice, debts stay bounded |
| missions (`Missions`) | six task slots, counters, quest items, fusion matter | start, progress, complete, quit, fail | slots that are moved, rewards that do not fit | the three arrays of a player fit each other |
| chunks, instances, transport, races (`Chunking`, `NPCManager`, `PlayerManager`, `Transport`, `Racing`) | which player and NPC is where, `playersInView`, copies of lairs | move, warp, ride, race, recall, create, destroy | counters kept by increments in many handlers, cached pointers | counters equal the sets they count, instances last as long as they are used |
| mobs, combat (`MobAI`, `Combat`, `Abilities`) | a state machine per mob, its target's socket, projectiles | aggro, hit, debuff, retreat, die, respawn, summon | targets that leave or die between ticks, packs | no dead or absent target |
| nanos, eggs, timed buffs (`Nanos`, `Eggs`, `Combat`) | equipped nanos, stamina, conditions, timers per socket | equip, tune, use, wear out, pick up, expire, revive | bits with several sources, timers against removal | a buff ends |
| buddies (`Buddies`, `db/shard`) | two lists of fifty, two clients, rows | ask, accept, block, remove, synchronise | five copies updated by hand | they agree |
| shutdown (`main.cpp`) | `active`, the locks | SIGINT | a signal handler that takes locks | it ends, and saves |
| chat, commands, monitor, table data, settings, packet tables, wire structures | little state, I/O or generated tables | | | |

Components call each other directly, on the shard thread: `enterPlayer` and
`removePlayer` reach into groups, chunks, races and eggs; `summonNano` walks over a
group; timers visit all players and mobs. Clients are connected to it all by packets.
We model a client that follows the game's own dialogs (it answers an invitation
it has received, once; it names a slot it has been shown), whose answers may be
arbitrarily late and which may vanish at any moment. What only the client sees to, and the
server does not ask, is a guard of the model: one `PC_ENTER` on a connection (`EnterFetch`),
purchases of what a vendor lists in positive amounts (`VendorBuyItem`), a croc pot that is
given items of different places (`Combine`), a scamper, warp or race start from where the client
offers it (`Scamper`, `WarpInside`, `StartRace`).

`PROJECT.json` lists every hazard of this kind we know of at its line; the
properties below are aimed at them.

## 2. The modules

| module | models | on top of | proofs |
|---|---|---|---|
| `SaveStore` | abstract: what a player is promised about a character | | |
| `Session` | both servers, the hand-off and the database | refines `SaveStore` | `SessionProofs` |
| `Characters` | accounts and characters as tables, transactions and their failures | `Players` | `CharactersProofs` |
| `EventLoop` | the poll loop with descriptors | | `EventLoopProofs` |
| `Groups` | `Groups.cpp` without buffs | `Online` | `MeetingsProofs` |
| `GroupBuffs` | groups with the passive buffs of nanos | `Groups` | `MeetingsProofs` |
| `Trading` | `Trading.cpp`, with `vendorBuy` and `itemDeleteHandler` around it | `Online`, `Inventory` | `MeetingsProofs` |
| `Belongings` | `Items.cpp` and `Vendor.cpp` for one player | `Inventory` | `GoodsProofs` |
| `Mail` | `Email.cpp` and `db/email.cpp` | `Inventory` | `GoodsProofs` |
| `Missions` | `Missions.cpp` for one player | `Inventory` | `GoodsProofs` |
| `Buddies` | `Buddies.cpp` with its tables and clients | `Players` | `CharactersProofs` |
| `Chunks` | `Chunking.cpp`, NPCs, warps, the Skyway, races, recalls, teleports | `Players` | `WorldProofs` |
| `Mobs` | `MobAI.cpp` and what players and mobs do to each other | `Players` | `WorldProofs` |
| `Effects` | nanos, eggs, gumballs, goo, debuffs, ticks and revival of one player | `Players` | `EffectsProofs` |

`DataLemmas` has the facts about numbers, sequences, recursion, sums and folds that
several proofs cite. `MeetingsProofs` and `WorldProofs` also prove about the compositions
`MCMeetings` and `MCWorld`.

`Players` and `Online` declare who there is and who is in the game, `Inventory` a
stack of items, a place and the free places. An operator marked `mutant` is a
plausible slip in the definition that follows it; `PROJECT.json` says which property
notices which slip.

`MCSession`, `MCEventLoop`, `MCGroupBuffs` and `MCTrading` hold constants of one module's instance.
The other MC modules compose: `MCMeetings` joins groups with buffs and trades, in which
players enter and leave for both at once; `MCGoods` joins belongings, mail, missions,
buddies and characters; `MCWorld` joins chunks, mobs and effects. Where components
share no variable their product only multiplies states, so a variable (`focus`,
`meeting`), chosen at the start and never changed, says which part a behaviour explores.

### Session

A step is what one thread does between two acquisitions of a lock the other
thread also takes. So `characterSelect` is two steps, `SelectLoad` (`Database::getPlayer`)
and `SelectPublish` (`CNSharedData::setPlayer`); `enterPlayer` is `EnterFetch`, and if the
account is in the game already `KickSave` (`exitDuplicate` up to the save in `removePlayer`)
and `KickedEnter` (`erasePlayer`, then `addPlayer`); reaping a dead connection is `Reap` and
`ReapErase`; the periodic save is `SaveStart` and a `SaveOne` per player. The variable `shard`
is the program counter of the shard thread with the locals it keeps over such a wait,
`pick` that of the login thread.

A `Player` is the character it was loaded from and a counter of progress. The counter
stands for every field of the row: which copy is newer is all the properties need.
`Player{}`, which `CNSharedData::getPlayer` returns for a missing key, is `Blank`.
`earned` and `hasty` are history variables: the progress each character has earned and no crash
has taken away, and the accounts of which a character was picked while an earlier session of
theirs was in the game, being removed or being handed over. A connection stands for its `CNSocket`, so the model assumes that no
descriptor is reused too early: that is the subject of `EventLoop`. What a save
consists of, and that it can fail, is the subject of `Characters`.

### Characters

The login server's packets and the shard's saves, each one transaction under `dbCrit`.
Where the code looks at a statement's result and rolls back, a transaction is given by the
rows before it, after its last statement, and after those a failing one follows (`Failures`,
`Outcomes`). It does not look at the results of `COMMIT` (`CommitLost`: nothing is written and the
caller is told that all went well) nor of the four `DELETE`s of `updatePlayer`: after one that fails
the old rows of its table stay, the `INSERT`s that follow meet them or mix with them (`Mixed`), and
if SQLite has ended the transaction, what follows is committed statement by statement.
`torn` is a history variable: the characters this has happened to. A
character is its row of `Players`, its `Appearances` and five `parts` that `updatePlayer` writes
in turn; each part carries the stamp of the step it was written from, so that
parts of two snapshots are told apart. `passed` and `played` are the older copies on
the way to the shard and in it; `named` is a history variable.

### EventLoop

One poll loop, the shard's. A `CNSocket` knows its peer by a descriptor, and descriptors
are looked up in three places that may disagree: the system's `table`, the map
`connections` and the list `fds`. `turn` is the loop's `i`. `Killed` is `CNSocket::kill`, which closes
the descriptor at once, `Reap` is where the loop forgets it, and `Accept` takes the lowest
free one, as POSIX requires. The table is the process's: `elsewhere` has, for each descriptor,
whether the login server's thread or the database holds it or has closed it and may close it
again (`OpenElsewhere`, `CloseElsewhere`, `ForgetElsewhere`), between any two steps of the loop.
`clash` is a history variable: a descriptor was given out before whoever had it last, in this loop or
there, had forgotten it. Sessions are reduced to the account they belong to.

### Groups and GroupBuffs

`Groups` models `requestGroup`, `refuseGroup`, `joinGroup`, `leaveGroup` and `groupKickPlayer`, also as
called by `removePlayer`, on `iIDGroup` and `groupIDs`. An invitation is a pair in `invites`, the
window that is open on the client. `GroupBuffs` adds to the same actions what they do to
`iConditionBitFlag`, `iSelfConditionBitFlag` and `iGroupConditionBitFlag`, and `summonNano`. Buffs that
end by time are in `Effects`.

### Trading

All eight handlers and `doTrade`. The server does not know who trades with whom: each
request names both players, and `partner` is what each client believes. `Swap` is the
loop of `doTrade` as a recursive function over the trade slots. `VendorBuy` and `ItemDelete` are the
handlers of other components that change what was offered without asking
`isTrading`. Time limits are left out, and so is the width of `money`.

### Belongings, Mail, Missions, Buddies

`Belongings` keeps `Equip`, `Inven` and `Bank` as one function over positions. A kind of item that
expires turns into another kind. `statsOf` is what `setItemStats` last computed from,
`riding` the vehicle bit, `stimpak` the gumballs at work. What drops, and what a
crate holds, is left open.

`Mail` is the tables `EmailData` and `EmailItems` next to the inventories. Rows of `EmailItems` are
found by player and index only and outlive their mail (`Clash`). Receiving one
attachment deletes all of the mail, since the slot is appended to the statement
after its semicolon (`db/email.cpp:206-210`): `SlotDeleted` does what SQLite does.

`Missions` is one record, and a handler is a composition of operators that take and
return it: `startTask`, `endTask`, `dropQuestItem`, `giveMissionReward`, `mobKilled`, `quitTask`, `failInstancedMissions`,
`updateFusionMatter`. The mission log of the client decides which task it starts.

`Buddies` keeps a friendship where the code keeps it: in the slots of two players, on
their two clients and in `Buddyships`. A list is read by `characterSelect` and used by
`enterPlayer`; `stale` and `quarrelsome` are history variables for lists that were overtaken
in between and for players that had to do with blocks.

### Chunks, Mobs, Effects

`Chunks` has one record `w`: the chunks that exist and whom they track, where
everybody is, whose chunks they have cached, `playersInView` and what clients show. A
handler is a composition of `PlayerEnters`, `InstanceCreated`, `InstanceLeft` and the like, in the order of the code. An instance is a map with an owner.

`Mobs` has one record `arena`. `step` runs for all mobs every 200 ms; here each mob's part is
a step of its own. Distances are a choice: a player near may or may not be in range.
`failed` records a failing assertion, after which the server has stopped. `LoseAggro` is that
part of `combatStep` that the liveness property is about. A `Player` stands for the `CNSocket`
address a mob keeps; a later one may be given the same. A respawn does not wait for the corpse to
go: both are only comparisons with `killedTime`.

`Effects` is a body and the list `EggBuffs`. Handlers are operators from a body to a body.
The player is in no group.

### SaveStore

A character is online or not; it is resumed from what is stored, it may be saved,
and leaving is one step that stores everything. `StoreSpec` says that `Session` does
nothing else, with `online` the characters that have a player, `live` the progress of the
player and `stored` the database. An account whose sessions have overlapped (`hasty`) is
`void` in it from then on: it is promised nothing.

## 3. The runs

| run | instance | shows |
|---|---|---|
| `SessionAny` | 2 clients, 1 account with 2 characters, progress 1, fairness | one session per account on both servers, `getPlayer` never asserts, nothing a handler holds over a lock goes away, who is gone is removed |
| `SessionApart` | 2 clients, 2 accounts with a character each, progress 1, any number of crashes | only an account's own overlapping sessions lose what it earned, or let it play as a `Player{}`; for all others `SaveStore` is implemented |
| `SessionLost` | 1 account with 1 character | **violated**: progress is lost (`NothingLost`) |
| `EventLoop` | 2 connections of one account, 2 descriptors, of which other threads may hold one, fairness | no use after delete, every connection polled, and, unless a descriptor clashes, own descriptors here and elsewhere, and removal |
| `FdReuse` | 2 connections, 2 descriptors, none held elsewhere | **violated**: a dead player is never thrown out (`ThrownOut`) |
| `Meetings` | 3 players, groups of 3, 2 invitations, 2 nanos each; 2 of them trade with 2 places and 2 trade slots | groups stay consistent, nobody switches in one step, own buffs are kept, the leaver loses the group's, a trade moves exactly what was confirmed, or nothing |
| `GroupStray` | 3 players, 2 nanos each | **violated**: the group keeps the leaver's buff (`NoStrayBuff`) |
| `TradeThird` | 3 players, 2 open offers | **violated**: a trade with a player that trades with another (`TradesWithPartner`) |
| `TradeDebt` | 3 players, 1 open offer | **violated**: taros that were spent are paid (`NoDebt`) |
| `Goods` | one of: a player with 2 places, 2 equipment slots and 2 banks of 1; two players with a mail each; 4 tasks on 2 slots; two players with 2 buddy slots; 2 characters and 2 names | no operation makes wealth, stacks, statistics and vehicle fit; mail makes nothing and debts are bounded; task slots, counts and quest items fit; friendships agree; saves and creations are whole; names stay |
| `World` | one of: 2 players and 3 NPCs around a lair and a race zone, riding, racing, recalling, teleporting or summoning NPCs; a pack of two, a mob that splits, a mob under each kind of attack; one body with 2 nanos and 2 eggs | views and counts agree, instances last as long as they are used, a new lair is a copy; a mob has a target exactly when it fights, the dead stay dead, who is gone is forgotten; timed buffs end |
| `MobTarget` | as `World` | **violated**: a mob dies while its target has left the game, and `getPlayer` asserts (`NoAssertion`) |

**Bounds.** Two clients are enough for every race of `Session`: a race is between one
session that ends and one that starts, and an account has at most one of the first
kind. Two characters of one account tell "same account" from "same character"; two
accounts show that one account's hand-over leaves the other alone, however its sessions overlap.
Progress 1 tells an old copy from a new one, and a crash may fall between any two steps of
any run. Two descriptors are the fewest with which one can be reused while the other is
in use, and with one held elsewhere a connection has to wait; that longer lists of `fds` lose
nobody is a theorem. In `Goods` a `DELETE` may fail for one character and one of its tables: the
tables are written one after the other, in the same way; the two names are interchangeable, hence
the symmetry. A group of three has a
first, a middle and a last member to take out and is full; that a full group has
somebody outside is covered by the theorems, which hold for any limit. Two places,
two trade slots and a stack of two contain a split offer, a place that is freed and
reused and an inventory that is full. The `View` of `Meetings` leaves out what a player's
offer and flags are while it is not trading, as `tradeOfferAccept` clears both before
anything looks at them. In `Goods`, two places, a bank of one place, stacks of up to
three and `MaxStacks` suffice to merge, split, swap and fill; two tasks at once make one
move aside for a nano mission; two names leave a renamed
character with copies of its old one, and of two characters the second takes the place of the first, deleted one. In `World`, three
places in a row on the main map, of which the first and the last do not see each other, give
a player somebody to leave behind and somebody to meet in one move; an instance needs one
chunk; a pack needs a leader and a follower. `MaxProgress`, `MaxForeign`, `Fragile`, `Failing`, `MaxInvites`, `MaxOffers`, `MaxTaros`,
`MaxDebt`, `MaxIndex`, `MaxCash`, `MaxQuestItems`, `MaxBlocks`, `MaxId`, `MaxStamp`, `MaxAway`, `MaxSummoned`, `MaxBullet` and `MaxWear`
bound what would grow without limit. In `World` the body with ticks and wear owns one
nano, and the one with timed buffs has no nano skill that is used or that revives.

**Haste.** The README of the repository promises that progress is saved. `SessionLost` shows
that the code does not keep this for an account whose sessions overlap: whose user picks
a character while the last session of the account is in the game, being
saved and removed, or still on its way there. What the code does keep is stated without
assuming anything of users. `hasty` records the accounts this has happened to; `LostByHasteOnly`,
`PhantomByHasteOnly` and `StoreSpec` say of every other account that all it earned is kept, while
those of the hasty ones are thrown out, reaped, saved and handed over in between.

**Fairness.** The threads run by themselves. In `Session`, what a handler has begun it
ends (weak fairness on each second half), and a connection that is closed or silent is
noticed and reaped although the loop may always find other work in between
(strong fairness: each round visits every ready descriptor, and the timers come
round). In `EventLoop` the loop itself is an action and needs only weak fairness; strong
fairness says that `keepAliveTimer` in the end finds who stays silent. In `World` the timer
comes back to every mob that fights while somebody is near (weak fairness of `Timer`, the
shard's 200 ms timer, which visits every mob with players in view). Nothing is assumed of clients.

**Deadlock** is checked in every run but `Goods`, `World` and `MobTarget`: there a behaviour may
really stop, when a bound is reached (the last character has been made) or the server has
stopped at a failed assertion.

## 4. What the runs found

1. **Progress is lost on a quick reconnect** (`SessionLost`). The login server
   loads a character while its old session still plays, and `enterPlayer` takes that copy
   before it saves and removes the old session.
2. **A reused descriptor hides a dead player** (`FdReuse`). `kill` closes the
   descriptor before the loop forgets it; an accept in between replaces the map entry.
   The dead player is never removed, and `keepAliveTimer` goes on closing the
   newcomer's descriptor.
3. **A leaver's buff stays on the group** (`GroupStray`). `Groups.cpp:301` looks up
   the leaver's nano by the other member's `activeNano`.
4. **A trade with a third player** (`TradeThird`). `tradeOfferAccept` does not ask
   whether the one who accepts is trading.
5. **Paying with spent taros** (`TradeDebt`). `tradeConfirm` does not look at `money` again.
6. **A mob's last target** (`MobTarget`). `killMob` looks up the target a mob still holds
   after it has left the game (`Combat.cpp:219`, 233).

Modelling also met behaviour that looks unintended but contradicts nothing the
repository says, so that no run is about it. The models do what the code does:

- Sessions and characters: `Players.BankOwnership` is read and written (`db/player.cpp:51`, 303)
  but not in the schema; `validateCharacterCreation` has a parenthesis in the wrong place
  (`CNLoginServer.cpp:337-352`); `finishCharacter` and `finishTutorial` succeed when they
  change no row (`db/login.cpp:216-377`).
- Items: a stack put on itself is destroyed; a buyback that fails loses the item; combining does not look at its cost.
- Email: the check for postage adds it to `money` (`Email.cpp:243`), so that a balance becomes
  negative, within a bound (`DebtBounded`); receiving one attachment deletes them all
  (`db/email.cpp:206-210`); receiving all with a full inventory deletes what did not fit.
- Buddies: `isBuddyBlocked` stays set on a slot that is given up (`Buddies.cpp:354`, 431); a list
  that changes between `characterSelect` and `enterPlayer` is used as it was read.
- Chunks: `recallInstance` is 32 bits wide and loses the owner of an instance
  (`Abilities.cpp:443-444`); `createInstance` dereferences a follower's leader that was not
  copied (`Chunking.cpp:478`); a player in chunk (0, 0) is not tracked; a passenger stays in
  `SkywayQueues` until the next tick after it has left.
- Mobs: `groupRetreat` also revives dead members; debuffs reach mobs that are dead;
  `addBullet` gives up at 127.
- Nanos: `nanoEquip` leaves a replaced active nano out (`Nanos.cpp:255-257`), which is then never
  drained; a nano in two slots is drained twice; a worn-out nano can be summoned again and its
  stamina sinks below 0; `setNanoSkill` tunes before it looks at the price (`Nanos.cpp:146`, 166);
  `dotDamageOnOff` toggles (`Combat.cpp:328`); eggs keep counting viewers while they
  are dead (`Eggs.cpp:252`).

## 5. What is proved

All theorems hold for any sets of clients, players, characters, items, maps, NPCs and
mobs and any bounds. They assume the `ASSUME`s of the modules, which TLC evaluates in the
runs, and, where a theorem says so, `PotTakesEquipment` or `EquipmentIsSingle`. Most
`ASSUME`s give the constants their types. Those that say more: there are finitely many players,
NPCs, mobs, equipment slots and banks; a slot 1 that a new account has selected; no item sells for more than it costs; ids of NPCs and mobs are numbers, since `nextId` counts; who trades is a
player; nobody walks in a chunk next to (0, 0), the position of a player that is loading or
warps (the maps' walkable areas are far from it); what `TableData` loads stands on a map.

- `SessionProofs`: `Typing`, `OneSession`, `NeverAsserts`, `SocketsOutlivePlayers`, `HandlersUndisturbed`,
  `OneLogin`. None of the safety invariants is inductive by itself. `OneSessionPerAccount` needs
  to know that while the shard waits in `enterPlayer` the account's old session is the
  only one (`HandlerInv`), that needs the client being entered to be alive and without
  a player (`GetPlayerNeverAsserts` and `NoDanglingSocket`), and these need each other. The proof
  shows their conjunction, `ShardInv`, inductive under `TypeOK`; the steps of the login
  thread and of clients change nothing it mentions but `shardSock`.
- Also there: `LossTakesHaste`, `PhantomTakesHaste`, `ImplementsStore`, of which nothing is assumed. Their
  inductive invariants (`HastyInv`, and `Apart` for the refinement) say that of each account
  that is not in `hasty` there is at most one copy that is not the database's, whether the
  login thread's `pick`, the hand-off's key, the game's player or the removal's `erase` holds it, and
  that it carries all the character has earned; and that what the other accounts do, being thrown out
  and erased under a lock the shard waited for included, touches none of these. The last theorem
  is the refinement of `SaveStore`: each step of `Session` is one of its steps or a stutter.
- `EventLoopProofs`: `SocketsAllocated`, `NobodyForgotten`, with descriptors reused at any
  time; `LoopTyping` and `DescriptorsOwned`. The first strengthening, `LoopInv`, says where a
  descriptor's socket, its entry in `fds` and its player can be; the second, `FdInv`, that
  without a clash `table`, `connections`, `fdOf` and `elsewhere` name the same owner. That `Accept` finds a
  least free descriptor comes from well-foundedness of the naturals.
- `CharactersProofs`: `SavesAreWhole`, `NamesStay`. `CharactersInv` says what a row, and a copy on
  its way to the shard or in it, may be: all parts from one snapshot, unless the character is
  `torn`. What a transaction leaves is what it found or such a row again, whichever statement
  fails that the code looks at, and whether or not `COMMIT` does; what a `DELETE` that fails unnoticed
  leaves is mixed, and never more than that character's own parts.
  `CharactersTyping` adds `AccountsInv`: accounts never go, so a session's and a character's are there,
  and ids are below the next one.
- There too: `BuddiesTyping`, `FriendsStayAgreed`, which is `FriendsAgree`. What must be known of everyone, calm or not,
  is that the list in the game, or the list on its way there, misses nobody with a row
  (`Serves`): that keeps `reqAcceptBuddy`, which looks into one list only, from adding a second row
  (`Single`). Of those who had nothing to do with blocks the list is also `Exact`, and the client
  shows it. That a list is loaded whole needs the number of rows to fit its slots, which holds
  because each row has a slot (`FewInList`). A table is a sequence and a statement on it a
  fold: `OnlyFinds`, by induction over the positions, says what it finds.
- `EffectsProofs`: `EffectsTyping`, `TimersFindPlayers`, `BuffsEnd`. A handler is an operator from a
  body to a body, and `Preserves` says of one that what the body's own nano holds is what the
  nano that is out gives, and that no bit without a timer is added. One lemma per operator
  shows it, and `Preserves` is transitive, so that compositions (`Ticked`, `Equipped`) follow.
- `MeetingsProofs`, groups: `GroupsTyping`, `Agreement`, `NoAbsentMember`, `ArraysFit`, `GroupsHold`,
  `NobodySwitches`. The inductive invariant is the conjunction of the first four: that the
  array can be shifted without losing or doubling anybody (`Shifted`) needs the member to be in it
  exactly once, which is what `GroupsAgree` and `GroupFits` say together. Buffs:
  `BuffsRefineGroups`, by which all of that holds with buffs (`BuffedGroupsHold`); `BuffTyping`,
  `OwnBuffStays` and `LeaversLoseBuffs`, for any nanos, skills and bits.
- `MeetingsProofs`, trading: `ConfirmedIsTrading`, `OfferStands`, `TarosConserved`, `TradingTyping` and
  `TradesAreExact`. The last is about the loop of `doTrade`, a recursive function over the trade
  slots: after each slot, what has left the one inventory and what has come into the
  other are sums over the slots done so far, and the free places counted before the loop
  are enough for the rest. `MeetingsRefineBoth` shows that where players group and trade at once
  each component sees the other's steps as its own or as none; `MeetingTyping` and
  `MeetingsHold` carry every property of the run over to that composition.
- `GoodsProofs`, belongings: `GoodsTyping`, `EquipmentIsCurrent`, `GoodsStayConsistent`. That no stack outgrows
  the size of its kind is not inductive: the croc pot swaps what it is given for the item it
  makes, and the server asks only that the two items have the same type and a level gap it
  knows (`Vendor.cpp:321`, 329), while the client offers equipment, which does not stack. The
  theorem says so in its assumption `PotTakesEquipment`.
- There too: `WealthIsEarned`, which is `NoFreeWealth`. What is owned is worth a sum over all places, and each
  handler changes one or two of them; `OneTraded` and `TwoTraded` give the sum's change for that,
  and a lemma per handler compares it with the taros paid. What the pot writes into the count
  of its product is the appearance of the other item; were it a count of something that
  stacks, it could be sold as many times: hence `EquipmentIsSingle`.
- `GoodsProofs`, mail: `MailTyping`, `MailDebtBounded`: after the inverted check a balance is never below
  zero by more than twice the largest postage: the check adds the postage to what there is,
  so a letter with its taros may leave a debt of its postage by that check, and the postage that is
  then taken makes it twice as much.
  `MailMakesNone`, which is `MailMakesNothing`, is about sums as well: of taros over purses and mails, and of each item over
  inventories and the rows of `EmailItems`. `Attachments` and `Unpacked` are folds over the slots of
  a letter, so `PackedFrom` and `UnpackedFrom` go by induction over sets of slots: what has been
  packed and what is left in the inventory is together what was there. That a letter's
  index is free (`NextIsFree`) and that its rows overwrite none (`RowsHold`) do the rest.
- `GoodsProofs`, missions: `MissionsTyping`, `TasksStayConsistent`. A handler is a composition of operators
  on one record, of which each keeps slots, counters and quest items fitting each
  other; the record is whole only between handlers, so the invariant is stated for the
  operators with what each may leave open.
- `WorldProofs`, mobs: `MobsTyping`, `MobsStayConsistent`, `TheDeadRest`. The invariant `MobSound` is about
  each mob; packs are changed by operators that treat every member alike, and the fold over
  the targets of an attack keeps a relation between the first arena and the last.
- `WorldProofs`, chunks: `ChunksTyping`, `ViewsStayAgreed`, `InstancesStay`. `Good(v, tr)` says that all that is
  cached in a world `v` is what the positions of the beings in `tr` imply: chunks, views,
  `playersInView`, what clients show. The central lemma, `MovedOK`, is that `updatePlayerChunk` and
  `updateNPCChunk` keep it, although they update counters by increments for the chunks that
  come into view and go out of it. A world is `Whole` if `tr` is everyone who stands somewhere, `Settled`
  if also the NPCs of the templates are where they belong, and `Inhabited` if private
  instances with an NPC have a player. In between, `LivedIn` excepts one instance:
  `createInstance` fills it before `sendPlayerTo` brings the first player. What walks over a set (a group
  that warps, a lair that is copied or emptied, the Skyway) is a fold, and each has a relation
  between the members done so far and the world (`Going`, `Copying`, `Emptying`, `RodeAs`).
- `AllTyping`, `AllHold` and `AllMakeNothing` carry everything about belongings, mail, missions, buddies and
  characters over to the composition that the run `Goods` checks.
- `WorldTyping` and `WorldHolds` carry the invariants of chunks, mobs and bodies over to the composition
  that the run checks.

Proving also corrected a model. As it was first stated, `FriendsAgree` of `Buddies` does not hold of four
players: `isBuddyBlocked` stays set in a slot that is given up, and a later buddy in
that slot is removed as if it were blocked; the shorter list then hides a true friend (18 steps).
The history variable `quarrelsome` now counts such removals too.

Only model-checked:

- liveness (`GoneIsReaped`, `ThrownOutUnlessClash`, `GhostsForgotten`), which is out of the prover's reach;
- `NewLairIsCopy`: that the copies correspond one to one to the template.

## 6. What a next version would add

1. A theorem for `NewLairIsCopy`.
2. The crash between an attachment's removal from `EmailItems` and the save of the inventory it
   went to: `Mail` with the saves of `Session`.
3. Abstract specifications: a group as a set of players that `Groups` implements; a trade as one
   exchange that `Trading` implements when both players trade with each other.
4. The 32-bit width of `money`, once for `Trading`, `Mail` and `Belongings`.

## 7. What is not modelled

- **Shutdown** (`main.cpp`): a signal handler that takes locks the interrupted thread may
  hold. What happens depends on the instruction it interrupts, locks inside the allocator
  included; no module here has steps that small.
- **Packet framing and encryption, names and passwords, fares, rankings, formulas of damage,
  positions within a chunk and paths** carry no state the properties depend on.
- **Chat, administrators' commands** other than those that move players, summon NPCs or ban
  accounts; **the monitor**; **schema and migrations**; **static tables, race rankings and
  redeemed codes** (`db/shard.cpp`, `TableData.cpp`); **settings and packet tables**; **the
  generated packet layouts**: pure input and output, or constants.
- `reqBuddyWarp` moves a player as the warps of `Chunks` do; `groupTickInfo` only sends.
- Eggs' count of viewers, barkers, time machines' warps and the interpolation of paths.
