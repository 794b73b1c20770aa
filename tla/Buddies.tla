------------------------------ MODULE Buddies ------------------------------
(***************************************************************************)
(* The buddy lists (Buddies.cpp): every friendship is kept five times, as  *)
(* a row of Buddyships, in the slots of the two players' Player structs    *)
(* and on their two clients, and every handler updates by hand those it    *)
(* can reach.  A list is read when a character is selected at the login    *)
(* server and used when its player enters the shard: what others do in     *)
(* between is missed.                                                      *)
(*                                                                         *)
(* Clients ask for what the game offers: they accept requests they were    *)
(* shown and name the slot where their list has the buddy.  A player has   *)
(* one connection (Session has the others), and characters are not         *)
(* deleted (Characters has that).                                          *)
(***************************************************************************)
EXTENDS Players, Integers, FiniteSets, SequencesExt

CONSTANTS
    BuddySlots,    \* 50 in the code
    MaxBlocks      \* bound: rows of Blocks

ASSUME BuddiesAssumption == BuddySlots \in Nat /\ MaxBlocks \in Nat

VARIABLES
    buddies,       \* player -> slot -> buddyIDs and isBuddyBlocked
    inShard,       \* PlayerManager::players
    synced,        \* buddiesSynced
    handedOver,    \* player -> the list read by characterSelect, or None
    asked,         \* <<from, to>>: requests on the screen of "to"
    told,          \* player -> the buddies its client shows, blocked or not
    Buddyships,    \* the table: unordered pairs, in the order of their rows
    Blocks,        \* the table: <<PlayerID, BlockedPlayerID>>
    stale,         \* ghost: whose rows changed after its list was read
    quarrelsome    \* ghost: who has blocked somebody, was blocked, or was removed as if it were

buddyVars ==
    <<buddies, inShard, synced, handedOver, asked, told, Buddyships, Blocks, stale, quarrelsome>>

Slot == 1 .. BuddySlots
Empty == [id |-> None, blocked |-> FALSE]
NoRoom(list) == \A s \in Slot : list[s].id # None
FreeSlot(list) == CHOOSE s \in Slot : list[s].id = None /\ \A r \in 1 .. s - 1 : list[r].id # None
Has(list, id) == \E s \in Slot : list[s].id = id

\* The zeroed entry keeps its isBuddyBlocked, and so does one that is filled again.
Filled(list, id) == [list EXCEPT ![FreeSlot(list)].id = id]
ForgetFirst(list, id) ==
    IF Has(list, id)
    THEN [list EXCEPT ![CHOOSE s \in Slot : list[s].id = id /\ \A r \in 1 .. s - 1 : list[r].id # id].id = None]
    ELSE list

-----------------------------------------------------------------------------
(***************************************************************************)
(* The database.                                                           *)
(***************************************************************************)
\* The rows that a statement finds, in their order.
Only(rows, wanted) ==
    FoldLeft(LAMBDA found, row : IF row \in wanted THEN Append(found, row) ELSE found, <<>>, rows)

RowsOf(p) == Only(Buddyships, {pair \in SUBSET Player : p \in pair})
BlocksOf(p) == Only(Blocks, {p} \X Player)
getNumBuddies(p) ==
    LET n == Len(RowsOf(p)) + Len(BlocksOf(p)) IN IF n > BuddySlots THEN BuddySlots ELSE n

\* getPlayer: the buddies, then those blocked, as far as there is room.
LoadedList(p) ==
    LET rows == RowsOf(p)
        blocked == BlocksOf(p)
        n == Len(rows)
    IN  [s \in Slot |->
            IF s <= n THEN [id |-> CHOOSE q \in rows[s] : q # p, blocked |-> FALSE]
            ELSE IF s <= n + Len(blocked) THEN [id |-> blocked[s - n][2], blocked |-> TRUE]
            ELSE Empty]

addBuddyship(p, q) == Append(Buddyships, {p, q})
removeBuddyship(p, q) == Only(Buddyships, (SUBSET Player) \ {{p, q}})
addBlock(p, q) == Append(Blocks, <<p, q>>)
removeBlock(p, q) == Only(Blocks, (Player \X Player) \ {<<p, q>>})

\* A list that was read before a row of its player changes is stale.
RowsChange(ps) == stale' = stale \cup {p \in ps : handedOver[p] # None}

\* refreshBuddyList tells the entries in order and as many as the database counts.
ToldOf(p, list) ==
    LET known == Only([s \in Slot |-> list[s].id], Player)
        n == getNumBuddies(p)
    IN  {known[i] : i \in 1 .. IF n < Len(known) THEN n ELSE Len(known)}

-----------------------------------------------------------------------------
BuddiesInit ==
    /\ buddies = [p \in Player |-> [s \in Slot |-> Empty]]
    /\ inShard = {} /\ synced = {} /\ asked = {} /\ stale = {} /\ quarrelsome = {}
    /\ handedOver = [p \in Player |-> None]
    /\ told = [p \in Player |-> {}] /\ Buddyships = <<>> /\ Blocks = <<>>

\* characterSelect reads the list that enterPlayer will use.
Select(p) ==
    /\ p \notin inShard
    /\ handedOver' = [handedOver EXCEPT ![p] = LoadedList(p)]
    /\ stale' = stale \ {p}
    /\ UNCHANGED <<buddies, inShard, synced, asked, told, Buddyships, Blocks, quarrelsome>>

Enter(p) ==
    /\ handedOver[p] # None
    /\ buddies' = [buddies EXCEPT ![p] = handedOver[p]]
    /\ handedOver' = [handedOver EXCEPT ![p] = None]
    /\ inShard' = inShard \cup {p} /\ synced' = synced \ {p}
    /\ told' = [told EXCEPT ![p] = ToldOf(p, handedOver[p])]
    /\ UNCHANGED <<asked, Buddyships, Blocks, stale, quarrelsome>>

Leave(p) ==
    /\ p \in inShard
    /\ inShard' = inShard \ {p} /\ told' = [told EXCEPT ![p] = {}]
    /\ buddies' = [buddies EXCEPT ![p] = [s \in Slot |-> Empty]]
    /\ asked' = {a \in asked : a[2] # p}
    /\ UNCHANGED <<synced, handedOver, Buddyships, Blocks, stale, quarrelsome>>

\* requestBuddy wants room on both sides, reqBuddyByName that the other is no
\* buddy yet; neither remembers that it asked.
requestBuddy(p, q) ==
    /\ {p, q} \subseteq inShard
    /\ ~NoRoom(buddies[p]) /\ ~NoRoom(buddies[q])
    /\ asked' = asked \cup {<<p, q>>}
    /\ UNCHANGED <<buddies, inShard, synced, handedOver, told, Buddyships, Blocks, stale, quarrelsome>>

reqBuddyByName(p, q) ==
    /\ {p, q} \subseteq inShard
    /\ ~Has(buddies[p], q)
    /\ asked' = asked \cup {<<p, q>>}
    /\ UNCHANGED <<buddies, inShard, synced, handedOver, told, Buddyships, Blocks, stale, quarrelsome>>

\* reqAcceptBuddy and reqFindNameBuddyAccept: p answers what q asked, maybe long
\* ago.  Whether q has p already is not looked at.
AskerFilled(p, q) == [buddies EXCEPT ![q] = Filled(@, p)]  \* mutant
BothFilled(p, q) == [buddies EXCEPT ![p] = Filled(@, q), ![q] = Filled(@, p)]

reqAcceptBuddy(p, q) ==
    /\ <<q, p>> \in asked /\ p \in inShard
    /\ asked' = asked \ {<<q, p>>}
    /\ IF /\ q \in inShard /\ ~NoRoom(buddies[p]) /\ ~NoRoom(buddies[q])
          /\ p # q /\ ~Has(buddies[p], q)
       THEN /\ buddies' = BothFilled(p, q)
            /\ told' = [told EXCEPT ![p] = @ \cup {q}, ![q] = @ \cup {p}]
            /\ Buddyships' = addBuddyship(p, q)
            /\ RowsChange({p, q})
       ELSE UNCHANGED <<buddies, told, Buddyships, stale>>
    /\ UNCHANGED <<inShard, synced, handedOver, Blocks, quarrelsome>>

\* The player turns the request down.
Decline(p, q) ==
    /\ <<q, p>> \in asked /\ p \in inShard
    /\ asked' = asked \ {<<q, p>>}
    /\ UNCHANGED <<buddies, inShard, synced, handedOver, told, Buddyships, Blocks, stale, quarrelsome>>

\* "If the buddy list wasn't synced a second time yet, sync it."
reqPktGetBuddyState(p) ==
    /\ p \in inShard \ synced
    /\ synced' = synced \cup {p}
    /\ told' = [told EXCEPT ![p] = ToldOf(p, buddies[p])]
    /\ UNCHANGED <<buddies, inShard, handedOver, asked, Buddyships, Blocks, stale, quarrelsome>>

\* The other side of a removal, if it plays.
OtherForgets(list, p, q) ==
    [list EXCEPT ![q] = IF q \in inShard THEN ForgetFirst(@, p) ELSE @]
Untold(p, q) == told[q] \ (IF q \in inShard /\ Has(buddies[q], p) THEN {p} ELSE {})

\* A buddy is blocked where it is in the list; the other loses its buddy.
reqBuddyBlock(p, s) ==
    LET q == buddies[p][s].id IN
    /\ p \in inShard /\ q # None /\ Len(Blocks) < MaxBlocks
    /\ Buddyships' = removeBuddyship(p, q) /\ Blocks' = addBlock(p, q)
    /\ buddies' = OtherForgets([buddies EXCEPT ![p][s].blocked = TRUE], p, q)
    /\ told' = [told EXCEPT ![q] = Untold(p, q)]
    /\ RowsChange({p, q}) /\ quarrelsome' = quarrelsome \cup {p, q}
    /\ UNCHANGED <<inShard, synced, handedOver, asked>>

\* "block non-buddy": anybody, as long as there is a slot.
reqPlayerBlock(p, q) ==
    /\ p \in inShard /\ ~NoRoom(buddies[p]) /\ Len(Blocks) < MaxBlocks
    /\ Blocks' = addBlock(p, q)
    /\ buddies' = [buddies EXCEPT ![p][FreeSlot(buddies[p])] = [id |-> q, blocked |-> TRUE]]
    /\ told' = [told EXCEPT ![p] = @ \cup {q}]
    /\ RowsChange({p}) /\ quarrelsome' = quarrelsome \cup {p, q}
    /\ UNCHANGED <<inShard, synced, handedOver, asked, Buddyships>>

\* "this packet is used both for removing buddies and blocks".
reqBuddyDelete(p, s) ==
    LET q == buddies[p][s].id
        mine == [buddies EXCEPT ![p][s] = Empty]
    IN
    /\ p \in inShard /\ q # None
    /\ Buddyships' = removeBuddyship(p, q)
    /\ Blocks' = removeBlock(p, q)
    /\ IF buddies[p][s].blocked
       THEN buddies' = mine /\ told' = [told EXCEPT ![p] = @ \ {q}]
       ELSE /\ buddies' = OtherForgets(mine, p, q)
            /\ told' = [told EXCEPT ![p] = @ \ {q}, ![q] = Untold(p, q)]
    /\ RowsChange({p, q})
    /\ quarrelsome' = IF buddies[p][s].blocked THEN quarrelsome \cup {p, q} ELSE quarrelsome
    /\ UNCHANGED <<inShard, synced, handedOver, asked>>

Befriend == \E p, q \in Player :
    requestBuddy(p, q) \/ reqBuddyByName(p, q) \/ reqAcceptBuddy(p, q) \/ Decline(p, q)
Unfriend == \E p \in Player :
    \/ \E s \in Slot : reqBuddyBlock(p, s) \/ reqBuddyDelete(p, s)
    \/ \E q \in Player \ {p} : reqPlayerBlock(p, q)
Attend == \E p \in Player : Select(p) \/ Enter(p) \/ Leave(p) \/ reqPktGetBuddyState(p)
BuddiesNext == Befriend \/ Unfriend \/ Attend

-----------------------------------------------------------------------------
(***************************************************************************)
(* Properties.                                                             *)
(***************************************************************************)
BuddiesTypeOK ==
    /\ buddies \in [Player -> [Slot -> [id : Player \cup {None}, blocked : BOOLEAN]]]
    /\ inShard \subseteq Player /\ synced \subseteq Player /\ stale \subseteq Player
    /\ quarrelsome \subseteq Player /\ asked \subseteq Player \X Player
    /\ \A p \in Player : told[p] \subseteq Player
    /\ \A i \in DOMAIN Buddyships : Cardinality(Buddyships[i]) = 2
    /\ Blocks \in Seq(Player \X Player)

\* Two who are in the game, never had to do with blocks and whose lists were not
\* overtaken while they came in are buddies everywhere or nowhere: in both lists,
\* on both clients, and by one row in the database, whoever asked, accepted,
\* removed, left and came back in whatever order.
FriendsAgree ==
    \A p, q \in inShard \ (stale \cup quarrelsome) :
        p # q =>
            /\ Has(buddies[p], q) <=> Has(buddies[q], p)
            /\ q \in told[p] <=> Has(buddies[p], q)
            /\ Cardinality({i \in DOMAIN Buddyships : Buddyships[i] = {p, q}})
                   = Cardinality({s \in Slot : buddies[p][s].id = q})
=============================================================================
