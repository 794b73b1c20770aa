------------------------------- MODULE Chunks -------------------------------
(***************************************************************************)
(* Chunking.cpp and what moves through the chunks: PlayerManager's         *)
(* entering, leaving and warping, NPCManager's NPCs and warps, Transport,  *)
(* Racing, recalling and the administrators' teleports.                    *)
(*                                                                         *)
(* A chunk is the set of players and NPCs it tracks.  Players and NPCs     *)
(* cache the chunks they see; an NPC counts the players in view, and a     *)
(* client shows the players it was told of.  One handler runs at a time    *)
(* and is a composition of operators on the record "w".                    *)
(*                                                                         *)
(* Only Spots are walked on.  None is next to the chunk (0, 0), which the  *)
(* code uses as a player's position while it warps or loads.               *)
(***************************************************************************)
EXTENDS Players, Integers, Sequences, FiniteSets, FiniteSetsExt, TLC

CONSTANTS
    Npc,           \* NPC ids
    Spots,         \* map |-> its chunks that are walked on: <<x, y>>
    Lair, Zone,    \* maps of lairs and infected zones; the overworld is map 0
    Entrance,      \* Warps with isInstance: map |-> spot inside
    ExitSpot,      \* the other Warps lead back to the overworld
    FirstNpcs,     \* NPC |-> [spot, inst, leader], as TableData loads them
    Roamer,        \* those of them that walk about
    RegisterAt,    \* Resurrect 'Em machines among them
    Path,          \* the Monkey Skyway: a sequence of spots
    MaxSummoned    \* bound: summoned NPCs at a time

Spot == UNION {Spots[m] : m \in DOMAIN Spots}
Being == Player \cup Npc
Origin == <<0, 0>>
Map == {0} \cup Lair \cup Zone
\* instanceID: the map number, the owner in the upper 32 bits
Instance == Map \X (Player \cup {None})
Overworld == <<0, None>>
MapNum(i) == i[1]
PlayerId(i) == i[2]
ChunkPos == [at : Spot \cup {Origin}, inst : Instance]
At(spot, i) == [at |-> spot, inst |-> i]
NullChunk == At(Origin, Overworld)
Nowhere == At(Origin, <<0, 0>>)     \* not in the game

AbsDiff(a, b) == IF a < b THEN b - a ELSE a - b
Adjacent(a, b) == AbsDiff(a[1], b[1]) <= 1 /\ AbsDiff(a[2], b[2]) <= 1

ASSUME ChunksAssumption ==
    /\ IsFiniteSet(Player) /\ IsFiniteSet(Npc) /\ Npc \subseteq Nat
    /\ Player \cap Npc = {} /\ 0 \notin Player \cup {None} /\ 0 \notin Lair \cup Zone
    /\ Map \subseteq DOMAIN Spots
    /\ Spot \subseteq Int \X Int /\ \A s \in Spot : ~Adjacent(s, Origin)
    /\ ExitSpot \in Spot /\ Entrance \in [Lair \cup Zone -> Spot] /\ Path \in Seq(Spot)
    /\ DOMAIN FirstNpcs \subseteq Npc /\ RegisterAt \subseteq Npc /\ Roamer \subseteq Npc
    /\ \A n \in DOMAIN FirstNpcs :
         FirstNpcs[n].spot \in Spot /\ FirstNpcs[n].inst \in Map \X {None}

VARIABLES
    w,          \* the world
    leader,     \* iIDGroup
    recall,     \* recallX, recallY and recallInstance, an int: no room for an owner
    race,       \* EPRaces: the zone of the race
    queue,      \* SkywayQueues
    onMonkey

chunkVars == <<w, leader, recall, race, queue, onMonkey>>

InGame == {p \in Player : w.at[p] # Nowhere}
Loaded == {p \in InGame : w.at[p] # NullChunk}
InstanceOf(p) == w.at[p].inst
Members(p) == {q \in InGame : leader[q] = leader[p]}
Riding == DOMAIN queue

-----------------------------------------------------------------------------
(***************************************************************************)
(* Chunks.                                                                 *)
(***************************************************************************)
Exists(v, c) == c \in DOMAIN v.chunks
Viewable(v, c) ==
    {d \in DOMAIN v.chunks : d.inst = c.inst /\ Adjacent(d.at, c.at)}
In(v, cs) == UNION {v.chunks[c] : c \in cs}
ChunksInMap(v, i) == {c \in DOMAIN v.chunks : c.inst = i}

\* The caches of those around a chunk that comes or goes.
Recached(v, c, add, del) ==
    LET around == In(v, Viewable(v, c))
    IN  [v EXCEPT !.view = [b \in Being |->
            IF b \in around THEN (v.view[b] \cup add) \ del ELSE v.view[b]]]

With(v, c, cell) ==
    [v EXCEPT !.chunks = [d \in DOMAIN v.chunks \cup {c} |-> IF d = c THEN cell ELSE v.chunks[d]]]
NewChunk(v, c) == IF Exists(v, c) THEN v ELSE Recached(With(v, c, {}), c, {c}, {})

DeleteChunk(v, c) ==
    LET u == Recached(v, c, {}, {c})
    IN  [u EXCEPT !.chunks = [d \in DOMAIN u.chunks \ {c} |-> u.chunks[d]]]

\* trackPlayer and trackNPC, untrackPlayer and untrackNPC.
Tracked(v, c, b) == IF Exists(v, c) THEN With(v, c, v.chunks[c] \cup {b}) ELSE v
Untracked(v, c, b) ==
    IF ~Exists(v, c) THEN v
    ELSE LET u == With(v, c, v.chunks[c] \ {b})
         IN  IF u.chunks[c] = {} THEN DeleteChunk(u, c) ELSE u

\* removePlayerFromChunks and addPlayerToChunks: each NPC counts, and the player
\* and the others there are told of each other.
Uncounted(v, cs, p) ==  \* mutant
    [v EXCEPT !.shown = [q \in Player |-> IF q = p THEN @[q] \ In(v, cs) ELSE @[q] \ {p}]]
PlayerExits(v, cs, p) ==
    LET met == In(v, cs)
    IN  [v EXCEPT !.inView = [n \in Npc |-> IF n \in met THEN v.inView[n] - 1 ELSE v.inView[n]],
                  !.shown = [q \in Player |-> IF q = p THEN v.shown[q] \ met
                                              ELSE IF q \in met THEN v.shown[q] \ {p} ELSE v.shown[q]]]
OneWay(v, cs, p) ==  \* mutant
    LET met == In(v, cs)
    IN  [v EXCEPT !.inView = [n \in Npc |-> IF n \in met THEN @[n] + 1 ELSE @[n]],
                  !.shown = [q \in Player |-> IF q \in met \ {p} THEN @[q] \cup {p} ELSE @[q]]]
PlayerEnters(v, cs, p) ==
    LET met == In(v, cs)
    IN  [v EXCEPT !.inView = [n \in Npc |-> IF n \in met THEN v.inView[n] + 1 ELSE v.inView[n]],
                  !.shown = [q \in Player |->
                                IF q = p THEN v.shown[q] \cup ((met \cap Player) \ {p})
                                ELSE IF q \in met THEN v.shown[q] \cup {p} ELSE v.shown[q]]]

\* removeNPCFromChunks and addNPCToChunks.
NpcCounts(v, n, from, to) ==
    [v EXCEPT !.inView[n] = v.inView[n] + Cardinality(In(v, to) \cap Player)
                                        - Cardinality(In(v, from) \cap Player)]

\* updatePlayerChunk and updateNPCChunk.
Moved(v, b, from, to) ==
    LET u == Tracked(Untracked(NewChunk(v, to), from, b), to, b)
        old == Viewable(u, from)
        new == Viewable(u, to)
        told == IF b \in Player THEN PlayerEnters(PlayerExits(u, old \ new, b), new \ old, b)
                ELSE NpcCounts(u, b, old \ new, new \ old)
    IN  [told EXCEPT !.at[b] = to, !.view[b] = new]

\* updatePlayerPosition and updateNPCPosition.
Placed(v, b, to) == IF v.at[b] = to THEN v ELSE Moved(v, b, v.at[b], to)

\* destroyNPC.
Destroyed(v, n) ==
    LET u == Untracked(v, v.at[n], n)
    IN  [NpcCounts(u, n, Viewable(u, u.at[n]), {}) EXCEPT
            !.at[n] = Nowhere, !.view[n] = {}, !.inView[n] = 0, !.of[n] = None]

\* destroyInstanceIfEmpty and destroyInstance.
InstanceKept(v, i) == v  \* mutant
InstanceLeft(v, i) ==
    IF PlayerId(i) = None \/ In(v, ChunksInMap(v, i)) \cap Player # {} THEN v
    ELSE FoldSet(LAMBDA n, u : Destroyed(u, n), v, In(v, ChunksInMap(v, i)))

-----------------------------------------------------------------------------
(***************************************************************************)
(* NPCs.  of[n] is the NPC that n is a copy of, n itself for the first.    *)
(* ids are never given out twice in the code: nextId only grows.           *)
(***************************************************************************)
Unused(v) == {n \in Npc : v.at[n] = Nowhere /\ n \notin DOMAIN FirstNpcs}

\* new Mob or new BaseNPC, and updateNPCPosition.
Summoned(v, kind, to) ==
    LET n == Min(Unused(v)) IN Placed([v EXCEPT !.at[n] = NullChunk, !.of[n] = kind], n, to)

\* createInstance copies the NPCs of the template, followers with their leader.
Template(v, i) == In(v, ChunksInMap(v, <<MapNum(i), None>>)) \cap Npc
Leads(n) == n \notin DOMAIN FirstNpcs \/ FirstNpcs[n].leader \in {None, n}
Following(n) == {f \in DOMAIN FirstNpcs : FirstNpcs[f].leader = n} \ {n}
CopiedEach(v, i) ==  \* mutant
    IF ChunksInMap(v, i) # {} THEN v
    ELSE FoldSet(LAMBDA n, u : Summoned(u, v.of[n], At(v.at[n].at, i)), v,
                 {n \in Template(v, i) : Leads(n)})
Copied(v, i) == UNION {{n} \cup Following(n) : n \in {m \in Template(v, i) : Leads(m)}}
InstanceCreated(v, i) ==
    IF ChunksInMap(v, i) # {} THEN v
    ELSE FoldSet(LAMBDA n, u : Summoned(u, v.of[n], At(v.at[n].at, i)), v, Copied(v, i))

-----------------------------------------------------------------------------
(***************************************************************************)
(* Warps.                                                                  *)
(***************************************************************************)

\* "force player to reload chunks"
Reloaded(v, p, to) == Placed(Moved(v, p, v.at[p], NullChunk), p, to)

\* sendPlayerTo.
SentTo(v, p, to) == InstanceLeft(Reloaded(v, p, to), v.at[p].inst)

\* What it does besides: the player leaves the monkey, and, when it leaves an
\* instance for another, its race.
Afoot(ps) == onMonkey' = onMonkey \ ps
RaceLeft(ps, i) ==
    race' = [p \in Player |->
        IF p \in ps /\ InstanceOf(p) \notin {Overworld, i} THEN None ELSE race[p]]

\* sendPlayerTo as a whole, for one player.
SendPlayerTo(p, to) ==
    /\ w' = SentTo(w, p, to) /\ Afoot({p}) /\ RaceLeft({p}, to.inst)
    /\ UNCHANGED <<leader, recall, queue>>

-----------------------------------------------------------------------------
ChunksInit ==
    /\ LET empty == [chunks |-> <<>>, at |-> [b \in Being |-> Nowhere],
                     view |-> [b \in Being |-> {}], inView |-> [n \in Npc |-> 0],
                     shown |-> [p \in Player |-> {}], of |-> [n \in Npc |-> None]]
           Spawned(n, v) ==
               Placed([v EXCEPT !.at[n] = NullChunk, !.of[n] = n], n,
                      At(FirstNpcs[n].spot, FirstNpcs[n].inst))
       IN  w = FoldSet(Spawned, empty, DOMAIN FirstNpcs)
    /\ leader = [p \in Player |-> p] /\ recall = [p \in Player |-> None]
    /\ race = [p \in Player |-> None] /\ queue = <<>> /\ onMonkey = {}

\* enterPlayer and addPlayer.
Enter(p) ==
    /\ p \notin InGame
    /\ w' = [w EXCEPT !.at[p] = NullChunk, !.view[p] = {}, !.shown[p] = {}]
    /\ leader' = [leader EXCEPT ![p] = p] /\ recall' = [recall EXCEPT ![p] = None]
    /\ onMonkey' = onMonkey \ {p}
    /\ UNCHANGED <<race, queue>>

\* loadPlayer, with the stored position.
LoadPlayer(p) == \E s \in Spots[0] :
    /\ p \in InGame \ Loaded
    /\ w' = Placed(w, p, At(s, Overworld))
    /\ UNCHANGED <<leader, recall, race, queue, onMonkey>>

\* removePlayer, with groupKickPlayer: the group of a leader is dissolved.
RemovePlayer(p) ==
    /\ p \in InGame
    /\ LET here == Viewable(w, w.at[p])
           gone == Untracked(PlayerExits(w, here, p), w.at[p], p)
       IN  w' = InstanceLeft([gone EXCEPT !.at[p] = Nowhere, !.view[p] = {}, !.shown[p] = {}],
                             InstanceOf(p))
    /\ leader' = [q \in Player |-> IF q = p \/ leader[q] = p THEN q ELSE leader[q]]
    /\ race' = [race EXCEPT ![p] = None]
    /\ onMonkey' = onMonkey \ {p} /\ UNCHANGED <<recall, queue>>

\* joinGroup and groupKickPlayer, as Groups has them, without the limit.
JoinGroup(p, q) ==
    /\ {p, q} \subseteq InGame /\ leader[q] = q /\ Members(p) = {p} /\ p # q
    /\ leader' = [leader EXCEPT ![p] = q]
    /\ UNCHANGED <<w, recall, race, queue, onMonkey>>
LeaveGroup(p) ==
    /\ Members(p) # {p}
    /\ leader' = [q \in Player |-> IF q = p \/ leader[q] = p THEN q ELSE leader[q]]
    /\ UNCHANGED <<w, recall, race, queue, onMonkey>>

\* PlayerMovement: to where the client says, which the server does not check.
\* On foot, and by what carries a player far: launchers, ziplines, sliders.
MovedTo(p, s) ==
    /\ p \in Loaded \ onMonkey
    /\ w' = Placed(w, p, At(s, InstanceOf(p)))
    /\ UNCHANGED <<leader, recall, race, queue, onMonkey>>
Move(p) == \E s \in Spots[MapNum(InstanceOf(p))] : Adjacent(s, w.at[p].at) /\ MovedTo(p, s)
Glide(p) == \E s \in Spots[MapNum(InstanceOf(p))] : MovedTo(p, s)

\* Mobs and NPCs on paths.
Roam(n) == \E s \in Spots[MapNum(w.at[n].inst)] :
    /\ Adjacent(s, w.at[n].at)
    /\ w' = Placed(w, n, At(s, w.at[n].inst))
    /\ UNCHANGED <<leader, recall, race, queue, onMonkey>>

\* handleWarp into a lair or a zone.  A lair's entrance becomes the place to
\* recall to, for the others of a group in any case.
WarpInside(p, map) ==
    LET i == <<map, IF map \in Lair THEN leader[p] ELSE None>>
        group == Members(p)
        there == [spot |-> Entrance[map], map |-> map]
        made == IF map \in Lair THEN InstanceCreated(w, i) ELSE w
    IN  /\ p \in Loaded \ onMonkey /\ InstanceOf(p) = Overworld
        /\ map \in Lair => Cardinality(Unused(w)) >= Cardinality(Copied(w, i))
        /\ w' = FoldSet(LAMBDA q, v : SentTo(v, q, At(Entrance[map], i)), made, group)
        /\ recall' = [q \in Player |->
               IF \/ q \in group /\ group # {p}
                  \/ q = p /\ map \in Lair THEN there ELSE recall[q]]
        /\ Afoot(group) /\ RaceLeft(group, i)
        /\ UNCHANGED <<leader, queue>>

\* handleWarp out.
WarpOut(p) ==
    /\ p \in Loaded /\ InstanceOf(p) # Overworld
    /\ w' = SentTo(w, p, At(ExitSpot, Overworld))
    /\ race' = [race EXCEPT ![p] = None]
    /\ UNCHANGED <<leader, recall, queue, onMonkey>>

\* nanoRecallRegisterHandler: a machine of the place where the player is.
RegisterRecall(p, n) ==
    /\ p \in Loaded /\ w.at[n].inst = InstanceOf(p)
    /\ recall' = [recall EXCEPT ![p] = [spot |-> w.at[n].at, map |-> MapNum(w.at[n].inst)]]
    /\ UNCHANGED <<w, leader, race, queue, onMonkey>>

\* The recall skill of a nano, in nanoPower: to the own point.
Recall(p) ==
    /\ p \in Loaded /\ recall[p] # None /\ recall[p].map = MapNum(InstanceOf(p))
    /\ SendPlayerTo(p, At(recall[p].spot, <<recall[p].map, None>>))

\* nanoRecallHandler: to q's point, not from a lair.
RecallTo(p, q) ==
    /\ {p, q} \subseteq Loaded /\ leader[p] = leader[q] /\ InstanceOf(q) = InstanceOf(p)
    /\ PlayerId(InstanceOf(p)) = None
    /\ recall[q] # None /\ recall[q].map = MapNum(InstanceOf(p))
    /\ SendPlayerTo(p, At(recall[q].spot, <<recall[q].map, None>>))

\* reqBuddyWarp.
BuddyWarp(p, q) ==
    /\ p \in Loaded \ onMonkey /\ q \in Loaded \ onMonkey /\ p # q
    /\ InstanceOf(q) = Overworld
    /\ SendPlayerTo(p, w.at[q])

\* warpToPlayer, teleportPlayer and the like: anyone to anyone.
Teleport(p, q) ==
    /\ {p, q} \subseteq InGame /\ p # q /\ w.at[q] # NullChunk
    /\ SendPlayerTo(p, w.at[q])

\* instanceCommand, to an instance of one's own.
SwitchInstance(p, l) ==
    /\ p \in Loaded /\ Cardinality(Unused(w)) >= Cardinality(Copied(w, <<l, p>>))
    /\ w' = SentTo(InstanceCreated(w, <<l, p>>), p, At(w.at[p].at, <<l, p>>))
    /\ recall' = [recall EXCEPT ![p] = IF recall[p] = None THEN None
                                     ELSE [recall[p] EXCEPT !.map = 0]]
    /\ Afoot({p}) /\ RaceLeft({p}, <<l, p>>)
    /\ UNCHANGED <<leader, queue>>

\* refreshCommand.
Refresh(p) ==
    /\ p \in Loaded
    /\ w' = Moved(Moved(w, p, w.at[p], NullChunk), p, NullChunk, w.at[p])
    /\ UNCHANGED <<leader, recall, race, queue, onMonkey>>

\* revivePlayer, unless the player gets up where it is: to the respawn point of
\* the map, or in a lair to its entrance.
Revive(p) == \E s \in Spots[MapNum(InstanceOf(p))] :
    /\ p \in Loaded \ onMonkey
    /\ PlayerId(InstanceOf(p)) # None => recall[p] # None /\ s = recall[p].spot
    /\ w' = Reloaded(w, p, At(s, InstanceOf(p)))
    /\ UNCHANGED <<leader, recall, race, queue, onMonkey>>

\* transportWarpHandler: the S.C.A.M.P.E.R. and the Monkey Skyway, from the overworld.
Scamper(p) == \E s \in Spots[0] :
    /\ p \in Loaded \ onMonkey /\ InstanceOf(p) = Overworld
    /\ w' = Reloaded(w, p, At(s, Overworld))
    /\ UNCHANGED <<leader, recall, race, queue, onMonkey>>
Mount(p) ==
    /\ p \in Loaded \ onMonkey /\ InstanceOf(p) = Overworld
    /\ queue' = [q \in Riding \cup {p} |-> IF q = p THEN Path ELSE queue[q]] /\ onMonkey' = onMonkey \cup {p}
    /\ UNCHANGED <<w, leader, recall, race>>

\* stepSkywaySystem, one tick for all.
Arrived == {p \in Riding \cap InGame : queue[p] = <<>>}
Keeps == (Riding \cap InGame) \ Arrived
StepSkywaySystem ==
    /\ Riding # {}
    /\ w' = FoldSet(LAMBDA p, v : Placed(v, p, At(Head(queue[p]), v.at[p].inst)), w,
                    Keeps \cap InGame)
    /\ queue' = [p \in Keeps |-> IF p \in InGame THEN Tail(queue[p]) ELSE queue[p]]
    /\ onMonkey' = onMonkey \ Arrived
    /\ UNCHANGED <<leader, recall, race>>

\* racingStart, and racingCancel or racingEnd.
StartRace(p) ==
    /\ p \in Loaded /\ MapNum(InstanceOf(p)) \in Zone
    /\ race' = [race EXCEPT ![p] = MapNum(InstanceOf(p))]
    /\ UNCHANGED <<w, leader, recall, queue, onMonkey>>
EndRace(p) ==
    /\ race[p] # None /\ race' = [race EXCEPT ![p] = None]
    /\ UNCHANGED <<w, leader, recall, queue, onMonkey>>

\* npcSummonHandler and the commands like it, and destroyNPC by a command or when
\* a summoned mob has died.  The NPCs of the templates are left alone.
Extra == {n \in Npc \ DOMAIN FirstNpcs : w.of[n] = n}
SummonNpc(p) ==
    /\ p \in Loaded /\ Cardinality(Extra) < MaxSummoned /\ Unused(w) # {}
    /\ w' = Summoned(w, Min(Unused(w)), w.at[p])
    /\ UNCHANGED <<leader, recall, race, queue, onMonkey>>
DestroyNpc(n) ==
    /\ w.at[n] # Nowhere /\ n \notin DOMAIN FirstNpcs
    /\ w' = Destroyed(w, n)
    /\ UNCHANGED <<leader, recall, race, queue, onMonkey>>

\* What goes on all the time, and what may come on top of it.
Walks ==
    \/ \E p \in Player :
        \/ Enter(p) \/ LoadPlayer(p) \/ RemovePlayer(p) \/ Move(p) \/ Glide(p) \/ WarpOut(p) \/ LeaveGroup(p)
        \/ \E q \in Player : JoinGroup(p, q)
        \/ \E map \in Lair \cup Zone : WarpInside(p, map)
Rides == StepSkywaySystem \/ \E p \in Player : Mount(p) \/ Scamper(p) \/ Revive(p)
Races == \E p \in Player : StartRace(p) \/ EndRace(p) \/ Refresh(p)
Recalls ==
    \E p \in Player :
        \/ Recall(p)
        \/ \E n \in RegisterAt : RegisterRecall(p, n)
        \/ \E q \in Player : RecallTo(p, q)
Teleports ==
    \E p, q \in Player :
        \/ BuddyWarp(p, q) \/ Teleport(p, q)
        \/ p = q /\ \E l \in Lair : SwitchInstance(p, l)
Roams == \E n \in Roamer : Roam(n)
Npcs ==
    \/ \E n \in Npc : DestroyNpc(n)
    \/ \E p \in Player : SummonNpc(p)
ChunksNext == Walks \/ Rides \/ Races \/ Recalls \/ Teleports \/ Roams \/ Npcs

-----------------------------------------------------------------------------
(***************************************************************************)
(* Properties.                                                             *)
(***************************************************************************)
ChunksTypeOK ==
    /\ DOMAIN w.chunks \subseteq ChunkPos
    /\ \A c \in DOMAIN w.chunks : w.chunks[c] \subseteq Being
    /\ w.at \in [Being -> ChunkPos \cup {Nowhere}]
    /\ w.view \in [Being -> SUBSET ChunkPos] /\ w.inView \in [Npc -> Nat]
    /\ w.shown \in [Player -> SUBSET Player]
    /\ leader \in [Player -> Player]
    /\ recall \in [Player -> [spot : Spot, map : Map] \cup {None}]
    /\ race \in [Player -> Zone \cup {None}] /\ onMonkey \subseteq InGame
    /\ Riding \subseteq Player

Alive == {n \in Npc : w.at[n] # Nowhere}
Sees(p, b) == w.at[p].inst = w.at[b].inst /\ Adjacent(w.at[p].at, w.at[b].at)

\* playersInView, changed by ones in a dozen handlers, is the number of players
\* whose clients show the NPC: mobs neither freeze nor run for nobody.
PlayersCounted ==
    \A n \in Alive : w.inView[n] = Cardinality({p \in Loaded : Sees(p, n)})

\* Everyone is tracked in one chunk, where it is, no chunk is empty, and the
\* cached viewableChunks, raw pointers, are those that exist around it.
ChunksCurrent ==
    /\ \A c \in DOMAIN w.chunks : w.chunks[c] # {}
    /\ \A b \in Loaded \cup Alive :
        /\ {c \in DOMAIN w.chunks : b \in w.chunks[c]} = {w.at[b]}
        /\ w.view[b] = Viewable(w, w.at[b])

\* Clients show each other's players exactly when these are in view.
NeighboursShown ==
    \A p \in Loaded : w.shown[p] = {q \in Loaded \ {p} : Sees(p, q)}

\* "if the player was in a lair, clean it up": no private instance outlives its
\* last player, whoever leaves it in whatever way.
NoLostInstance ==
    \A n \in Alive : PlayerId(w.at[n].inst) # None =>
        \E p \in Loaded : InstanceOf(p) = w.at[n].inst

\* A race goes on only in its zone.
RacesInZone == \A p \in Player : race[p] # None => MapNum(InstanceOf(p)) = race[p]

\* A client is shown, and an NPC counts, exactly who is in view of it, in chunks
\* that exist: the three views of one position agree after every move.
ViewsAgree == PlayersCounted /\ ChunksCurrent /\ NeighboursShown

\* An instance lasts as long as it is in use: a private lair until its last player
\* is out, a race only while the racer is in its zone.
InstancesLast == NoLostInstance /\ RacesInZone

\* A new lair has every NPC of the template once, where the template has it.
NewLairIsCopy == [][
    \A l \in Lair, o \in Player :
        ChunksInMap(w, <<l, o>>) # {} \/ ChunksInMap(w', <<l, o>>) = {}
        \/ LET mine == {n \in Npc : w'.at[n].inst = <<l, o>>}
               base == {n \in Npc : w.at[n].inst = <<l, None>>}
           IN  /\ Cardinality(mine) = Cardinality(base)
               /\ {<<w'.of[n], w'.at[n].at>> : n \in mine} = {<<w.of[n], w.at[n].at>> : n \in base}
    ]_chunkVars
=============================================================================
