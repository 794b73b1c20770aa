------------------------------ MODULE Missions ------------------------------
(***************************************************************************)
(* Missions.cpp: the tasks of one player, the mobs each still asks for,    *)
(* quest items, rewards, fusion matter and nano missions.                  *)
(*                                                                         *)
(* The client decides which tasks start and end, and sends tasks of its    *)
(* mission log.  The handlers change the same few fields of Player one     *)
(* after the other: these are one record, and a handler is a composition   *)
(* of operators that take and return it.  Mobs' quest items drop or not.   *)
(***************************************************************************)
EXTENDS Inventory

CONSTANTS
    Task,           \* mission tasks
    TaskData,       \* Missions::Tasks: what the server reads of a task
    Rewards,        \* a task |-> [items, fm] given at its end
    AvatarGrowth,   \* level |-> [cap, need, task]: FM limit, FM for and task of the nano mission;
                    \* the table begins with an entry for level 0
    MaxLevel,       \* 36 in the code
    ActiveTasks,    \* ACTIVE_MISSION_COUNT, 6 in the code
    QuestPlaces,    \* AQINVEN_COUNT, 50 in the code
    MobType,        \* kinds of mobs that tasks ask for
    FmGain,         \* fusion matter from elsewhere: mobs, races, commands
    StartRoom, MaxQuestItems   \* bound on one stack of quest items

TaskSlot == 1 .. ActiveTasks
QPlace == 1 .. QuestPlaces
Objective == 1 .. 3
Level == 1 .. MaxLevel

\* What the loaders of TableData.cpp make of the tables.  A nano of a mission is
\* one of a level.
TaskType ==
    [toKill : [Objective -> Nat], enemy : [Objective -> MobType \cup {None}],
     csuItem : [Objective -> Item \cup {None}], csuNeeded : [Objective -> Nat],
     suItem : [Objective -> Item \cup {None}], suCount : [Objective -> Int],
     stItem : [Objective -> Item \cup {None}], stNeeded : [Objective -> Int],
     nano : 0 .. MaxLevel, outgoing : Nat, mission : Nat, failTo : Task \cup {None},
     timed : BOOLEAN, hunt : BOOLEAN, escort : BOOLEAN, instanced : BOOLEAN]

ASSUME MissionsAssumption ==
    /\ None \notin Task /\ ActiveTasks \in Nat \ {0} /\ QuestPlaces \in Nat \ {0}
    /\ MaxLevel \in Nat \ {0} /\ StartRoom \in Nat /\ FmGain \subseteq Int
    /\ TaskData \in [Task -> TaskType]
    /\ DOMAIN Rewards \subseteq Task /\ \A t \in DOMAIN Rewards : Rewards[t] \in [items : Nat, fm : Nat]
    /\ AvatarGrowth \in [0 .. MaxLevel -> [cap : Nat, need : Nat, task : Task \cup {None}]]

VARIABLES quest
missionVars == <<quest>>

Idle == [j \in Objective |-> 0]
IsNano(t) == t # None /\ TaskData[t].nano # 0
Free(m) == {i \in TaskSlot : m.tasks[i] = None}

MissionsInit ==
    quest = [tasks |-> [i \in TaskSlot |-> None],
             left |-> [i \in TaskSlot |-> Idle],       \* RemainingNPCCount
             q |-> [s \in QPlace |-> NoItem],          \* QInven
             current |-> None,                         \* CurrentMissionID
             done |-> {},                              \* aQuestFlag
             fm |-> 0, level |-> 1,
             room |-> StartRoom]                       \* free places of Inven

-----------------------------------------------------------------------------
(***************************************************************************)
(* Quest items.  A stack that was dropped to nothing is erased.            *)
(***************************************************************************)

\* "two passes. we mustn't fail to find an existing stack."
FirstFree(m, item) ==  \* mutant
    {s \in QPlace : m.q[s].opt = 0 \/ m.q[s].item = item}
QSlots(m, item) ==
    LET same == {s \in QPlace : m.q[s].item = item}
    IN  IF same # {} THEN same ELSE {s \in QPlace : m.q[s].opt = 0}

Dropped(m, item, count) ==
    IF item = None \/ QSlots(m, item) = {} THEN m
    ELSE LET s == Min(QSlots(m, item))
             n == m.q[s].opt + count
         IN  [m EXCEPT !.q[s] = IF n <= 0 THEN NoItem ELSE Of(item, n)]

DroppedAll(m, things, counts) ==
    LET Give(n, j) == Dropped(n, things[j], counts[j])
    IN  Give(Give(Give(m, 1), 2), 3)

IsQuestItemFull(m, item, count) ==
    QSlots(m, item) = {} \/ m.q[Min(QSlots(m, item))].opt = count

-----------------------------------------------------------------------------
(***************************************************************************)
(* Tasks.                                                                  *)
(***************************************************************************)

\* What startTask does for a nano task while another one is first: it moves that
\* one to a free slot.  With none free it writes behind the two arrays, onto
\* RemainingNPCCount[0] and the first quest item.
Aside(m) ==
    IF m.tasks[1] = None THEN m
    ELSE LET to == {i \in TaskSlot : i > 1 /\ m.tasks[i] = None}
             cleared == [m EXCEPT !.tasks[1] = None, !.left[1] = Idle]
         IN  IF to # {}
             THEN [cleared EXCEPT !.tasks[Min(to)] = m.tasks[1], !.left[Min(to)] = m.left[1]]
             ELSE [cleared EXCEPT !.q[1] = Of(None, m.left[1][2])]

\* startTask.  Its last check compares the counter with a value it never has, so
\* that a task that finds no slot is taken for started.
Started(m, t) ==
    LET ready == IF IsNano(t) THEN Aside(m) ELSE m
    IN  IF Free(ready) = {} THEN ready
        ELSE [ready EXCEPT !.tasks[Min(Free(ready))] = t,
                           !.left[Min(Free(ready))] = TaskData[t].toKill]

\* The slots of a task are cleared, by endTask and quitTask.
Cleared(m, t) ==
    [m EXCEPT !.tasks = [i \in TaskSlot |-> IF m.tasks[i] = t THEN None ELSE m.tasks[i]],
              !.left = [i \in TaskSlot |-> IF m.tasks[i] = t THEN Idle ELSE m.left[i]]]

\* updateFusionMatter: starts the nano mission of the level once there is enough.
\* A player of the Future (payzone 0) at level 4 is not modelled.
AnyNano(m) == \E i \in TaskSlot : IsNano(m.tasks[i])
Fused(m, fusion) ==
    LET growth == AvatarGrowth[m.level]
        fm == Max({0, Min({m.fm + fusion, growth.cap})})
        now == [m EXCEPT !.fm = fm]
    IN  IF growth.task = None \/ fm < growth.need \/ AnyNano(now) THEN now
        ELSE Started(now, growth.task)

\* Nanos::addNano, for the last task of a nano mission.
NanoAdded(m, nano) ==
    LET level == Max({nano, m.level})
    IN  Fused([m EXCEPT !.level = level], -AvatarGrowth[level - 1].need)

\* giveMissionReward, if there is room.  A boost may add to the fusion matter.
Rewarded(m, t, boost) ==
    Fused([m EXCEPT !.room = @ - Rewards[t].items], Rewards[t].fm + boost)
MayReward(m, t) == t \in DOMAIN Rewards => Rewards[t].items <= m.room

\* endTask after the slot has been cleared and the reward was given.
Finished(m, t) ==
    LET given == DroppedAll(m, TaskData[t].suItem, TaskData[t].suCount)
        saved == [given EXCEPT !.done = @ \cup {TaskData[t].mission}]
        nano == IF IsNano(t) THEN NanoAdded(saved, TaskData[t].nano) ELSE saved
    IN  IF TaskData[t].outgoing = 0 THEN [nano EXCEPT !.current = None] ELSE given

\* endTask.  Any task may be ended, also one that is in no slot: the check is as
\* in startTask.  Without room for the reward only the slot is cleared.
Ended(m, t, boost) ==
    LET cleared == Cleared(m, t)
    IN  IF ~MayReward(cleared, t) THEN cleared
        ELSE IF t \in DOMAIN Rewards THEN Finished(Rewarded(cleared, t, boost), t)
        ELSE Finished(cleared, t)

\* quitTask.  A player that quits, rather than fails, gives its quest items back.
Quit(m, t, manual) ==
    LET d == TaskData[t]
        gone == {d.suItem[j] : j \in Objective} \cup {d.csuItem[j] : j \in Objective}
                \cup {d.stItem[j] : j \in {k \in Objective : d.suItem[k] # None \/ d.csuItem[k] # None}}
        cleared == [Cleared(m, t) EXCEPT !.current = None]
    IN  IF manual
        THEN [cleared EXCEPT !.q = [s \in QPlace |-> IF @[s].item \in gone \ {None} THEN NoItem ELSE @[s]]]
        ELSE cleared

-----------------------------------------------------------------------------
(***************************************************************************)
(* Handlers.                                                               *)
(***************************************************************************)

\* The client starts a task that it has not got; one nano mission at a time; it
\* knows how many tasks there may be.
TaskStart(t, boost) ==
    /\ t \notin {quest.tasks[i] : i \in TaskSlot} /\ Free(quest) # {}
    /\ IsNano(t) => ~AnyNano(quest)
    /\ LET begun == DroppedAll(Started(quest, t), TaskData[t].stItem, TaskData[t].stNeeded)
       IN  quest' = IF TaskData[t].escort THEN Ended(begun, t, boost) ELSE begun

\* A timed task whose time is up (the NPC of the request is 0): if its mobs are
\* still alive and it has a task to fail to, it is quit.  What quitTask has cleared
\* is not found again to be replaced.
MobsAreKilled(t) ==
    TaskData[t].hunt /\ \A i \in TaskSlot : quest.tasks[i] = t => quest.left[i] = Idle

TaskEnd(t, timeUp, boost) ==
    quest' = IF timeUp /\ TaskData[t].timed /\ ~MobsAreKilled(t) /\ TaskData[t].failTo # None
             THEN Quit(quest, t, FALSE)
             ELSE Ended(quest, t, boost)

\* The client ends a task when it has met its conditions, again if there was no room.
ClientEnds(t) == t \in {quest.tasks[i] : i \in TaskSlot}

SetMission(t) == quest' = [quest EXCEPT !.current = TaskData[t].mission]

QuitMission(t) ==
    /\ t \in {quest.tasks[i] : i \in TaskSlot}
    /\ quest' = Quit(quest, t, TRUE)

\* mobKilled, for every slot and objective in turn.
OneFewer(n) == IF n > 0 THEN n - 1 ELSE 0
MobKilled(mob, luck) ==
    LET Wanted(i, j) == quest.tasks[i] # None /\ TaskData[quest.tasks[i]].enemy[j] = mob
        counted == [quest EXCEPT !.left =
                       [i \in TaskSlot |-> [j \in Objective |->
                           IF Wanted(i, j) THEN OneFewer(@[i][j]) ELSE @[i][j]]]]
        Loot[n \in 0 .. 3 * ActiveTasks] ==
            IF n = 0 THEN counted
            ELSE LET i == ((n - 1) \div 3) + 1
                     j == ((n - 1) % 3) + 1
                     m == Loot[n - 1]
                 IN  IF ~Wanted(i, j) THEN m
                     ELSE LET d == TaskData[m.tasks[i]]
                          IN  IF ~luck \/ d.csuNeeded[j] = 0
                                 \/ IsQuestItemFull(m, d.csuItem[j], d.csuNeeded[j])
                              THEN m ELSE Dropped(m, d.csuItem[j], 1)
    IN  quest' = Loot[3 * ActiveTasks]

\* failInstancedMissions: the player leaves an instance.
FailInstanced ==
    LET Fail[i \in 0 .. ActiveTasks] ==
            IF i = 0 THEN quest
            ELSE LET m == Fail[i - 1]
                     t == m.tasks[i]
                 IN  IF t # None /\ TaskData[t].instanced /\ TaskData[t].failTo # None
                     THEN Quit(m, t, FALSE) ELSE m
    IN  quest' = Fail[ActiveTasks]

\* PlayerManager::changePlayerGuide: every mission is aborted, and the nano mission
\* begins anew with the new guide.
ChangeGuide ==
    LET Abort[i \in 0 .. ActiveTasks] ==
            IF i = 0 THEN quest
            ELSE IF Abort[i - 1].tasks[i] = None THEN Abort[i - 1]
                 ELSE Quit(Abort[i - 1], Abort[i - 1].tasks[i], TRUE)
    IN  quest' = Fused(Abort[ActiveTasks], 0)

GainFusion(fusion) == quest' = Fused(quest, fusion)

\* Elsewhere the player makes room in its inventory, or fills it.
RoomChanges == \E n \in 0 .. StartRoom : quest' = [quest EXCEPT !.room = n]

\* Items that are given at the start of a task pile up when it fails and begins again.
FewQuestItems == \A s \in QPlace : quest'.q[s].opt <= MaxQuestItems

\* A boost adds to a reward, and only a timed task runs out of time.
Boost(t) == IF t \in DOMAIN Rewards THEN {0, 1} ELSE {0}

MissionsNext ==
    \/ \E t \in Task : \E boost \in Boost(t) :
        \/ TaskStart(t, boost) /\ FewQuestItems
        \/ \E timeUp \in {FALSE, TaskData[t].timed} : ClientEnds(t) /\ TaskEnd(t, timeUp, boost)
    \/ \E t \in Task : SetMission(t) \/ QuitMission(t)
    \/ \E mob \in MobType, luck \in BOOLEAN : MobKilled(mob, luck) /\ FewQuestItems
    \/ FailInstanced \/ ChangeGuide \/ RoomChanges
    \/ \E fusion \in FmGain : GainFusion(fusion)

MissionsSpec == MissionsInit /\ [][MissionsNext]_missionVars

-----------------------------------------------------------------------------

Mission == {TaskData[t].mission : t \in Task}
Quest ==
    [tasks : [TaskSlot -> Task \cup {None}], left : [TaskSlot -> [Objective -> Nat]],
     q : [QPlace -> Stack], current : Mission \cup {None}, done : SUBSET Mission,
     fm : Nat, level : Level, room : 0 .. StartRoom]

\* The types of the fields, fusion matter within the limit of the level.
MissionsTypeOK == quest \in Quest /\ quest.fm <= AvatarGrowth[quest.level].cap

\* The nano task is the first: "client freaks out if nano mission isn't sent first
\* after relogging" (Missions.cpp:282), whatever else was started, ended, moved
\* aside or failed before.
NanoFirst == \A i \in TaskSlot : IsNano(quest.tasks[i]) => i = 1

\* The mobs that remain are those of the task in the same slot, never more than it
\* asks for, through every move between slots (Missions.cpp:218, 293, 303, 433).
CountsMatch ==
    \A i \in TaskSlot, j \in Objective :
        quest.left[i][j] > 0 =>
            quest.tasks[i] # None /\ quest.left[i][j] <= TaskData[quest.tasks[i]].toKill[j]

\* There is one stack of each quest item: "we mustn't fail to find an existing
\* stack" (Missions.cpp:33), or a task that counts them is never fulfilled.
OneStackPerItem ==
    \A s, u \in QPlace :
        quest.q[s].item # None /\ quest.q[s].item = quest.q[u].item => s = u

\* The three arrays of a player's missions fit each other: the order of the tasks,
\* what remains of them and the quest items that count for them.
TasksConsistent == NanoFirst /\ CountsMatch /\ OneStackPerItem
=============================================================================
