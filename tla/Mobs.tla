-------------------------------- MODULE Mobs --------------------------------
(***************************************************************************)
(* MobAI.cpp, with the parts of Combat.cpp and Abilities.cpp by which mobs *)
(* and players reach each other, and the events of NPCManager.cpp that     *)
(* summon mobs where others died.                                          *)
(*                                                                         *)
(* One area with mobs and players near it, elsewhere, or gone from         *)
(* PlayerManager::players.  Distances are left open: whether a player in   *)
(* view is in range is a choice.  step runs for all mobs every 200 ms;     *)
(* here each mob's part is a step of its own, between which packets may be *)
(* handled too.  Health is counted in strikes.                             *)
(***************************************************************************)
EXTENDS Players, Integers, Sequences, FiniteSets, FiniteSetsExt, SequencesExt, TLC

CONSTANTS
    Mob,           \* mob ids
    FirstMobs,     \* mob |-> [kind, leader], leader None outside groups
    MobData,       \* kind |-> [hp, passive, splits]: maxHealth, m_iPassiveBuff
                   \* as a set of conditions, what its ON_KILLED event summons
    MaxBullet      \* bound of a player's projectiles, 127 in the code

VARIABLE arena     \* [place, spared, mobs, bullets, failed]

Debuffs == {"BOUNDINGBALL", "STUN", "MEZ"}
Places == {"near", "far", "gone"}
MobStates == {"ROAMING", "COMBAT", "RETREAT", "DEAD"}
\* skillStyle: -1, 0 to 2, -2 and -3
Styles == {"none", "corruption", "eruption", "cooldown"}

ASSUME MobsAssumption ==
    /\ IsFiniteSet(Player) /\ None \notin Mob /\ MaxBullet \in Nat \ {0}
    /\ Mob \subseteq Nat /\ DOMAIN FirstMobs \subseteq Mob
    /\ \A m \in DOMAIN FirstMobs :
         /\ FirstMobs[m].leader \in DOMAIN FirstMobs \cup {None}
         /\ FirstMobs[m].kind \in DOMAIN MobData
    /\ \A k \in DOMAIN MobData :
         /\ MobData[k].hp \in Nat \ {0} /\ MobData[k].passive \subseteq Debuffs \cup {"FREEDOM"}
         /\ MobData[k].splits \in Seq(DOMAIN MobData)

NewMob(kind, summoned) ==
    [kind |-> kind, state |-> "ROAMING", target |-> None, hp |-> MobData[kind].hp,
     style |-> "none", buffs |-> {}, timed |-> {}, despawned |-> FALSE, summoned |-> summoned]

Full(x) == MobData[x.kind].hp
Gone(v, p) == v.place[p] = "gone"
Near(v) == {p \in Player : v.place[p] = "near"}
\* spared: players with HP <= 0 or invulnerable, whom mobs leave alone.
Prey(v) == Near(v) \ v.spared

LeaderOf(m) == IF m \in DOMAIN FirstMobs THEN FirstMobs[m].leader ELSE None
PackOf(v, m) ==
    IF LeaderOf(m) = None THEN {} ELSE {n \in DOMAIN v.mobs : LeaderOf(n) = LeaderOf(m)}

-----------------------------------------------------------------------------
(***************************************************************************)
(* Engaging and giving up.                                                 *)
(***************************************************************************)
FlagsKept(x) == [x EXCEPT !.style = "none", !.timed = {}]  \* mutant
ClearDebuff(x) == [x EXCEPT !.style = "none", !.buffs = {}, !.timed = {}]

EnterCombat(x, p) ==
    [x EXCEPT !.target = p, !.state = "COMBAT", !.buffs = @ \cup MobData[x.kind].passive]

\* enterCombat and, in a group, followToCombat.
Engaged(v, m, p) ==
    LET led == {n \in PackOf(v, m) \ {m} : v.mobs[n].state = "ROAMING"}
    IN  [v EXCEPT !.mobs = [n \in DOMAIN @ |->
            IF n \in led \cup {m} THEN EnterCombat(@[n], p) ELSE @[n]]]

\* clearDebuff and, in a group, groupRetreat, which asks no member for its state.
Retreating(x) == ClearDebuff([x EXCEPT !.target = None, !.state = "RETREAT"])
Retreated(v, m) ==
    [v EXCEPT !.mobs = [n \in DOMAIN @ |->
        IF n \in PackOf(v, m) \cup {m} THEN Retreating(@[n]) ELSE @[n]]]

\* What happens wherever a mob loses its target: it aggroes on the closest player
\* in range, if there is any, or retreats with its group.
GivesUp(v, m) ==
    LET u == [v EXCEPT !.mobs[m].target = None, !.mobs[m].state = "RETREAT"]
    IN  {Retreated(u, m)} \cup {Engaged(u, m, p) : p \in Prey(u)}

\* Damage to a player, in npcAttackPc and the mob powers: p may go down.
Struck(v, m, p) ==
    {v} \cup IF p \in v.spared THEN {} ELSE GivesUp([v EXCEPT !.spared = @ \cup {p}], m)

-----------------------------------------------------------------------------
(***************************************************************************)
(* Mobs being hit.                                                         *)
(***************************************************************************)
Free(v) == Mob \ (DOMAIN v.mobs \cup DOMAIN FirstMobs)
SummonMob(v, kind) ==
    IF Free(v) = {} THEN v
    ELSE LET m == Min(Free(v))
         IN  [v EXCEPT !.mobs = [n \in DOMAIN @ \cup {m} |-> IF n = m THEN NewMob(kind, TRUE) ELSE @[n]]]

\* The ON_KILLED events.
SplitUp(v, kind) == FoldLeft(LAMBDA u, k : SummonMob(u, k), v, MobData[kind].splits)

\* killMob(mob->target, mob): the rewards go to the target, by getPlayer.
KillMob(v, m) ==
    LET x == v.mobs[m]
        dead == [ClearDebuff(x) EXCEPT !.state = "DEAD", !.target = None, !.despawned = FALSE]
        u == [v EXCEPT !.mobs[m] = dead]
    IN  IF x.target # None /\ Gone(v, x.target) THEN [u EXCEPT !.failed = TRUE]
        ELSE SplitUp(u, x.kind)

AnyState(x) == x.style # "corruption"  \* mutant: also the dead and the retreating
CanHarm(x) == x.state \in {"ROAMING", "COMBAT"} /\ x.style # "corruption"

\* hitMob.
HitMob(v, m, p, damage) ==
    LET u == IF v.mobs[m].state = "ROAMING" THEN Engaged(v, m, p) ELSE v
        t == [u EXCEPT !.mobs[m].hp = @ - damage, !.mobs[m].buffs = @ \ {"MEZ"}]
    IN  IF ~CanHarm(v.mobs[m]) THEN v
        ELSE IF t.mobs[m].hp <= 0 THEN KillMob(t, m) ELSE t

-----------------------------------------------------------------------------
(***************************************************************************)
(* step.                                                                   *)
(***************************************************************************)
RoamingStep(m) == \E p \in Prey(arena) : arena' = Engaged(arena, m, p)

WithStyle(v, m, s) == [v EXCEPT !.mobs[m].style = s]

\* dealCorruption: against the style of the target's nano, a tie, a win that hits
\* back, or a loss.  enterCombat sets nextAttack to 0: a mob that aggroes on another
\* player attacks in the same step.
Corrupted(v, m) ==
    LET u == WithStyle(v, m, "cooldown")
        p == v.mobs[m].target
        lost == Struck(u, m, p)
        anew == {t \in lost : t.mobs[m].target \notin {None, p}}
    IN  {HitMob(u, m, p, 1)} \cup lost \cup UNION {Struck(t, m, t.mobs[m].target) : t \in anew}

\* A mob power with several targets, the eruption; then the style is set, whatever
\* has become of the mob.
Erupted(v, m) ==
    LET struckAll(ps) == FoldSet(LAMBDA p, vs : UNION {Struck(u, m, p) : u \in vs}, {v}, ps)
    IN  {WithStyle(u, m, "cooldown") : u \in UNION {struckAll(ps) : ps \in SUBSET Near(v)}}

\* The active skill, which may be a debuff.
Skilled(v, m) == Struck(v, m, v.mobs[m].target)

\* useAbilities, where it sets the time of the next attack.
Cast(v, m) ==
    CASE v.mobs[m].style = "corruption" -> Corrupted(v, m)
      [] v.mobs[m].style = "eruption" -> Erupted(v, m)
      [] v.mobs[m].style = "none" ->
             Skilled(v, m) \cup {WithStyle(v, m, "corruption"), WithStyle(v, m, "eruption")}
      [] OTHER -> {}

\* The rest of combatStep: attacking, and turning back when the target is too far.
Attacked(v, m) ==
    LET x == v.mobs[m] IN IF x.style = "none" THEN Struck(v, m, x.target) ELSE {v}
Outrun(v, m) == {v, Retreated(v, m)}

GhostIgnored(v, p) == p \in v.spared  \* mutant
LosesAggro(v, p) == Gone(v, p) \/ p \in v.spared

\* drainMobHP.
Drained(v, m) ==
    LET u == [v EXCEPT !.mobs[m].hp = @ - 1] IN IF u.mobs[m].hp <= 0 THEN KillMob(u, m) ELSE u

\* combatStep for a mob whose target is gone or spared.
LoseAggro(m) ==
    /\ LosesAggro(arena, arena.mobs[m].target)
    /\ arena' \in GivesUp(arena, m)

CombatStep(m) ==
    LET x == arena.mobs[m]
    IN  /\ ~LosesAggro(arena, x.target)
        /\ \E v \in {arena} \cup
                 (IF x.style # "corruption" /\ "BOUNDINGBALL" \in x.buffs
                  THEN {Drained(arena, m)} ELSE {}),
              expired \in SUBSET x.timed :
            LET u == [v EXCEPT !.mobs[m].buffs = @ \ expired, !.mobs[m].timed = @ \ expired]
                y == u.mobs[m]
                idle == IF y.style = "cooldown" THEN WithStyle(u, m, "none") ELSE u
            IN  IF v.mobs[m].hp <= 0 THEN arena' = v
                ELSE IF y.buffs \cap {"STUN", "MEZ"} # {}
                     THEN arena' = WithStyle(u, m, "none")
                ELSE \/ \E t \in Cast(u, m) :
                          IF t.mobs[m].target = None THEN arena' = t ELSE arena' \in Outrun(t, m)
                     \/ \E t \in {idle} \cup Attacked(idle, m) : arena' \in Outrun(t, m)

\* retreatStep, back where the mob entered combat.
RetreatStep(m) ==
    arena' = [arena EXCEPT !.mobs[m] =
        [ClearDebuff(@) EXCEPT !.state = "ROAMING", !.hp = Full(arena.mobs[m])]]

Removed(v, m) == [v EXCEPT !.mobs = [n \in DOMAIN @ \ {m} |-> @[n]]]

\* Despawning, two seconds after the death, and respawning, after m_iRegenTime, which
\* may be less.
DeadStep(m) ==
    LET x == arena.mobs[m]
    IN  \/ /\ ~x.despawned
           /\ arena' = IF x.summoned THEN Removed(arena, m)
                       ELSE [arena EXCEPT !.mobs[m].despawned = TRUE]
        \/ arena' = [arena EXCEPT !.mobs[m] = [@ EXCEPT !.state = "ROAMING", !.hp = Full(x)]]

MobStep(m) ==
    /\ ~arena.failed /\ m \in DOMAIN arena.mobs
    /\ LET state == arena.mobs[m].state
       IN  \/ state = "ROAMING" /\ Near(arena) # {} /\ RoamingStep(m)
           \/ state = "COMBAT" /\ Near(arena) # {} /\ (LoseAggro(m) \/ CombatStep(m))
           \/ state = "RETREAT" /\ RetreatStep(m)
           \/ state = "DEAD" /\ DeadStep(m)

-----------------------------------------------------------------------------
(***************************************************************************)
(* Packets.                                                                *)
(***************************************************************************)
Acts(p) == ~arena.failed /\ ~Gone(arena, p)

\* A hit of several mobs stops at one that is not there any more.
HitAll(v, p, ms) ==
    LET known == SelectInSeq(ms, LAMBDA m : m \notin DOMAIN v.mobs)
        hit == IF known = 0 THEN ms ELSE SubSeq(ms, 1, known - 1)
    IN  FoldLeft(LAMBDA u, m : IF u.failed THEN u ELSE HitMob(u, m, p, 1), v, hit)
Volleys ==
    {<<m>> : m \in Mob} \cup ({<<m, n>> : m, n \in DOMAIN arena.mobs} \ {<<m, m>> : m \in Mob})

\* pcAttackNpcs, pcAttackChars, and the nano powers doDamage and doLeech.
PcAttackNpcs(p) == \E ms \in Volleys : Acts(p) /\ arena' = HitAll(arena, p, ms)

\* grenadeFire and rocketFire, by addBullet: the lowest free id, or 0 again.
Fire(p) ==
    /\ Acts(p)
    /\ LET free == (0 .. MaxBullet - 1) \ arena.bullets[p]
       IN  arena' = [arena EXCEPT !.bullets[p] = @ \cup {IF free = {} THEN 0 ELSE Min(free)}]

ProjectileHit(p) == \E b \in arena.bullets[p], ms \in {<<>>} \cup Volleys :
    /\ Acts(p)
    /\ LET hit == HitAll(arena, p, ms)
       IN  arena' = IF ToSet(ms) \subseteq DOMAIN arena.mobs
                    THEN [hit EXCEPT !.bullets[p] = @ \ {b}] ELSE hit

\* The nano powers doDebuff and doDamageNDebuff: a hit without damage, and then
\* only the retreating are spared the debuff.
Debuff(p, m, d) ==
    /\ Acts(p) /\ m \in DOMAIN arena.mobs
    /\ LET v == HitMob(arena, m, p, 0)
           x == v.mobs[m]
           protected == x.style = "corruption" \/ x.state = "RETREAT" \/ "FREEDOM" \in x.buffs
       IN  arena' = IF protected THEN v
                    ELSE [v EXCEPT !.mobs[m].buffs = @ \cup {d}, !.mobs[m].timed = @ \cup {d}]

\* Coming into view, going out of it, and leaving the game (removePlayer); going
\* down by other means (goo, a fall, a GM) and getting up.  Who comes back has
\* another CNSocket: for a mob that has not noticed, the old one, or another player,
\* to whom the allocator gave its address.
GoTo(p, place) ==
    /\ ~arena.failed /\ place # arena.place[p]
    /\ arena' = IF place = "gone"
                THEN [arena EXCEPT !.place[p] = place, !.spared = @ \ {p}, !.bullets[p] = {}]
                ELSE [arena EXCEPT !.place[p] = place]
Fall(p) == Acts(p) /\ p \notin arena.spared /\ arena' = [arena EXCEPT !.spared = @ \cup {p}]
GetUp(p) == Acts(p) /\ p \in arena.spared /\ arena' = [arena EXCEPT !.spared = @ \ {p}]

\* npcSummonHandler, and destroyNPC by a command.
Summon(p, kind) == Acts(p) /\ Free(arena) # {} /\ arena' = SummonMob(arena, kind)
Unsummon(p, m) ==
    /\ Acts(p) /\ m \in DOMAIN arena.mobs /\ arena.mobs[m].summoned
    /\ arena' = Removed(arena, m)

-----------------------------------------------------------------------------
\* The mobs ms alone, of FirstMobs.
MobsInit(ms) ==
    arena = [place |-> [p \in Player |-> "gone"], spared |-> {},
             mobs |-> [m \in ms |-> NewMob(FirstMobs[m].kind, FALSE)],
             bullets |-> [p \in Player |-> {}], failed |-> FALSE]

Fights ==
    \/ \E m \in Mob : MobStep(m)
    \/ \E p \in Player :
        \/ PcAttackNpcs(p)
        \/ \E place \in Places : GoTo(p, place)
Falls == \E p \in Player : Fall(p) \/ GetUp(p)
Powers == \E p \in Player, m \in Mob, d \in Debuffs : Debuff(p, m, d)
Shots == \E p \in Player : Fire(p) \/ ProjectileHit(p)
Spawns == \E p \in Player :
    \E m \in DOMAIN arena.mobs : Summon(p, arena.mobs[m].kind) \/ Unsummon(p, m)
MobsNext == Fights \/ Falls \/ Powers \/ Shots \/ Spawns

-----------------------------------------------------------------------------
(***************************************************************************)
(* Properties.                                                             *)
(***************************************************************************)
MobsTypeOK ==
    /\ arena.place \in [Player -> Places] /\ arena.spared \subseteq Player
    /\ arena.bullets \in [Player -> SUBSET (0 .. MaxBullet - 1)] /\ arena.failed \in BOOLEAN
    /\ DOMAIN arena.mobs \subseteq Mob
    /\ \A m \in DOMAIN arena.mobs : LET x == arena.mobs[m] IN
        /\ x.kind \in DOMAIN MobData /\ x.state \in MobStates /\ x.style \in Styles
        /\ x.target \in Player \cup {None} /\ x.hp <= Full(x)
        /\ x.buffs \subseteq Debuffs \cup {"FREEDOM"} /\ x.timed \subseteq Debuffs
        /\ x.despawned \in BOOLEAN /\ x.summoned \in BOOLEAN

\* A mob has a target exactly when it fights, which the assertions of combatStep
\* and hitMob rely on; one that roams is whole and winds nothing up; and every
\* debuff has the time at which it ends.
MobsConsistent ==
    \A m \in DOMAIN arena.mobs : LET x == arena.mobs[m] IN
        /\ x.state = "COMBAT" <=> x.target # None
        /\ x.state = "ROAMING" => x.hp = Full(x) /\ x.style = "none"
        /\ x.state = "DEAD" => x.style = "none"
        /\ x.hp <= 0 => x.state \in {"DEAD", "RETREAT"}
        /\ x.buffs \subseteq x.timed \cup MobData[x.kind].passive

\* "cannot kill mobs multiple times; cannot harm retreating mobs": whoever hits
\* them, the dead and the retreating lose nothing, and outside groups a dead mob
\* comes back only whole.
DeadStayDead == [][
    \A m \in DOMAIN arena.mobs \cap DOMAIN arena'.mobs :
        LET x == arena.mobs[m]
            y == arena'.mobs[m]
        IN  /\ x.state \in {"DEAD", "RETREAT"} => y.hp >= x.hp /\ y.state # "COMBAT"
            /\ x.state = "DEAD" /\ LeaderOf(m) = None =>
                   \/ y.state = "DEAD"
                   \/ y.state = "ROAMING" /\ y.hp = Full(y)
    ]_arena

\* "lose aggro if the player lost connection": while anybody is near, a mob does
\* not go on fighting a player who is gone.
Haunted(m) ==
    /\ m \in DOMAIN arena.mobs /\ ~arena.failed /\ Near(arena) # {}
    /\ arena.mobs[m].target # None /\ Gone(arena, arena.mobs[m].target)
GhostsForgotten == \A m \in Mob : Haunted(m) ~> ~Haunted(m)

\* "this should never happen": getPlayer finds the player of every CNSocket it is
\* given.
NoAssertion == ~arena.failed
=============================================================================
