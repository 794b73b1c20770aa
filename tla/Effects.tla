------------------------------ MODULE Effects ------------------------------
(***************************************************************************)
(* What works on a player's body: nanos being equipped, tuned, summoned    *)
(* and worn out (Nanos.cpp), eggs and their buffs (Eggs.cpp), gumballs,    *)
(* goo, debuffs of mobs and the tick that heals and drains (Combat.cpp),   *)
(* and reviving (PlayerManager.cpp).                                       *)
(*                                                                         *)
(* The player is in no group: GroupBuffs has what a group shares.  A skill *)
(* is the bit a passive one holds while its nano is out, ACTIVE for one    *)
(* that is used, or None.  A bit that ends by time is in EggBuffs.         *)
(* activeNano 0 is no nano: what the code does with Nanos[0] is left out.  *)
(***************************************************************************)
EXTENDS Players, Integers, Sequences, FiniteSets, FiniteSetsExt, TLC

CONSTANTS
    Nano,            \* nano ids, positive numbers
    NanoSlot,        \* of equippedNanos, 0 to 2
    PassiveBit,      \* bits of the passive skills, PHOENIX among them if nanos have it
    Egg,             \* egg |-> what it does: a bit of a buff, "harm" or "heal"
    MaxHealth,       \* PC_MAXHEALTH
    MaxStamina,      \* 150
    BatteryUse,      \* what using a skill costs
    MaxWear          \* bound: how far below 0 a nano's stamina may go

INFECTION == "INFECTION"
PHOENIX == "PHOENIX"
STUN == "STUN"       \* stands for SNARE and MEZ too
FREEDOM == "FREEDOM"
PROTECT == "PROTECT_INFECTION"
ACTIVE == "ACTIVE"
Stimpak(slot) == "STIMPAK" \o ToString(slot)
Bit == PassiveBit \cup {INFECTION, STUN} \cup {Stimpak(s) : s \in NanoSlot}
Skill == PassiveBit \cup {ACTIVE, None}

ASSUME EffectsAssumption ==
    /\ Nano \subseteq Nat \ {0} /\ MaxHealth \in Nat \ {0} /\ MaxStamina \in Nat \ {0}
    /\ NanoSlot \subseteq 0 .. 2 /\ PassiveBit \cap {ACTIVE, INFECTION} = {}
    /\ 0 \notin DOMAIN Egg /\ BatteryUse \in 1 .. MaxStamina /\ MaxWear \in Nat /\ None \notin Bit

VARIABLES
    body,       \* player |-> the Player, also while it is only stored
    playing,    \* who is in PlayerManager::players
    EggBuffs,   \* {<<player, bit>>}: those whose time is running
    deadEggs

effectVars == <<body, playing, EggBuffs, deadEggs>>

IsAlive(b) == b.hp > 0
HasOut(b) == b.activeNano # 0
Held(b) == IF HasOut(b) THEN {b.skill[b.activeNano]} \cap PassiveBit ELSE {}

-----------------------------------------------------------------------------
(***************************************************************************)
(* summonNano: the old nano's buff goes, the new one's comes, if its owner *)
(* is alive.                                                               *)
(***************************************************************************)
Unbuff(b) ==
    LET own == b.own \ Held(b)
    IN  [b EXCEPT !.own = own, !.cond = (@ \ (Held(b) \ own)) \cup own]
Buff(b) ==
    [b EXCEPT !.own = @ \cup Held(b), !.cond = IF IsAlive(b) THEN @ \cup Held(b) ELSE @]
NanoSummoned(b, n) == Buff([Unbuff(b) EXCEPT !.activeNano = n])
Dismissed(b) == NanoSummoned(b, 0)

StillOut(b, n) == b  \* mutant
\* "just unsummon the nano to prevent infinite buffs"
Withdrawn(b, n) == IF b.activeNano = n THEN Dismissed(b) ELSE b

\* addNano and setNanoSkill.
Added(b, n) == [Withdrawn(b, n) EXCEPT !.stamina[n] = MaxStamina, !.skill[n] = None,
                                       !.owned = @ \cup {n}]
Tuned(b, n, skill) == [Withdrawn(b, n) EXCEPT !.skill[n] = skill]

\* nanoEquipHandler: "unsummon nano if replaced" compares with the new nano.
Equipped(b, slot, n) ==
    LET c == [b EXCEPT !.slots[slot] = n, !.cond = @ \ {Stimpak(slot)}]
    IN  IF c.activeNano = n THEN Dismissed(c) ELSE c
\* nanoUnEquipHandler.
Unequipped(b, slot) ==
    LET c == IF b.slots[slot] = b.activeNano THEN Dismissed(b) ELSE b
    IN  [c EXCEPT !.slots[slot] = 0]

\* nanoSkillUseHandler: the cost stops at 0.
Used(b) == [b EXCEPT !.stamina[b.activeNano] = Max({0, @ - BatteryUse})]

\* nanoPotionHandler: as much of batteryN as is missing or there.
Charged(b) ==
    LET difference == Min({MaxStamina - b.stamina[b.activeNano], b.batteryN})
    IN  [b EXCEPT !.stamina[b.activeNano] = @ + difference, !.batteryN = @ - difference]

-----------------------------------------------------------------------------
(***************************************************************************)
(* playerTick, every 2 seconds, for one player.                            *)
(***************************************************************************)
Healed(b, amount) == [b EXCEPT !.hp = Min({MaxHealth, @ + amount})]

\* dealGooDamage.  Protection costs the nano that gives it.
GooDamaged(b) ==
    LET c == IF PROTECT \in b.cond
             THEN IF HasOut(b) /\ PROTECT \in b.own
                  THEN [b EXCEPT !.stamina[b.activeNano] = @ - 1] ELSE b
             ELSE [b EXCEPT !.hp = @ - 1]
    IN  IF HasOut(c) /\ c.stamina[c.activeNano] <= 0
        THEN Dismissed([c EXCEPT !.stamina[c.activeNano] = 0]) ELSE c

\* A slot with the active nano spends stamina, any other regains it.
Spent(b, slot) ==
    LET n == b.slots[slot]
        c == [b EXCEPT !.stamina[n] = @ - 1]
    IN  IF slot \notin NanoSlot \/ n = 0 THEN b
        ELSE IF n = b.activeNano THEN IF c.stamina[n] <= 0 THEN Dismissed(c) ELSE c
        ELSE [b EXCEPT !.stamina[n] = IF @ < MaxStamina THEN Min({MaxStamina, @ + 1}) ELSE @]

Ticked(b, heals) ==
    LET goo == IF INFECTION \in b.cond THEN GooDamaged(b) ELSE b
        well == IF heals /\ ~b.inCombat THEN Healed(goo, 1) ELSE goo
    IN  IF ~IsAlive(b) THEN b ELSE Spent(Spent(Spent(well, 0), 1), 2)

-----------------------------------------------------------------------------
NewBody ==
    [hp |-> MaxHealth, activeNano |-> 0, slots |-> [s \in NanoSlot |-> 0], owned |-> {},
     stamina |-> [n \in Nano |-> MaxStamina], skill |-> [n \in Nano |-> None],
     batteryN |-> MaxStamina, cond |-> {}, own |-> {}, inCombat |-> FALSE]

EffectsInit ==
    /\ body = [p \in Player |-> NewBody] /\ playing = {}
    /\ EggBuffs = {} /\ deadEggs = {}

\* loadPlayer and enterPlayer: no nano is out, and no condition is stored.
EnterWorld(p) ==
    /\ p \notin playing /\ playing' = playing \cup {p}
    /\ body' = [body EXCEPT ![p] = [@ EXCEPT !.activeNano = 0, !.cond = {}, !.own = {},
                                             !.inCombat = FALSE]]
    /\ UNCHANGED <<EggBuffs, deadEggs>>

TimersLeft(p) == EggBuffs' = EggBuffs  \* mutant
TimersOut(p) == EggBuffs' = {e \in EggBuffs : e[1] # p}
\* removePlayer.
LeaveWorld(p) ==
    /\ p \in playing /\ playing' = playing \ {p}
    /\ TimersOut(p) /\ UNCHANGED <<body, deadEggs>>

Becomes(p, b) ==
    p \in playing /\ body' = [body EXCEPT ![p] = b] /\ UNCHANGED <<playing, EggBuffs, deadEggs>>

AddNano(p) == \E n \in Nano : Becomes(p, Added(body[p], n))
SetNanoSkill(p) == \E n \in body[p].owned, skill \in Skill : Becomes(p, Tuned(body[p], n, skill))
NanoEquip(p) ==
    \E slot \in NanoSlot, n \in body[p].owned : Becomes(p, Equipped(body[p], slot, n))
NanoUnequip(p) == \E slot \in NanoSlot : Becomes(p, Unequipped(body[p], slot))
SummonNano(p) ==
    \/ Becomes(p, Dismissed(body[p]))
    \/ \E slot \in NanoSlot : LET n == body[p].slots[slot] IN
        n # 0 /\ body[p].skill[n] # None /\ Becomes(p, NanoSummoned(body[p], n))
\* A skill that is used: a heal of oneself, or a mob's business.  A passive one may be
\* used too.
NanoSkillUse(p) ==
    /\ HasOut(body[p])
    /\ \/ Becomes(p, Buff(Used(body[p])))
       \/ Held(body[p]) = {} /\ IsAlive(body[p]) /\ Becomes(p, Healed(Used(body[p]), 1))
NanoPotion(p) == HasOut(body[p]) /\ body[p].batteryN > 0 /\ Becomes(p, Charged(body[p]))

\* Who has fallen out of the world dies at the end of the tick.
PlayerTick(p) == \E heals, fell \in BOOLEAN :
    LET b == Ticked(body[p], heals)
    IN  /\ \A n \in Nano : b.stamina[n] >= -MaxWear
        /\ Becomes(p, IF fell THEN [b EXCEPT !.hp = 0] ELSE b)

\* combatBegin and combatEnd.
Combat(p) == Becomes(p, [body[p] EXCEPT !.inCombat = ~@])
Hurt(p) == body[p].hp > 0 /\ Becomes(p, [body[p] EXCEPT !.hp = @ - 1])

\* dotDamageOnOff compares the bit, not whether it is set, with the flag: ON
\* toggles and OFF clears.
DotDamageOnOff(p) == \E on \in BOOLEAN :
    LET set == INFECTION \in body[p].cond
    IN  Becomes(p, [body[p] EXCEPT !.cond =
            IF on /\ ~set THEN @ \cup {INFECTION} ELSE @ \ {INFECTION}])

\* revivePlayer: by PHOENIX, where one lies, to a respawn point as one is, or the normal
\* way, which halves the nanos.  The conditions are those of the nanos afterwards.
Revived(b, type) ==
    LET c == IF type = "phoenix" /\ PHOENIX \in b.cond /\ HasOut(b)
             THEN [b EXCEPT !.stamina[b.activeNano] = 0] ELSE b
        d == IF type # "normal" THEN c
             ELSE [c EXCEPT !.stamina = [n \in Nano |->
                      IF \E s \in NanoSlot : c.slots[s] = n THEN MaxStamina \div 2 ELSE @[n]]]
    IN  [d EXCEPT !.hp = IF type = "moved" THEN @ ELSE MaxHealth, !.cond = b.own]
RevivePlayer(p) == \E type \in {"phoenix", "here", "moved", "normal"} : Becomes(p, Revived(body[p], type))

\* A bit with a time: an egg's buff (applyBuff), a mob's debuff (doDamageNDebuff)
\* and a gumball (itemUseHandler).
Timed(p, bit) ==
    /\ p \in playing
    /\ body' = [body EXCEPT ![p].cond = @ \cup {bit} \cup body[p].own]
    /\ EggBuffs' = EggBuffs \cup {<<p, bit>>}
MobDebuff(p) == FREEDOM \notin body[p].cond /\ Timed(p, STUN) /\ UNCHANGED <<playing, deadEggs>>
Gumball(p) == \E slot \in NanoSlot :
    body[p].slots[slot] # 0 /\ Timed(p, Stimpak(slot)) /\ UNCHANGED <<playing, deadEggs>>

\* eggPickup.
Cracked(b, e) ==
    IF Egg[e] = "heal" THEN Healed(b, 1) ELSE [b EXCEPT !.hp = Max({0, @ - 1})]
EggPickup(p) == \E e \in DOMAIN Egg \ deadEggs :
    /\ deadEggs' = deadEggs \cup {e} /\ UNCHANGED playing
    /\ IF Egg[e] \in Bit THEN Timed(p, Egg[e])
       ELSE /\ p \in playing /\ UNCHANGED EggBuffs
            /\ body' = [body EXCEPT ![p] = Cracked(body[p], e)]

\* eggStep: a bit whose time is over goes, unless a nano holds it too; and eggs
\* come back.  getPlayer asserts that the player of an entry is there.
EndedFor(b, bit) == (b.cond \ {bit}) \cup b.own
EggBuffEnds(p) == \E e \in EggBuffs :
    /\ e[1] = p
    /\ body' = [body EXCEPT ![p].cond = EndedFor(body[p], e[2])]
    /\ EggBuffs' = EggBuffs \ {e} /\ UNCHANGED <<playing, deadEggs>>
EggRespawns ==
    \E e \in deadEggs : deadEggs' = deadEggs \ {e} /\ UNCHANGED <<body, playing, EggBuffs>>

Comes(p) == EnterWorld(p) \/ LeaveWorld(p)
Nanos(p) ==
    AddNano(p) \/ SetNanoSkill(p) \/ NanoEquip(p) \/ NanoUnequip(p) \/ SummonNano(p)
Wears(p) ==
    NanoSkillUse(p) \/ NanoPotion(p) \/ PlayerTick(p) \/ Combat(p) \/ RevivePlayer(p)
Buffs(p) ==
    MobDebuff(p) \/ Gumball(p) \/ EggPickup(p) \/ EggBuffEnds(p) \/ EggRespawns
Goo(p) == DotDamageOnOff(p)

-----------------------------------------------------------------------------
(***************************************************************************)
(* Properties.                                                             *)
(***************************************************************************)
EffectsTypeOK ==
    /\ playing \subseteq Player /\ EggBuffs \subseteq Player \X Bit
    /\ deadEggs \subseteq DOMAIN Egg
    /\ \A p \in Player :
        /\ body[p].hp \in 0 .. MaxHealth /\ body[p].activeNano \in Nano \cup {0}
        /\ body[p].slots \in [NanoSlot -> Nano \cup {0}]
        /\ body[p].skill \in [Nano -> Skill] /\ body[p].stamina \in [Nano -> Int]
        /\ body[p].cond \subseteq Bit /\ body[p].own \subseteq PassiveBit

\* eggStep looks up the player of every entry whose time is over, and asserts that
\* there is one: no timer outlives its player.
TimersHavePlayers == \A e \in EggBuffs : e[1] \in playing

\* "to prevent infinite buffs": whatever is equipped, tuned and given while a nano
\* is out, a player's own bits are those of the nano that is out, and every other
\* bit it shows ends by a timer or is goo.
NoInfiniteBuffs ==
    \A p \in playing :
        /\ body[p].own = Held(body[p])
        /\ \A bit \in body[p].cond :
            bit \in body[p].own \cup {INFECTION} \/ <<p, bit>> \in EggBuffs
=============================================================================
