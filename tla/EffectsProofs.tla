--------------------------- MODULE EffectsProofs ---------------------------
(***************************************************************************)
(* No buff without an end, for any nanos, skills and eggs: whatever        *)
(* handlers do to a Player, what its own nano holds is what the nano that  *)
(* is out gives, and nothing else stays without a timer.                   *)
(*                                                                         *)
(* A handler is an operator from a body to a body.  Preserves says of one what *)
(* the theorem needs, and holds for compositions too: the proof is one     *)
(* lemma per operator and one step per action.                             *)
(***************************************************************************)
EXTENDS Effects, DataLemmas

EffectsNext == \E p \in Player : Comes(p) \/ Nanos(p) \/ Wears(p) \/ Buffs(p) \/ Goo(p) \/ Hurt(p)
EffectsSpec == EffectsInit /\ [][EffectsNext]_effectVars

Body ==
    [hp : 0 .. MaxHealth, activeNano : Nano \cup {0}, slots : [NanoSlot -> Nano \cup {0}],
     owned : SUBSET Nano, stamina : [Nano -> Int], skill : [Nano -> Skill], batteryN : Int,
     cond : SUBSET Bit, own : SUBSET PassiveBit, inCombat : BOOLEAN]

Sound(b) == b \in Body /\ b.own = Held(b)
\* The bits that have to end by a timer.
Timely(b) == b.cond \ (b.own \cup {INFECTION})
Preserves(b, c) == Sound(c) /\ Timely(c) \subseteq Timely(b)

\* What the proofs need of the constants.
LEMMA Constants ==
    /\ MaxHealth \in Nat /\ MaxStamina \in Nat /\ BatteryUse \in Int
    /\ 0 \notin Nano /\ None \notin PassiveBit /\ INFECTION \notin PassiveBit
    /\ NanoSlot \subseteq 0 .. 2
  BY EffectsAssumption DEF EffectsAssumption, Bit

LEMMA PreservedAgain ==
    ASSUME NEW a, NEW b, NEW c, Preserves(a, b), Preserves(b, c)
    PROVE  Preserves(a, c)
  BY DEF Preserves

-----------------------------------------------------------------------------

\* summonNano.
LEMMA SummonKeeps ==
    ASSUME NEW b, Sound(b), NEW n \in Nano \cup {0}
    PROVE  Preserves(b, NanoSummoned(b, n)) /\ NanoSummoned(b, n).activeNano = n
  <1> DEFINE c == [Unbuff(b) EXCEPT !.activeNano = n]
  <1>1. /\ c \in Body /\ c.own = {} /\ c.activeNano = n
        /\ c.cond = b.cond \ b.own
    BY DEF Unbuff, Sound, Body
  <1>2. Held(c) \subseteq PassiveBit
    BY DEF Held
  <1>3. Buff(c) = [c EXCEPT !.own = Held(c),
                            !.cond = IF IsAlive(c) THEN c.cond \cup Held(c) ELSE c.cond]
    BY <1>1 DEF Buff, Body
  <1>4. /\ Buff(c) \in Body /\ Held(Buff(c)) = Held(c) /\ Buff(c).own = Held(c)
        /\ Buff(c).cond \subseteq c.cond \cup Held(c) /\ Buff(c).activeNano = n
    <2>1. Held(c) \subseteq Bit
      BY <1>2 DEF Bit
    <2> HIDE DEF c
    <2> QED
      BY <1>1, <1>2, <1>3, <2>1 DEF Body, Held, HasOut
  <1>5. Timely(Buff(c)) \subseteq Timely(b)
    BY <1>1, <1>4 DEF Timely
  <1> QED
    BY <1>4, <1>5 DEF Preserves, Sound, NanoSummoned

LEMMA DismissKeeps ==
    ASSUME NEW b, Sound(b)
    PROVE  Preserves(b, Dismissed(b)) /\ Dismissed(b).activeNano = 0
  BY SummonKeeps DEF Dismissed

LEMMA SameKeeps ==
    ASSUME NEW b, Sound(b)
    PROVE  Preserves(b, b)
  BY DEF Preserves

LEMMA WithdrawKeeps ==
    ASSUME NEW b, Sound(b), NEW n \in Nano
    PROVE  Preserves(b, Withdrawn(b, n)) /\ Withdrawn(b, n).activeNano # n
  <1>1. n # 0
    BY EffectsAssumption
  <1> QED
    BY <1>1, DismissKeeps, SameKeeps DEF Withdrawn

\* What leaves a body's nanos, skills and conditions alone.
LEMMA LikeKeeps ==
    ASSUME NEW b, NEW c, Sound(b), c \in Body, c.activeNano = b.activeNano, c.skill = b.skill,
           c.own = b.own, c.cond = b.cond
    PROVE  Preserves(b, c)
  BY DEF Preserves, Sound, Held, HasOut, Timely

\* Whatever becomes of a nano's stamina.
LEMMA StaminaKeeps ==
    ASSUME NEW b, Sound(b), NEW n \in Nano, NEW k \in Int
    PROVE  Preserves(b, [b EXCEPT !.stamina[n] = k])
  <1> DEFINE c == [b EXCEPT !.stamina[n] = k]
  <1>1. /\ c \in Body /\ c.cond = b.cond /\ c.own = b.own
        /\ c.skill = b.skill /\ c.activeNano = b.activeNano
    BY DEF Sound, Body
  <1> HIDE DEF c
  <1>2. Preserves(b, c)
    BY <1>1, LikeKeeps
  <1> QED
    BY <1>2 DEF c

\* addNano and setNanoSkill change the skill of a nano that is not out.
LEMMA AddedKeeps ==
    ASSUME NEW b, Sound(b), NEW n \in Nano
    PROVE  Preserves(b, Added(b, n))
  <1> DEFINE c == Withdrawn(b, n)
  <1>1. Preserves(b, c) /\ c.activeNano # n
    BY WithdrawKeeps
  <1> HIDE DEF c
  <1> DEFINE d == [c EXCEPT !.stamina[n] = MaxStamina]
             e == [d EXCEPT !.skill = [@ EXCEPT ![n] = None]]
  <1>2. Preserves(c, d) /\ d.activeNano # n
    <2>1. Sound(c) /\ MaxStamina \in Int
      BY <1>1, Constants DEF Preserves
    <2>2. Preserves(c, d)
      BY <2>1, StaminaKeeps
    <2>3. d.activeNano = c.activeNano
      BY <2>1 DEF Sound, Body
    <2> QED
      BY <1>1, <2>2, <2>3
  <1>3. Added(b, n) = [e EXCEPT !.owned = c.owned \cup {n}]
    BY DEF Added, c
  <1> HIDE DEF d
  <1>4. /\ e \in Body /\ Held(e) = Held(d) /\ e.own = d.own /\ e.cond = d.cond
    BY <1>2 DEF Preserves, Sound, Body, Held, HasOut, Skill
  <1>5. c.owned \cup {n} \in SUBSET Nano
    BY <1>1 DEF Preserves, Sound, Body
  <1> HIDE DEF e
  <1>6. /\ Added(b, n) \in Body /\ Added(b, n).own = e.own /\ Added(b, n).cond = e.cond
        /\ Added(b, n).skill = e.skill /\ Added(b, n).activeNano = e.activeNano
    BY <1>3, <1>4, <1>5 DEF Body
  <1>7. Preserves(d, e)
    BY <1>2, <1>4 DEF Preserves, Sound, Timely
  <1> QED
    BY <1>1, <1>2, <1>6, <1>7, LikeKeeps, PreservedAgain DEF Preserves

LEMMA TunedKeeps ==
    ASSUME NEW b, Sound(b), NEW n \in Nano, NEW skill \in Skill
    PROVE  Preserves(b, Tuned(b, n, skill))
  <1> DEFINE c == Withdrawn(b, n)
  <1>1. Preserves(b, c) /\ c.activeNano # n
    BY WithdrawKeeps
  <1> HIDE DEF c
  <1>2. Tuned(b, n, skill) = [c EXCEPT !.skill = [@ EXCEPT ![n] = skill]]
    BY DEF Tuned, c
  <1>3. /\ Tuned(b, n, skill) \in Body /\ Held(Tuned(b, n, skill)) = Held(c)
        /\ Tuned(b, n, skill).own = c.own /\ Tuned(b, n, skill).cond = c.cond
    BY <1>1, <1>2 DEF Preserves, Sound, Body, Held, HasOut
  <1> QED
    BY <1>1, <1>3 DEF Preserves, Sound, Timely

LEMMA EquippedKeeps ==
    ASSUME NEW b, Sound(b), NEW slot \in NanoSlot, NEW n \in Nano
    PROVE  Preserves(b, Equipped(b, slot, n))
  <1> DEFINE c == [b EXCEPT !.slots[slot] = n, !.cond = @ \ {Stimpak(slot)}]
  <1>1. Preserves(b, c)
    BY DEF Preserves, Sound, Body, Held, HasOut, Timely
  <1> HIDE DEF c
  <1>2. Preserves(c, Dismissed(c))
    BY <1>1, DismissKeeps DEF Preserves
  <1> QED
    BY <1>1, <1>2, PreservedAgain DEF Equipped, c

LEMMA UnequippedKeeps ==
    ASSUME NEW b, Sound(b), NEW slot \in NanoSlot
    PROVE  Preserves(b, Unequipped(b, slot))
  <1> DEFINE c == IF b.slots[slot] = b.activeNano THEN Dismissed(b) ELSE b
  <1>1. Preserves(b, c)
    BY DismissKeeps, SameKeeps
  <1> HIDE DEF c
  <1>2. Unequipped(b, slot) = [c EXCEPT !.slots[slot] = 0]
    BY DEF Unequipped, c
  <1>3. Preserves(c, Unequipped(b, slot))
    BY <1>1, <1>2 DEF Preserves, Sound, Body, Held, HasOut, Timely
  <1> QED
    BY <1>1, <1>3, PreservedAgain

-----------------------------------------------------------------------------

LEMMA HealedKeeps ==
    ASSUME NEW b, Sound(b)
    PROVE  Preserves(b, Healed(b, 1))
  <1>1. MaxHealth \in Nat /\ b.hp \in 0 .. MaxHealth
    BY Constants DEF Sound, Body
  <1> DEFINE hp == Min({MaxHealth, b.hp + 1})
  <1>2. hp \in 0 .. MaxHealth
    <2> DEFINE more == b.hp + 1
    <2>1. more \in Nat /\ MaxHealth \in Int /\ more \in Int
      BY <1>1
    <2> HIDE DEF more
    <2>2. Min({MaxHealth, more}) \in {MaxHealth, more} /\ Min({MaxHealth, more}) <= MaxHealth
      BY <2>1, MinOfTwo
    <2>3. Min({MaxHealth, more}) \in 0 .. MaxHealth
      BY <1>1, <2>1, <2>2
    <2> QED
      BY <2>3 DEF more
  <1> HIDE DEF hp
  <1>3. Healed(b, 1) = [b EXCEPT !.hp = hp]
    BY DEF Healed, hp
  <1>4. /\ Healed(b, 1) \in Body /\ Healed(b, 1).cond = b.cond /\ Healed(b, 1).own = b.own
        /\ Healed(b, 1).skill = b.skill /\ Healed(b, 1).activeNano = b.activeNano
    BY <1>2, <1>3 DEF Sound, Body
  <1> QED
    BY <1>4, LikeKeeps

LEMMA UsedKeeps ==
    ASSUME NEW b, Sound(b), HasOut(b)
    PROVE  Preserves(b, Used(b))
  <1> DEFINE n == b.activeNano
             k == Max({0, b.stamina[n] - BatteryUse})
  <1>1. n \in Nano /\ b.stamina[n] \in Int /\ BatteryUse \in Int
    BY Constants DEF HasOut, Sound, Body
  <1>2. k \in Int
    <2> DEFINE less == b.stamina[n] - BatteryUse
    <2>1. less \in Int
      BY <1>1
    <2> HIDE DEF less
    <2>2. Max({0, less}) \in Int
      BY <2>1, MaxOfTwo
    <2> QED
      BY <2>2 DEF less
  <1> HIDE DEF k
  <1>3. Preserves(b, [b EXCEPT !.stamina[n] = k])
    BY <1>1, <1>2, StaminaKeeps
  <1> QED
    BY <1>3 DEF Used, k

LEMMA ChargedKeeps ==
    ASSUME NEW b, Sound(b), HasOut(b)
    PROVE  Preserves(b, Charged(b))
  <1> DEFINE n == b.activeNano
             k == Min({MaxStamina - b.stamina[n], b.batteryN})
  <1>1. n \in Nano /\ b.stamina[n] \in Int /\ b.batteryN \in Int /\ MaxStamina \in Int
    BY Constants DEF HasOut, Sound, Body
  <1>2. k \in Int
    <2> DEFINE missing == MaxStamina - b.stamina[n]
    <2>1. missing \in Int
      BY <1>1
    <2> HIDE DEF missing
    <2>2. Min({missing, b.batteryN}) \in Int
      BY <1>1, <2>1, MinOfTwo
    <2> QED
      BY <2>2 DEF missing
  <1> HIDE DEF k
  <1>3. Charged(b) = [b EXCEPT !.stamina[n] = @ + k, !.batteryN = @ - k]
    BY DEF Charged, k
  <1>4. Preserves(b, [b EXCEPT !.stamina[n] = b.stamina[n] + k])
    BY <1>1, <1>2, StaminaKeeps
  <1> DEFINE c == [b EXCEPT !.stamina[n] = b.stamina[n] + k]
  <1>5. Charged(b) = [c EXCEPT !.batteryN = b.batteryN - k] /\ b.batteryN - k \in Int
    BY <1>1, <1>2, <1>3
  <1> HIDE DEF c
  <1>6. /\ Charged(b) \in Body /\ Charged(b).cond = c.cond /\ Charged(b).own = c.own
        /\ Charged(b).skill = c.skill /\ Charged(b).activeNano = c.activeNano
    BY <1>4, <1>5 DEF Preserves, Sound, Body, c
  <1> QED
    BY <1>4, <1>6, LikeKeeps, PreservedAgain DEF Preserves, c

\* Giving the buff of the nano that is out once more.
LEMMA BuffKeeps ==
    ASSUME NEW b, Sound(b)
    PROVE  Preserves(b, Buff(b))
  <1>1. b.own \cup Held(b) = b.own /\ Held(b) \subseteq Bit
    BY DEF Sound, Held, Bit
  <1>2. Buff(b) = [b EXCEPT !.own = b.own, !.cond = IF IsAlive(b) THEN b.cond \cup Held(b) ELSE b.cond]
    BY <1>1 DEF Buff
  <1>3. /\ Buff(b) \in Body /\ Buff(b).own = b.own /\ Held(Buff(b)) = Held(b)
        /\ Buff(b).cond \subseteq b.cond \cup Held(b)
    BY <1>1, <1>2 DEF Sound, Body, Held, HasOut
  <1> QED
    BY <1>3 DEF Preserves, Sound, Timely

-----------------------------------------------------------------------------

\* dealGooDamage: who dies of it has been alive.
LEMMA GooKeeps ==
    ASSUME NEW b, Sound(b), IsAlive(b)
    PROVE  Preserves(b, GooDamaged(b))
  <1> DEFINE c == IF PROTECT \in b.cond
                  THEN IF HasOut(b) /\ PROTECT \in b.own
                       THEN [b EXCEPT !.stamina[b.activeNano] = @ - 1] ELSE b
                  ELSE [b EXCEPT !.hp = @ - 1]
  <1>1. Preserves(b, c)
    <2>1. CASE PROTECT \in b.cond /\ HasOut(b) /\ PROTECT \in b.own
      <3>1. b.activeNano \in Nano /\ b.stamina[b.activeNano] - 1 \in Int
        BY <2>1 DEF HasOut, Sound, Body
      <3> QED
        BY <2>1, <3>1, StaminaKeeps
    <2>2. CASE PROTECT \notin b.cond
      <3> DEFINE d == [b EXCEPT !.hp = b.hp - 1]
      <3>1. b.hp - 1 \in 0 .. MaxHealth
        BY Constants DEF IsAlive, Sound, Body
      <3>2. /\ d \in Body /\ d.cond = b.cond /\ d.own = b.own
            /\ d.skill = b.skill /\ d.activeNano = b.activeNano
        BY <3>1 DEF Sound, Body
      <3>3. c = d
        BY <2>2
      <3> HIDE DEF c, d
      <3> QED
        BY <3>2, <3>3, LikeKeeps
    <2>3. CASE PROTECT \in b.cond /\ ~(HasOut(b) /\ PROTECT \in b.own)
      BY <2>3, SameKeeps
    <2> QED
      BY <2>1, <2>2, <2>3
  <1> HIDE DEF c
  <1>2. CASE HasOut(c) /\ c.stamina[c.activeNano] <= 0
    <2> DEFINE d == [c EXCEPT !.stamina[c.activeNano] = 0]
    <2>1. Sound(c) /\ c.activeNano \in Nano
      BY <1>1, <1>2 DEF Preserves, HasOut, Sound, Body
    <2>2. Preserves(c, d)
      BY <2>1, StaminaKeeps
    <2> HIDE DEF d
    <2>3. Preserves(d, Dismissed(d))
      BY <2>2, DismissKeeps DEF Preserves
    <2>4. GooDamaged(b) = Dismissed(d)
      BY <1>2 DEF GooDamaged, c, d
    <2> QED
      BY <1>1, <2>2, <2>3, <2>4, PreservedAgain
  <1>3. CASE ~(HasOut(c) /\ c.stamina[c.activeNano] <= 0)
    <2>1. GooDamaged(b) = c
      BY <1>3 DEF GooDamaged, c
    <2> QED
      BY <1>1, <2>1
  <1> QED
    BY <1>2, <1>3

\* One slot of the loop of playerTick.
LEMMA SpentKeeps ==
    ASSUME NEW b, Sound(b), NEW slot
    PROVE  Preserves(b, Spent(b, slot))
  <1> DEFINE n == b.slots[slot]
             c == [b EXCEPT !.stamina[n] = b.stamina[n] - 1]
             more == IF b.stamina[n] < MaxStamina THEN Min({MaxStamina, b.stamina[n] + 1})
                     ELSE b.stamina[n]
  <1>1. CASE slot \notin NanoSlot \/ n = 0
    BY <1>1, SameKeeps DEF Spent
  <1>2. CASE slot \in NanoSlot /\ n # 0
    <2>1. n \in Nano /\ b.stamina[n] \in Int
      BY <1>2 DEF Sound, Body
    <2>2. Preserves(b, c)
      <3>1. b.stamina[n] - 1 \in Int
        BY <2>1
      <3> QED
        BY <2>1, <3>1, StaminaKeeps
    <2>3. Preserves(b, Dismissed(c))
      <3> HIDE DEF c
      <3> QED
        BY <2>2, DismissKeeps, PreservedAgain DEF Preserves
    <2>4. Preserves(b, [b EXCEPT !.stamina[n] = more])
      <3> DEFINE next == b.stamina[n] + 1
      <3>1. next \in Int /\ MaxStamina \in Int
        BY <2>1, Constants
      <3> HIDE DEF next
      <3>2. Min({MaxStamina, next}) \in Int
        BY <3>1, MinOfTwo
      <3>3. more \in Int
        BY <2>1, <3>2 DEF next
      <3> HIDE DEF more
      <3> QED
        BY <2>1, <3>3, StaminaKeeps
    <2>5. Spent(b, slot) \in {c, Dismissed(c), [b EXCEPT !.stamina[n] = more]}
      BY <1>2 DEF Spent
    <2> HIDE DEF c, more
    <2> QED
      BY <2>2, <2>3, <2>4, <2>5
  <1> QED
    BY <1>1, <1>2

LEMMA TickedKeeps ==
    ASSUME NEW b, Sound(b), NEW heals \in BOOLEAN
    PROVE  Preserves(b, Ticked(b, heals))
  <1> DEFINE goo == IF INFECTION \in b.cond THEN GooDamaged(b) ELSE b
             well == IF heals /\ ~b.inCombat THEN Healed(goo, 1) ELSE goo
  <1>1. CASE ~IsAlive(b)
    BY <1>1, SameKeeps DEF Ticked
  <1>2. CASE IsAlive(b)
    <2>1. Preserves(b, goo)
      BY <1>2, GooKeeps, SameKeeps
    <2> HIDE DEF goo
    <2>2. Preserves(b, well)
      BY <2>1, HealedKeeps, PreservedAgain DEF Preserves
    <2>3. Ticked(b, heals) = Spent(Spent(Spent(well, 0), 1), 2)
      BY <1>2 DEF Ticked, goo
    <2> HIDE DEF well
    <2>4. Preserves(b, Spent(well, 0))
      BY <2>2, SpentKeeps, PreservedAgain DEF Preserves
    <2>5. Preserves(b, Spent(Spent(well, 0), 1))
      BY <2>4, SpentKeeps, PreservedAgain DEF Preserves
    <2> QED
      BY <2>3, <2>5, SpentKeeps, PreservedAgain DEF Preserves
  <1> QED
    BY <1>1, <1>2

\* revivePlayer.
LEMMA RevivedKeeps ==
    ASSUME NEW b, Sound(b), NEW type
    PROVE  Preserves(b, Revived(b, type))
  <1> DEFINE c == IF type = "phoenix" /\ PHOENIX \in b.cond /\ HasOut(b)
                  THEN [b EXCEPT !.stamina[b.activeNano] = 0] ELSE b
             half == [n \in Nano |->
                        IF \E s \in NanoSlot : c.slots[s] = n THEN MaxStamina \div 2 ELSE c.stamina[n]]
             d == IF type # "normal" THEN c ELSE [c EXCEPT !.stamina = half]
  <1>1. Preserves(b, c) /\ c.own = b.own
    <2>1. CASE type = "phoenix" /\ PHOENIX \in b.cond /\ HasOut(b)
      <3>1. b.activeNano \in Nano
        BY <2>1 DEF HasOut, Sound, Body
      <3>2. Preserves(b, [b EXCEPT !.stamina[b.activeNano] = 0])
        BY <3>1, StaminaKeeps
      <3> QED
        BY <2>1, <3>2 DEF Sound, Body
    <2>2. CASE ~(type = "phoenix" /\ PHOENIX \in b.cond /\ HasOut(b))
      BY <2>2, SameKeeps
    <2> QED
      BY <2>1, <2>2
  <1> HIDE DEF c
  <1>2. half \in [Nano -> Int]
    BY <1>1, Constants DEF Preserves, Sound, Body
  <1> HIDE DEF half
  <1>3. Sound(d) /\ d.own = b.own /\ d.activeNano = c.activeNano
    BY <1>1, <1>2 DEF Preserves, Sound, Body, Held, HasOut
  <1>4. Revived(b, type) = [d EXCEPT !.hp = IF type = "moved" THEN @ ELSE MaxHealth, !.cond = b.own]
    BY DEF Revived, c, half
  <1> HIDE DEF d
  <1>5. b.own \subseteq Bit /\ MaxHealth \in 0 .. MaxHealth
    BY Constants DEF Sound, Body, Bit
  <1>6. /\ Revived(b, type) \in Body /\ Revived(b, type).own = b.own
        /\ Revived(b, type).cond = b.own /\ Held(Revived(b, type)) = Held(d)
    BY <1>3, <1>4, <1>5 DEF Sound, Body, Held, HasOut
  <1> QED
    BY <1>3, <1>6 DEF Preserves, Sound, Timely

-----------------------------------------------------------------------------

Bodies ==
    /\ playing \subseteq Player /\ EggBuffs \subseteq Player \X Bit
    /\ deadEggs \subseteq DOMAIN Egg /\ body \in [Player -> Body]
\* NoInfiniteBuffs of one player, by its body.
Ends(p) == Sound(body[p]) /\ \A bit \in Timely(body[p]) : <<p, bit>> \in EggBuffs
EffectsInv == Bodies /\ TimersHavePlayers /\ \A p \in playing : Ends(p)

\* Most handlers change one body.
LEMMA BecomesStep ==
    ASSUME EffectsInv, NEW p \in Player, NEW b, Preserves(body[p], b), Becomes(p, b)
    PROVE  EffectsInv'
  <1>1. /\ body'[p] = b /\ \A q \in Player : q # p => body'[q] = body[q]
        /\ Bodies' /\ TimersHavePlayers'
    BY DEF EffectsInv, Bodies, TimersHavePlayers, Becomes, Preserves, Sound
  <1>2. ASSUME NEW q \in playing' PROVE Ends(q)'
    <2>1. q \in playing /\ q \in Player /\ EggBuffs' = EggBuffs
      BY DEF Becomes, EffectsInv, Bodies
    <2>2. CASE q = p
      BY <1>1, <2>1, <2>2 DEF EffectsInv, Ends, Preserves
    <2>3. CASE q # p
      BY <1>1, <2>1, <2>3 DEF EffectsInv, Ends
    <2> QED
      BY <2>2, <2>3
  <1> QED
    BY <1>1, <1>2 DEF EffectsInv

LEMMA PlayingIsSound ==
    ASSUME EffectsInv, NEW p \in Player, p \in playing
    PROVE  Sound(body[p])
  BY DEF EffectsInv, Ends

LEMMA ComesStep ==
    ASSUME EffectsInv, NEW p \in Player, Comes(p)
    PROVE  EffectsInv'
  <1>1. CASE EnterWorld(p)
    <2> DEFINE b == [body[p] EXCEPT !.activeNano = 0, !.cond = {}, !.own = {}, !.inCombat = FALSE]
    <2>1. b \in Body /\ b.own = {} /\ b.cond = {} /\ b.activeNano = 0
      BY DEF EffectsInv, Bodies, Body
    <2> HIDE DEF b
    <2>2. body' = [body EXCEPT ![p] = b] /\ UNCHANGED <<EggBuffs, deadEggs>>
          /\ playing' = playing \cup {p}
      BY <1>1 DEF EnterWorld, b
    <2>3. Bodies' /\ TimersHavePlayers'
      BY <2>1, <2>2 DEF EffectsInv, Bodies, TimersHavePlayers
    <2>4. ASSUME NEW q \in playing' PROVE Ends(q)'
      <3>1. CASE q = p
        BY <2>1, <2>2, <3>1 DEF EffectsInv, Bodies, Ends, Sound, Timely, Held, HasOut
      <3>2. CASE q # p
        BY <2>2, <3>2 DEF EffectsInv, Bodies, Ends
      <3> QED
        BY <3>1, <3>2
    <2> QED
      BY <2>3, <2>4 DEF EffectsInv
  <1>2. CASE LeaveWorld(p)
    <2>1. /\ body' = body /\ deadEggs' = deadEggs /\ playing' = playing \ {p}
          /\ EggBuffs' = {e \in EggBuffs : e[1] # p}
      BY <1>2 DEF LeaveWorld, TimersOut
    <2>2. Bodies' /\ TimersHavePlayers'
      BY <2>1 DEF EffectsInv, Bodies, TimersHavePlayers
    <2>3. ASSUME NEW q \in playing' PROVE Ends(q)'
      BY <2>1 DEF EffectsInv, Ends
    <2> QED
      BY <2>2, <2>3 DEF EffectsInv
  <1> QED
    BY <1>1, <1>2 DEF Comes

LEMMA NanosStep ==
    ASSUME EffectsInv, NEW p \in Player, Nanos(p)
    PROVE  EffectsInv'
  <1>1. Sound(body[p]) /\ p \in playing
    BY PlayingIsSound
       DEF Nanos, AddNano, SetNanoSkill, NanoEquip, NanoUnequip, SummonNano, Becomes
  <1>2. body[p].owned \subseteq Nano /\ body[p].slots \in [NanoSlot -> Nano \cup {0}]
    BY <1>1 DEF Sound, Body
  <1>3. CASE AddNano(p)
    BY <1>1, <1>3, AddedKeeps, BecomesStep DEF AddNano
  <1>4. CASE SetNanoSkill(p)
    BY <1>1, <1>2, <1>4, TunedKeeps, BecomesStep DEF SetNanoSkill
  <1>5. CASE NanoEquip(p)
    BY <1>1, <1>2, <1>5, EquippedKeeps, BecomesStep DEF NanoEquip
  <1>6. CASE NanoUnequip(p)
    BY <1>1, <1>6, UnequippedKeeps, BecomesStep DEF NanoUnequip
  <1>7. CASE SummonNano(p)
    <2>1. CASE Becomes(p, Dismissed(body[p]))
      BY <1>1, <2>1, DismissKeeps, BecomesStep
    <2>2. ASSUME NEW slot \in NanoSlot, Becomes(p, NanoSummoned(body[p], body[p].slots[slot]))
          PROVE  EffectsInv'
      <3>1. body[p].slots[slot] \in Nano \cup {0}
        BY <1>2
      <3> QED
        BY <1>1, <2>2, <3>1, SummonKeeps, BecomesStep
    <2> QED
      BY <1>7, <2>1, <2>2 DEF SummonNano
  <1> QED
    BY <1>3, <1>4, <1>5, <1>6, <1>7 DEF Nanos

LEMMA WearsStep ==
    ASSUME EffectsInv, NEW p \in Player, Wears(p) \/ Goo(p) \/ Hurt(p)
    PROVE  EffectsInv'
  <1>1. p \in playing
    BY DEF Wears, Goo, Hurt, NanoSkillUse, NanoPotion, PlayerTick, Combat, RevivePlayer,
           DotDamageOnOff, Becomes
  <1>2. Sound(body[p])
    BY <1>1, PlayingIsSound
  <1>3. CASE NanoSkillUse(p)
    <2>1. Preserves(body[p], Used(body[p]))
      BY <1>2, <1>3, UsedKeeps DEF NanoSkillUse
    <2>2. /\ Preserves(body[p], Buff(Used(body[p])))
          /\ Preserves(body[p], Healed(Used(body[p]), 1))
      BY <2>1, BuffKeeps, HealedKeeps, PreservedAgain DEF Preserves
    <2> QED
      BY <1>3, <2>2, BecomesStep DEF NanoSkillUse
  <1>4. CASE NanoPotion(p)
    BY <1>2, <1>4, ChargedKeeps, BecomesStep DEF NanoPotion
  <1>5. CASE PlayerTick(p)
    <2>1. PICK heals \in BOOLEAN, fell \in BOOLEAN :
            Becomes(p, IF fell THEN [Ticked(body[p], heals) EXCEPT !.hp = 0]
                       ELSE Ticked(body[p], heals))
      BY <1>5 DEF PlayerTick
    <2> DEFINE b == Ticked(body[p], heals)
    <2>2. Preserves(body[p], b)
      BY <1>2, TickedKeeps
    <2> HIDE DEF b
    <2>3. Preserves(b, [b EXCEPT !.hp = 0])
      <3> DEFINE d == [b EXCEPT !.hp = 0]
      <3>1. /\ d \in Body /\ d.cond = b.cond /\ d.own = b.own
            /\ d.skill = b.skill /\ d.activeNano = b.activeNano
        BY <2>2, Constants DEF Preserves, Sound, Body
      <3> HIDE DEF d
      <3>2. Preserves(b, d)
        BY <2>2, <3>1, LikeKeeps DEF Preserves
      <3> QED
        BY <3>2 DEF d
    <2>4. Preserves(body[p], [b EXCEPT !.hp = 0])
      BY <2>2, <2>3, PreservedAgain
    <2>5. Becomes(p, b) \/ Becomes(p, [b EXCEPT !.hp = 0])
      BY <2>1 DEF b
    <2> QED
      BY <2>2, <2>4, <2>5, BecomesStep
  <1>6. CASE Combat(p)
    <2> DEFINE d == [body[p] EXCEPT !.inCombat = ~body[p].inCombat]
    <2>1. /\ d \in Body /\ d.cond = body[p].cond /\ d.own = body[p].own
          /\ d.skill = body[p].skill /\ d.activeNano = body[p].activeNano
      BY <1>2 DEF Sound, Body
    <2>2. Becomes(p, d)
      BY <1>6 DEF Combat
    <2> HIDE DEF d
    <2> QED
      BY <1>2, <2>1, <2>2, LikeKeeps, BecomesStep
  <1>7. CASE RevivePlayer(p)
    BY <1>2, <1>7, RevivedKeeps, BecomesStep DEF RevivePlayer
  <1>8. CASE Hurt(p)
    <2> DEFINE d == [body[p] EXCEPT !.hp = body[p].hp - 1]
    <2>1. body[p].hp - 1 \in 0 .. MaxHealth
      BY <1>2, <1>8, Constants DEF Hurt, Sound, Body
    <2>2. /\ d \in Body /\ d.cond = body[p].cond /\ d.own = body[p].own
          /\ d.skill = body[p].skill /\ d.activeNano = body[p].activeNano
      BY <1>2, <2>1 DEF Sound, Body
    <2>3. Becomes(p, d)
      BY <1>8 DEF Hurt
    <2> HIDE DEF d
    <2> QED
      BY <1>2, <2>2, <2>3, LikeKeeps, BecomesStep
  <1>9. CASE Goo(p)
    <2> DEFINE d(c) == [body[p] EXCEPT !.cond = c]
    <2>1. ASSUME NEW c \in SUBSET Bit, c \subseteq body[p].cond \cup {INFECTION}
          PROVE  Preserves(body[p], d(c))
      BY <1>2, <2>1 DEF Preserves, Sound, Body, Timely, Held, HasOut
    <2>2. \/ Becomes(p, d(body[p].cond \cup {INFECTION}))
          \/ Becomes(p, d(body[p].cond \ {INFECTION}))
      BY <1>9 DEF Goo, DotDamageOnOff
    <2>3. /\ body[p].cond \cup {INFECTION} \in SUBSET Bit
          /\ body[p].cond \ {INFECTION} \in SUBSET Bit
      BY <1>2 DEF Sound, Body, Bit
    <2> HIDE DEF d
    <2> QED
      BY <2>1, <2>2, <2>3, BecomesStep
  <1> QED
    BY <1>3, <1>4, <1>5, <1>6, <1>7, <1>8, <1>9 DEF Wears

\* A bit that comes with a timer, and the end of one.
LEMMA TimedStep ==
    ASSUME EffectsInv, NEW p \in Player, NEW bit \in Bit, Timed(p, bit),
           playing' = playing, deadEggs' \subseteq DOMAIN Egg
    PROVE  EffectsInv'
  <1>1. Sound(body[p]) /\ p \in playing
    BY PlayingIsSound DEF Timed
  <1> DEFINE b == [body[p] EXCEPT !.cond = body[p].cond \cup {bit} \cup body[p].own]
  <1>2. /\ b \in Body /\ Sound(b) /\ Timely(b) \subseteq Timely(body[p]) \cup {bit}
    BY <1>1 DEF Sound, Body, Held, HasOut, Timely, Bit
  <1>3. body' = [body EXCEPT ![p] = b] /\ EggBuffs' = EggBuffs \cup {<<p, bit>>}
    BY DEF Timed
  <1> HIDE DEF b
  <1>4. Bodies' /\ TimersHavePlayers'
    BY <1>1, <1>2, <1>3 DEF EffectsInv, Bodies, TimersHavePlayers
  <1>5. ASSUME NEW q \in playing' PROVE Ends(q)'
    <2>1. CASE q = p
      BY <1>1, <1>2, <1>3, <2>1 DEF EffectsInv, Bodies, Ends
    <2>2. CASE q # p
      BY <1>3, <2>2 DEF EffectsInv, Bodies, Ends
    <2> QED
      BY <2>1, <2>2
  <1> QED
    BY <1>4, <1>5 DEF EffectsInv

LEMMA TimerEndsStep ==
    ASSUME EffectsInv, NEW p \in Player, EggBuffEnds(p)
    PROVE  EffectsInv'
  <1>1. PICK e \in EggBuffs :
          /\ e[1] = p /\ body' = [body EXCEPT ![p].cond = EndedFor(body[p], e[2])]
          /\ EggBuffs' = EggBuffs \ {e} /\ UNCHANGED <<playing, deadEggs>>
    BY DEF EggBuffEnds
  <1>2. p \in playing /\ Sound(body[p]) /\ e[2] \in Bit /\ e = <<p, e[2]>>
    BY <1>1, PlayingIsSound DEF EffectsInv, Bodies, TimersHavePlayers
  <1> DEFINE b == [body[p] EXCEPT !.cond = (body[p].cond \ {e[2]}) \cup body[p].own]
  <1>3. b \in Body /\ Sound(b) /\ Timely(b) \subseteq Timely(body[p]) \ {e[2]}
    BY <1>2 DEF Sound, Body, Held, HasOut, Timely, Bit
  <1>4. body' = [body EXCEPT ![p] = b]
    BY <1>1 DEF EndedFor
  <1> HIDE DEF b
  <1>5. Bodies' /\ TimersHavePlayers'
    BY <1>1, <1>3, <1>4 DEF EffectsInv, Bodies, TimersHavePlayers
  <1>6. ASSUME NEW q \in playing' PROVE Ends(q)'
    <2>1. CASE q = p
      <3>1. body'[q] = b
        BY <1>2, <1>4, <2>1 DEF EffectsInv, Bodies
      <3>2. \A bit \in Timely(b) : <<p, bit>> \in EggBuffs'
        BY <1>1, <1>2, <1>3 DEF EffectsInv, Ends
      <3> QED
        BY <1>3, <2>1, <3>1, <3>2 DEF Ends
    <2>2. CASE q # p
      <3>1. body'[q] = body[q] /\ q \in playing
        BY <1>1, <1>4, <2>2 DEF EffectsInv, Bodies
      <3>2. \A bit : <<q, bit>> # e
        BY <1>1, <2>2
      <3> QED
        BY <1>1, <3>1, <3>2 DEF EffectsInv, Ends
    <2> QED
      BY <2>1, <2>2
  <1> QED
    BY <1>5, <1>6 DEF EffectsInv

LEMMA BuffsStep ==
    ASSUME EffectsInv, NEW p \in Player, Buffs(p)
    PROVE  EffectsInv'
  <1>1. CASE MobDebuff(p)
    <2>1. STUN \in Bit /\ deadEggs' \subseteq DOMAIN Egg
      BY <1>1 DEF MobDebuff, Bit, EffectsInv, Bodies
    <2> QED
      BY <1>1, <2>1, TimedStep DEF MobDebuff
  <1>2. CASE Gumball(p)
    <2>1. PICK slot \in NanoSlot : Timed(p, Stimpak(slot)) /\ UNCHANGED <<playing, deadEggs>>
      BY <1>2 DEF Gumball
    <2>2. Stimpak(slot) \in Bit /\ deadEggs' \subseteq DOMAIN Egg
      BY <2>1 DEF Bit, EffectsInv, Bodies
    <2> QED
      BY <2>1, <2>2, TimedStep
  <1>3. CASE EggPickup(p)
    <2>1. PICK e \in DOMAIN Egg \ deadEggs :
            /\ deadEggs' = deadEggs \cup {e} /\ UNCHANGED playing
            /\ IF Egg[e] \in Bit THEN Timed(p, Egg[e])
               ELSE /\ p \in playing /\ UNCHANGED EggBuffs
                    /\ body' = [body EXCEPT ![p] = Cracked(body[p], e)]
      BY <1>3 DEF EggPickup
    <2>2. deadEggs' \subseteq DOMAIN Egg
      BY <2>1 DEF EffectsInv, Bodies
    <2>3. CASE Egg[e] \in Bit
      BY <2>1, <2>2, <2>3, TimedStep
    <2>4. CASE Egg[e] \notin Bit
      <3> DEFINE c == [body[p] EXCEPT !.hp = Max({0, body[p].hp - 1})]
      <3>1. Sound(body[p])
        BY <2>1, <2>4, PlayingIsSound
      <3>2. Preserves(body[p], c)
        <4> DEFINE less == body[p].hp - 1
        <4>1. less \in Int /\ less < MaxHealth /\ MaxHealth \in Nat
          BY <3>1, Constants DEF Sound, Body
        <4> HIDE DEF less
        <4>2. Max({0, less}) \in {0, less} /\ Max({0, less}) >= 0
          BY <4>1, MaxOfTwo
        <4>3. Max({0, less}) \in 0 .. MaxHealth
          BY <4>1, <4>2
        <4>4. Max({0, body[p].hp - 1}) \in 0 .. MaxHealth
          BY <4>3 DEF less
        <4>5. /\ c \in Body /\ c.cond = body[p].cond /\ c.own = body[p].own
              /\ c.skill = body[p].skill /\ c.activeNano = body[p].activeNano
          BY <3>1, <4>4 DEF Sound, Body
        <4> HIDE DEF c
        <4> QED
          BY <3>1, <4>5, LikeKeeps
      <3>3. PICK b : Preserves(body[p], b) /\ body' = [body EXCEPT ![p] = b]
        <4>1. Cracked(body[p], e) \in {Healed(body[p], 1), c}
          BY DEF Cracked
        <4>2. Preserves(body[p], Cracked(body[p], e))
          <5> HIDE DEF c
          <5> QED
            BY <3>1, <3>2, <4>1, HealedKeeps
        <4> QED
          BY <2>1, <2>4, <4>2
      <3>4. /\ body'[p] = b /\ \A q \in Player : q # p => body'[q] = body[q]
            /\ body' \in [Player -> Body] /\ UNCHANGED <<playing, EggBuffs>>
        BY <2>1, <2>4, <3>3 DEF EffectsInv, Bodies, Preserves, Sound
      <3>5. ASSUME NEW q \in playing PROVE Ends(q)'
        <4>1. CASE q = p
          BY <3>3, <3>4, <4>1 DEF EffectsInv, Ends, Preserves
        <4>2. CASE q # p
          BY <3>4, <4>2 DEF EffectsInv, Bodies, Ends
        <4> QED
          BY <4>1, <4>2
      <3> QED
        BY <2>2, <3>4, <3>5 DEF EffectsInv, Bodies, TimersHavePlayers
    <2> QED
      BY <2>3, <2>4
  <1>4. CASE EggBuffEnds(p)
    BY <1>4, TimerEndsStep
  <1>5. CASE EggRespawns
    BY <1>5 DEF EggRespawns, EffectsInv, Bodies, TimersHavePlayers, Ends
  <1> QED
    BY <1>1, <1>2, <1>3, <1>4, <1>5 DEF Buffs

LEMMA EffectsInvInit == EffectsInit => EffectsInv
  <1> SUFFICES ASSUME EffectsInit PROVE EffectsInv
    OBVIOUS
  <1>1. NewBody \in Body
    BY Constants DEF NewBody, Body, Skill
  <1> QED
    BY <1>1 DEF EffectsInit, EffectsInv, Bodies, TimersHavePlayers

LEMMA EffectsInvStep == EffectsInv /\ [EffectsNext]_effectVars => EffectsInv'
  <1> SUFFICES ASSUME EffectsInv, [EffectsNext]_effectVars PROVE EffectsInv'
    OBVIOUS
  <1>1. CASE UNCHANGED effectVars
    BY <1>1 DEF effectVars, EffectsInv, Bodies, TimersHavePlayers, Ends
  <1>2. CASE EffectsNext
    BY <1>2, ComesStep, NanosStep, WearsStep, BuffsStep DEF EffectsNext
  <1> QED
    BY <1>1, <1>2

LEMMA EffectsInvariance == EffectsSpec => []EffectsInv
  BY EffectsInvInit, EffectsInvStep, PTL DEF EffectsSpec

-----------------------------------------------------------------------------

\* The types of a body: health within bounds, nanos that exist, bits of skills.
THEOREM EffectsTyping == EffectsSpec => []EffectsTypeOK
  <1>1. EffectsInv => EffectsTypeOK
    BY DEF EffectsInv, Bodies, Body, EffectsTypeOK
  <1> QED
    BY <1>1, EffectsInvariance, PTL

\* eggStep finds the player of every entry of EggBuffs (Eggs.cpp:100).
THEOREM TimersFindPlayers == EffectsSpec => []TimersHavePlayers
  <1>1. EffectsInv => TimersHavePlayers
    BY DEF EffectsInv
  <1> QED
    BY <1>1, EffectsInvariance, PTL

\* "just unsummon the nano to prevent infinite buffs" (Nanos.cpp:54, 143) does.
THEOREM BuffsEnd == EffectsSpec => []NoInfiniteBuffs
  <1>1. EffectsInv => NoInfiniteBuffs
    BY DEF EffectsInv, Ends, Sound, Timely, NoInfiniteBuffs
  <1> QED
    BY <1>1, EffectsInvariance, PTL

=============================================================================
