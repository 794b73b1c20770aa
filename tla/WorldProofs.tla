----------------------------- MODULE WorldProofs -----------------------------
(***************************************************************************)
(* Mobs, for any kinds of mobs, packs and number of players: a mob has the *)
(* shape its handlers expect, and the dead and the retreating are left in  *)
(* peace by whatever else goes on.  Chunks, for any maps: what is cached   *)
(* about who is where agrees, and instances stay while they are needed.    *)
(* Then both, and bodies, in the composition that World checks.            *)
(***************************************************************************)
EXTENDS MCWorld, EffectsProofs

\* A mob as MobsTypeOK and MobsConsistent want it.
MobRecord ==
    [kind : DOMAIN MobData, state : MobStates, target : Player \cup {None}, hp : Int, style : Styles,
     buffs : SUBSET (Debuffs \cup {"FREEDOM"}), timed : SUBSET Debuffs,
     despawned : BOOLEAN, summoned : BOOLEAN]
MobSound(x) ==
    /\ x.hp <= Full(x)
    /\ x.state = "COMBAT" <=> x.target # None
    /\ x.state = "ROAMING" => x.hp = Full(x) /\ x.style = "none"
    /\ x.state = "DEAD" => x.style = "none"
    /\ x.hp <= 0 => x.state \in {"DEAD", "RETREAT"}
    /\ x.buffs \subseteq x.timed \cup MobData[x.kind].passive
    /\ x.summoned => ~x.despawned
SoundMob == {x \in MobRecord : MobSound(x)}

Arena ==
    [place : [Player -> Places], spared : SUBSET Player,
     mobs : UNION {[D -> SoundMob] : D \in SUBSET Mob},
     bullets : [Player -> SUBSET (0 .. MaxBullet - 1)], failed : BOOLEAN]

\* What a handler may do to a mob that is dead or retreats.
Spared(n, x, y) ==
    x.state \in {"DEAD", "RETREAT"} =>
        /\ y.state \in {"DEAD", "RETREAT"} /\ y.hp >= x.hp
        /\ x.state = "DEAD" /\ LeaderOf(n) = None => y.state = "DEAD"
Tame(v, u, but) ==
    /\ DOMAIN v.mobs \subseteq DOMAIN u.mobs
    /\ \A n \in DOMAIN v.mobs \ but : Spared(n, v.mobs[n], u.mobs[n])

\* A mob that has been in combat when the handler began.
Fighting(v, m) ==
    m \in DOMAIN v.mobs /\ v.mobs[m].hp > 0 /\ v.mobs[m].state \in {"COMBAT", "RETREAT"}

-----------------------------------------------------------------------------
LEMMA KindData ==
    ASSUME NEW k \in DOMAIN MobData
    PROVE  /\ MobData[k].hp \in Nat /\ MobData[k].hp > 0
           /\ MobData[k].passive \in SUBSET (Debuffs \cup {"FREEDOM"})
           /\ MobData[k].splits \in Seq(DOMAIN MobData)
  BY MobsAssumption

LEMMA MobFields ==
    ASSUME NEW x \in MobRecord
    PROVE  /\ x.kind \in DOMAIN MobData /\ x.state \in MobStates /\ x.target \in Player \cup {None}
           /\ x.hp \in Int /\ x.style \in Styles /\ x.buffs \in SUBSET (Debuffs \cup {"FREEDOM"})
           /\ x.timed \in SUBSET Debuffs /\ x.despawned \in BOOLEAN /\ x.summoned \in BOOLEAN
           /\ Full(x) \in Nat /\ Full(x) > 0
  BY KindData DEF MobRecord, Full

LEMMA ArenaFields ==
    ASSUME NEW v \in Arena
    PROVE  /\ v.place \in [Player -> Places] /\ v.spared \in SUBSET Player
           /\ v.bullets \in [Player -> SUBSET (0 .. MaxBullet - 1)] /\ v.failed \in BOOLEAN
           /\ v.mobs \in [DOMAIN v.mobs -> SoundMob] /\ DOMAIN v.mobs \in SUBSET Mob
           /\ \A m \in DOMAIN v.mobs : v.mobs[m] \in SoundMob /\ v.mobs[m] \in MobRecord /\ MobSound(v.mobs[m])
  <1>1. PICK D \in SUBSET Mob : v.mobs \in [D -> SoundMob]
    BY DEF Arena
  <1>2. \A m \in D : v.mobs[m] \in SoundMob
    BY <1>1
  <1>3. \A x \in SoundMob : x \in MobRecord /\ MobSound(x)
    BY DEF SoundMob
  <1> QED
    BY <1>1, <1>2, <1>3 DEF Arena

LEMMA ArenaMobs ==
    ASSUME NEW v \in Arena, NEW D \in SUBSET Mob, NEW f \in [D -> SoundMob]
    PROVE  /\ [v EXCEPT !.mobs = f] \in Arena
           /\ [v EXCEPT !.mobs = f].mobs = f
           /\ [v EXCEPT !.mobs = f].place = v.place /\ [v EXCEPT !.mobs = f].spared = v.spared
           /\ [v EXCEPT !.mobs = f].bullets = v.bullets /\ [v EXCEPT !.mobs = f].failed = v.failed
  <1>1. f \in UNION {[S -> SoundMob] : S \in SUBSET Mob}
    OBVIOUS
  <1> QED
    BY <1>1 DEF Arena

\* Replacing one mob.
LEMMA OneMob ==
    ASSUME NEW v \in Arena, NEW m \in DOMAIN v.mobs, NEW y \in SoundMob
    PROVE  LET u == [v EXCEPT !.mobs[m] = y]
           IN  /\ u \in Arena /\ DOMAIN u.mobs = DOMAIN v.mobs
               /\ \A n \in DOMAIN v.mobs : u.mobs[n] = IF n = m THEN y ELSE v.mobs[n]
               /\ u.place = v.place /\ u.spared = v.spared /\ u.bullets = v.bullets /\ u.failed = v.failed
  <1> DEFINE f == [v.mobs EXCEPT ![m] = y]
  <1>1. DOMAIN v.mobs \in SUBSET Mob /\ v.mobs \in [DOMAIN v.mobs -> SoundMob]
    BY ArenaFields
  <1>2. f \in [DOMAIN v.mobs -> SoundMob] /\ \A n \in DOMAIN v.mobs : f[n] = IF n = m THEN y ELSE v.mobs[n]
    BY <1>1
  <1>3. [v EXCEPT !.mobs[m] = y] = [v EXCEPT !.mobs = f]
    OBVIOUS
  <1> HIDE DEF f
  <1>4. DOMAIN f = DOMAIN v.mobs
    BY <1>2
  <1> QED
    BY <1>1, <1>2, <1>3, <1>4, ArenaMobs

LEMMA TameSelf ==
    ASSUME NEW v \in Arena
    PROVE  \A but : Tame(v, v, but)
  <1>1. \A m \in DOMAIN v.mobs : v.mobs[m].hp \in Int
    BY ArenaFields, MobFields
  <1> QED
    BY <1>1 DEF Tame, Spared

LEMMA TameAgain ==
    ASSUME NEW v \in Arena, NEW u \in Arena, NEW t \in Arena, NEW but, Tame(v, u, but), Tame(u, t, but)
    PROVE  Tame(v, t, but)
  <1>1. /\ \A m \in DOMAIN v.mobs : v.mobs[m].hp \in Int
        /\ \A m \in DOMAIN u.mobs : u.mobs[m].hp \in Int
        /\ \A m \in DOMAIN t.mobs : t.mobs[m].hp \in Int
    BY ArenaFields, MobFields
  <1>2. ASSUME NEW n \in DOMAIN v.mobs \ but PROVE Spared(n, v.mobs[n], t.mobs[n])
    <2>1. Spared(n, v.mobs[n], u.mobs[n]) /\ Spared(n, u.mobs[n], t.mobs[n]) /\ n \in DOMAIN u.mobs /\ n \in DOMAIN t.mobs
      BY DEF Tame
    <2> QED
      BY <1>1, <2>1 DEF Spared
  <1> QED
    BY <1>2 DEF Tame

-----------------------------------------------------------------------------
(***************************************************************************)
(* Engaging and giving up.                                                 *)
(***************************************************************************)
LEMMA EnterCombatSound ==
    ASSUME NEW x \in MobRecord, x.hp > 0, x.hp <= Full(x), NEW p \in Player,
           x.buffs \subseteq x.timed \cup MobData[x.kind].passive, x.summoned => ~x.despawned
    PROVE  LET y == EnterCombat(x, p)
           IN  y \in SoundMob /\ y.state = "COMBAT" /\ y.hp = x.hp /\ y.target = p /\ y.style = x.style
  <1> DEFINE y == EnterCombat(x, p)
  <1>1. /\ x.kind \in DOMAIN MobData /\ x.buffs \in SUBSET (Debuffs \cup {"FREEDOM"})
        /\ MobData[x.kind].passive \in SUBSET (Debuffs \cup {"FREEDOM"}) /\ p # None
        /\ x.hp \in Int /\ Full(x) \in Nat
    BY MobFields, KindData, PlayersAssumption
  <1>2. /\ y.state = "COMBAT" /\ y.hp = x.hp /\ y.target = p /\ y.style = x.style /\ y.kind = x.kind
        /\ y.timed = x.timed /\ y.buffs = x.buffs \cup MobData[x.kind].passive
        /\ y.summoned = x.summoned /\ y.despawned = x.despawned
    BY DEF EnterCombat, MobRecord
  <1>3. y \in MobRecord
    BY <1>1 DEF EnterCombat, MobRecord, MobStates
  <1> HIDE DEF y
  <1>4. MobSound(y)
    <2>1. Full(y) = Full(x) /\ MobData[y.kind] = MobData[x.kind]
      BY <1>2 DEF Full
    <2> QED
      BY <1>1, <1>2, <2>1 DEF MobSound
  <1> QED
    BY <1>2, <1>3, <1>4 DEF y, SoundMob

LEMMA RetreatingSound ==
    ASSUME NEW x \in MobRecord, x.hp <= Full(x), x.summoned => ~x.despawned
    PROVE  LET y == Retreating(x)
           IN  y \in SoundMob /\ y.state = "RETREAT" /\ y.hp = x.hp
  <1> DEFINE y == Retreating(x)
  <1>1. /\ y.state = "RETREAT" /\ y.hp = x.hp /\ y.target = None /\ y.style = "none" /\ y.kind = x.kind
        /\ y.timed = {} /\ y.buffs = {} /\ y.summoned = x.summoned /\ y.despawned = x.despawned
    BY DEF Retreating, ClearDebuff, MobRecord
  <1>2. y \in MobRecord
    BY DEF Retreating, ClearDebuff, MobRecord, MobStates, Styles
  <1> HIDE DEF y
  <1>3. MobSound(y)
    BY <1>1 DEF MobSound, Full
  <1> QED
    BY <1>1, <1>2, <1>3 DEF y, SoundMob

LEMMA EngagedOK ==
    ASSUME NEW v \in Arena, NEW m \in DOMAIN v.mobs, v.mobs[m].hp > 0, NEW p \in Player
    PROVE  LET u == Engaged(v, m, p)
           IN  /\ u \in Arena /\ DOMAIN u.mobs = DOMAIN v.mobs /\ Tame(v, u, {m})
               /\ v.mobs[m].state = "ROAMING" => Tame(v, u, {})
               /\ u.mobs[m].state = "COMBAT" /\ u.mobs[m].hp = v.mobs[m].hp
               /\ u.mobs[m].style = v.mobs[m].style
               /\ u.spared = v.spared /\ u.place = v.place /\ u.failed = v.failed
  <1> DEFINE led == {n \in PackOf(v, m) \ {m} : v.mobs[n].state = "ROAMING"}
             f == [n \in DOMAIN v.mobs |-> IF n \in led \cup {m} THEN EnterCombat(v.mobs[n], p) ELSE v.mobs[n]]
             u == Engaged(v, m, p)
  <1>1. /\ DOMAIN v.mobs \in SUBSET Mob
        /\ \A n \in DOMAIN v.mobs : v.mobs[n] \in SoundMob /\ v.mobs[n] \in MobRecord /\ MobSound(v.mobs[n])
    BY ArenaFields
  <1>2. ASSUME NEW n \in led \cup {m}
        PROVE  /\ n \in DOMAIN v.mobs
               /\ EnterCombat(v.mobs[n], p) \in SoundMob /\ EnterCombat(v.mobs[n], p).state = "COMBAT"
               /\ EnterCombat(v.mobs[n], p).hp = v.mobs[n].hp /\ EnterCombat(v.mobs[n], p).style = v.mobs[n].style
    <2>1. n \in DOMAIN v.mobs /\ v.mobs[n] \in MobRecord /\ MobSound(v.mobs[n])
      BY <1>1 DEF PackOf
    <2>2. v.mobs[n].hp > 0
      <3>1. CASE n = m
        BY <3>1
      <3>2. CASE n # m
        <4>1. v.mobs[n].state = "ROAMING"
          BY <3>2
        <4>2. v.mobs[n].hp = Full(v.mobs[n]) /\ Full(v.mobs[n]) > 0
          BY <2>1, <4>1, MobFields DEF MobSound
        <4> QED
          BY <4>2
      <3> QED
        BY <3>1, <3>2
    <2> QED
      BY <2>1, <2>2, EnterCombatSound DEF MobSound
  <1>3. f \in [DOMAIN v.mobs -> SoundMob]
    BY <1>1, <1>2
  <1>4. u = [v EXCEPT !.mobs = f]
    BY DEF Engaged
  <1>5. /\ u \in Arena /\ u.mobs = f /\ u.place = v.place /\ u.spared = v.spared /\ u.failed = v.failed
    <2> HIDE DEF f, u
    <2> QED
      BY <1>1, <1>3, <1>4, ArenaMobs
  <1>6. DOMAIN f = DOMAIN v.mobs /\ \A n \in DOMAIN v.mobs \ (led \cup {m}) : f[n] = v.mobs[n]
    OBVIOUS
  <1>7. \A n \in led \cup {m} : n \in DOMAIN v.mobs /\ f[n] = EnterCombat(v.mobs[n], p)
    BY <1>2
  <1> HIDE DEF f, u
  <1>8. ASSUME NEW n \in DOMAIN v.mobs, n # m \/ v.mobs[m].state = "ROAMING"
        PROVE  Spared(n, v.mobs[n], u.mobs[n])
    <2>1. CASE n \in led \cup {m}
      <3>1. v.mobs[n].state = "ROAMING"
        BY <1>8, <2>1
      <3> QED
        BY <3>1 DEF Spared
    <2>2. CASE n \notin led \cup {m}
      <3>1. u.mobs[n] = v.mobs[n] /\ v.mobs[n].hp \in Int
        BY <1>1, <1>5, <1>6, <2>2, MobFields
      <3> QED
        BY <3>1 DEF Spared
    <2> QED
      BY <2>1, <2>2
  <1>9. u.mobs[m].state = "COMBAT" /\ u.mobs[m].hp = v.mobs[m].hp /\ u.mobs[m].style = v.mobs[m].style
    BY <1>2, <1>5, <1>7
  <1>10. Tame(v, u, {m}) /\ (v.mobs[m].state = "ROAMING" => Tame(v, u, {}))
    BY <1>5, <1>6, <1>8 DEF Tame
  <1> QED
    BY <1>5, <1>6, <1>9, <1>10 DEF u

LEMMA RetreatedOK ==
    ASSUME NEW v \in Arena, NEW m \in DOMAIN v.mobs
    PROVE  LET u == Retreated(v, m)
           IN  /\ u \in Arena /\ DOMAIN u.mobs = DOMAIN v.mobs /\ Tame(v, u, {m})
               /\ u.mobs[m].state = "RETREAT" /\ u.mobs[m].hp = v.mobs[m].hp
               /\ u.spared = v.spared
  <1> DEFINE pack == PackOf(v, m) \cup {m}
             f == [n \in DOMAIN v.mobs |-> IF n \in pack THEN Retreating(v.mobs[n]) ELSE v.mobs[n]]
             u == Retreated(v, m)
  <1>1. /\ DOMAIN v.mobs \in SUBSET Mob
        /\ \A n \in DOMAIN v.mobs : v.mobs[n] \in SoundMob /\ v.mobs[n] \in MobRecord /\ v.mobs[n].hp <= Full(v.mobs[n])
                               /\ (v.mobs[n].summoned => ~v.mobs[n].despawned)
    BY ArenaFields DEF MobSound
  <1>2. ASSUME NEW n \in DOMAIN v.mobs
        PROVE  /\ Retreating(v.mobs[n]) \in SoundMob /\ Retreating(v.mobs[n]).state = "RETREAT"
               /\ Retreating(v.mobs[n]).hp = v.mobs[n].hp
    BY <1>1, RetreatingSound
  <1>3. f \in [DOMAIN v.mobs -> SoundMob]
    BY <1>1, <1>2
  <1>4. u = [v EXCEPT !.mobs = f]
    BY DEF Retreated
  <1>5. /\ u \in Arena /\ u.mobs = f /\ u.spared = v.spared
    <2> HIDE DEF f, u
    <2> QED
      BY <1>1, <1>3, <1>4, ArenaMobs
  <1>6. /\ DOMAIN f = DOMAIN v.mobs /\ \A n \in DOMAIN v.mobs \ pack : f[n] = v.mobs[n]
        /\ \A n \in DOMAIN v.mobs \cap pack : f[n] = Retreating(v.mobs[n])
    OBVIOUS
  <1> HIDE DEF f, u
  <1>7. ASSUME NEW n \in DOMAIN v.mobs \ {m} PROVE Spared(n, v.mobs[n], u.mobs[n])
    <2>1. v.mobs[n].hp \in Int
      BY <1>1, MobFields
    <2>2. CASE n \in pack
      <3>1. u.mobs[n].state = "RETREAT" /\ u.mobs[n].hp = v.mobs[n].hp
        BY <1>2, <1>5, <1>6, <2>2
      <3>2. LeaderOf(n) # None
        BY <2>2 DEF PackOf
      <3> QED
        BY <2>1, <3>1, <3>2 DEF Spared
    <2>3. CASE n \notin pack
      <3>1. u.mobs[n] = v.mobs[n]
        BY <1>5, <1>6, <2>3
      <3> QED
        BY <2>1, <3>1 DEF Spared
    <2> QED
      BY <2>2, <2>3
  <1>8. u.mobs[m].state = "RETREAT" /\ u.mobs[m].hp = v.mobs[m].hp
    BY <1>2, <1>5, <1>6
  <1> QED
    BY <1>5, <1>6, <1>7, <1>8 DEF u, Tame

\* What may have become of a fight.
Goes(v, t, m) == t \in Arena /\ Tame(v, t, {m}) /\ Fighting(t, m)

LEMMA GoesAgain ==
    ASSUME NEW v \in Arena, NEW u, NEW t, NEW m, Goes(v, u, m), Goes(u, t, m)
    PROVE  Goes(v, t, m)
  BY TameAgain DEF Goes

LEMMA GivesUpOK ==
    ASSUME NEW v \in Arena, NEW m, Fighting(v, m), NEW t \in GivesUp(v, m)
    PROVE  Goes(v, t, m)
  <1> DEFINE u == [v EXCEPT !.mobs[m].target = None, !.mobs[m].state = "RETREAT"]
             y == [v.mobs[m] EXCEPT !.target = None, !.state = "RETREAT"]
  <1>1. m \in DOMAIN v.mobs /\ v.mobs[m] \in MobRecord /\ MobSound(v.mobs[m]) /\ v.mobs[m].hp > 0
    BY ArenaFields DEF Fighting
  <1>2. /\ y.kind = v.mobs[m].kind /\ y.hp = v.mobs[m].hp /\ y.style = v.mobs[m].style /\ y.timed = v.mobs[m].timed
        /\ y.buffs = v.mobs[m].buffs /\ y.target = None /\ y.state = "RETREAT"
        /\ y.summoned = v.mobs[m].summoned /\ y.despawned = v.mobs[m].despawned
    BY <1>1 DEF MobRecord
  <1>3. y \in SoundMob
    <2>1. y \in MobRecord
      BY <1>1 DEF MobRecord, MobStates
    <2> HIDE DEF y
    <2>2. MobSound(y)
      BY <1>1, <1>2 DEF MobSound, Full
    <2> QED
      BY <2>1, <2>2 DEF SoundMob
  <1>4. u = [v EXCEPT !.mobs[m] = y]
    OBVIOUS
  <1> HIDE DEF y
  <1>5. /\ u \in Arena /\ DOMAIN u.mobs = DOMAIN v.mobs
        /\ \A n \in DOMAIN v.mobs : u.mobs[n] = IF n = m THEN y ELSE v.mobs[n]
    <2> HIDE DEF u
    <2> QED
      BY <1>1, <1>3, <1>4, OneMob
  <1>6. t = Retreated(u, m) \/ \E p \in Prey(u) : t = Engaged(u, m, p)
    BY DEF GivesUp
  <1> HIDE DEF u
  <1>7. u.mobs[m].hp > 0
    BY <1>1, <1>2, <1>5
  <1>8. Tame(v, u, {m})
    <2>1. \A n \in DOMAIN v.mobs : v.mobs[n].hp \in Int
      BY ArenaFields, MobFields
    <2> QED
      BY <1>5, <2>1 DEF Tame, Spared
  <1>9. t \in Arena /\ Tame(u, t, {m}) /\ Fighting(t, m)
    <2>1. CASE t = Retreated(u, m)
      BY <1>1, <1>5, <1>7, <2>1, RetreatedOK DEF Fighting
    <2>2. ASSUME NEW p \in Prey(u), t = Engaged(u, m, p) PROVE t \in Arena /\ Tame(u, t, {m}) /\ Fighting(t, m)
      <3>1. p \in Player
        BY DEF Prey, Near
      <3> QED
        BY <1>1, <1>5, <1>7, <2>2, <3>1, EngagedOK DEF Fighting
    <2> QED
      BY <1>6, <2>1, <2>2
  <1> QED
    BY <1>5, <1>8, <1>9, TameAgain DEF Goes

LEMMA StruckOK ==
    ASSUME NEW v \in Arena, NEW m, Fighting(v, m), NEW p \in Player, NEW t \in Struck(v, m, p)
    PROVE  Goes(v, t, m)
  <1>1. CASE t = v
    BY <1>1, TameSelf DEF Goes
  <1>2. CASE t # v
    <2> DEFINE u == [v EXCEPT !.spared = @ \cup {p}]
    <2>1. t \in GivesUp(u, m)
      BY <1>2 DEF Struck
    <2>2. u \in Arena /\ u.mobs = v.mobs
      BY DEF Arena
    <2>3. Fighting(u, m) /\ Tame(v, u, {m})
      BY <2>2, TameSelf DEF Fighting, Tame
    <2> HIDE DEF u
    <2> QED
      BY <2>1, <2>2, <2>3, GivesUpOK, TameAgain DEF Goes
  <1> QED
    BY <1>1, <1>2

-----------------------------------------------------------------------------
(***************************************************************************)
(* Mobs being hit.                                                         *)
(***************************************************************************)

\* More mobs, and what has been there is left alone.
More(v, u) ==
    /\ u \in Arena /\ DOMAIN v.mobs \subseteq DOMAIN u.mobs
    /\ \A n \in DOMAIN v.mobs : u.mobs[n] = v.mobs[n]

LEMMA MoreIsTame ==
    ASSUME NEW v \in Arena, NEW u, More(v, u)
    PROVE  Tame(v, u, {})
  <1>1. \A n \in DOMAIN v.mobs : v.mobs[n].hp \in Int
    BY ArenaFields, MobFields
  <1> QED
    BY <1>1 DEF More, Tame, Spared

LEMMA NewMobSound ==
    ASSUME NEW k \in DOMAIN MobData, NEW summoned \in BOOLEAN
    PROVE  NewMob(k, summoned) \in SoundMob
  <1> DEFINE y == NewMob(k, summoned)
  <1>1. MobData[k].hp \in Nat /\ MobData[k].hp > 0 /\ None \notin Player
    BY KindData, PlayersAssumption
  <1>2. y \in MobRecord
    BY <1>1 DEF NewMob, MobRecord, MobStates, Styles
  <1>3. MobSound(y)
    BY <1>1 DEF NewMob, MobSound, Full
  <1> QED
    BY <1>2, <1>3 DEF SoundMob

LEMMA SummonMobOK ==
    ASSUME NEW v \in Arena, NEW k \in DOMAIN MobData
    PROVE  More(v, SummonMob(v, k))
  <1>1. CASE Free(v) = {}
    BY <1>1 DEF SummonMob, More
  <1>2. CASE Free(v) # {}
    <2> DEFINE m == Min(Free(v))
               f == [n \in DOMAIN v.mobs \cup {m} |-> IF n = m THEN NewMob(k, TRUE) ELSE v.mobs[n]]
    <2>1. m \in Mob /\ m \notin DOMAIN v.mobs
      <3>1. Free(v) \in SUBSET Nat
        BY MobsAssumption DEF Free
      <3>2. m \in Free(v)
        BY <1>2, <3>1, MinIsLeast
      <3> QED
        BY <3>2 DEF Free
    <2>2. DOMAIN v.mobs \in SUBSET Mob /\ v.mobs \in [DOMAIN v.mobs -> SoundMob]
      BY ArenaFields
    <2>3. NewMob(k, TRUE) \in SoundMob
      BY NewMobSound
    <2>4. SummonMob(v, k) = [v EXCEPT !.mobs = f]
      BY <1>2 DEF SummonMob
    <2> HIDE DEF m
    <2>5. /\ f \in [DOMAIN v.mobs \cup {m} -> SoundMob]
          /\ \A n \in DOMAIN v.mobs : f[n] = v.mobs[n]
      BY <2>1, <2>2, <2>3
    <2>6. DOMAIN v.mobs \cup {m} \in SUBSET Mob /\ DOMAIN f = DOMAIN v.mobs \cup {m}
      BY <2>1, <2>2, <2>5
    <2> HIDE DEF f
    <2> QED
      BY <2>4, <2>5, <2>6, ArenaMobs DEF More
  <1> QED
    BY <1>1, <1>2

LEMMA SplitUpOK ==
    ASSUME NEW v \in Arena, NEW k \in DOMAIN MobData
    PROVE  More(v, SplitUp(v, k))
  <1> DEFINE s == MobData[k].splits
             D == DOMAIN s
             V == {u \in Arena : More(v, u)}
             added(u, i) == SummonMob(u, s[i])
             step == [x \in D \X V |-> added(x[2], x[1])]
             last == [T \in SUBSET D |-> Max(T)]
             Turn(it) == it = [T \in SUBSET D |-> IF T = {} THEN v
                                                  ELSE LET x == Max(T) IN added(it[T \ {x}], x)]
             all == CHOOSE it : Turn(it)
  <1>1. s \in Seq(DOMAIN MobData) /\ Len(s) \in Nat /\ D = 1 .. Len(s) /\ IsFiniteSet(D)
    <2>1. s \in Seq(DOMAIN MobData)
      BY KindData
    <2> HIDE DEF s
    <2> QED
      BY <2>1, LenProperties, FS_Interval
  <1>2. ASSUME NEW i \in D, NEW u \in V PROVE added(u, i) \in V
    <2>1. s[i] \in DOMAIN MobData
      BY <1>1, ElementOfSeq
    <2>2. More(u, added(u, i))
      BY <2>1, SummonMobOK
    <2> QED
      BY <2>2 DEF More
  <1>3. step \in [D \X V -> V]
    <2> HIDE DEF added, V, D
    <2> QED
      BY <1>2
  <1>4. ASSUME NEW T \in SUBSET D, T # {} PROVE Max(T) \in T
    <2>1. T \in SUBSET (0 .. Len(s))
      BY <1>1
    <2> QED
      BY <1>1, <1>4, <2>1, MaxIsGreatest
  <1>5. \A T \in SUBSET D : T # {} => last[T] \in T
    BY <1>4
  <1>6. v \in V
    BY DEF More
  <1>7. \E it \in [SUBSET D -> V] : IsFold(it, D, v, step, last)
    <2> HIDE DEF D, step, last, V
    <2> QED
      BY <1>1, <1>3, <1>5, <1>6, FoldExists
  <1>8. PICK it \in [SUBSET D -> V] : IsFold(it, D, v, step, last)
    BY <1>7
  <1>9. Turn(it)
    <2>1. ASSUME NEW T \in SUBSET D, T # {}
          PROVE  step[<<last[T], it[T \ {last[T]}]>>] = added(it[T \ {Max(T)}], Max(T))
      <3>1. last[T] = Max(T) /\ Max(T) \in D /\ T \ {Max(T)} \in SUBSET D
        BY <1>4, <2>1
      <3>2. it[T \ {Max(T)}] \in V
        BY <3>1
      <3> HIDE DEF added, V
      <3> QED
        BY <3>1, <3>2
    <2> HIDE DEF step, last, added
    <2> QED
      BY <1>8, <2>1 DEF IsFold
  <1>10. Turn(all)
    <2> HIDE DEF Turn
    <2> QED
      BY <1>9
  <1>11. SplitUp(v, k) = all[D]
    BY DEF SplitUp, FoldLeft, MapThenFoldSet
  <1> HIDE DEF all, step, last, V, added
  <1> DEFINE Good == {T \in SUBSET D : all[T] \in V}
  <1>12. {} \in Good
    <2>1. all[{}] = v /\ {} \in SUBSET D
      BY <1>10
    <2> HIDE DEF D, Turn
    <2> QED
      BY <1>6, <2>1
  <1>13. ASSUME NEW T \in SUBSET D, T # {}, \A x \in T : T \ {x} \in Good
         PROVE  T \in Good
    <2>1. Max(T) \in T /\ Max(T) \in D
      BY <1>4, <1>13
    <2>2. all[T \ {Max(T)}] \in V
      BY <1>13, <2>1
    <2>3. all[T] = added(all[T \ {Max(T)}], Max(T))
      BY <1>10, <1>13
    <2>4. all[T] \in V
      BY <1>2, <2>1, <2>2, <2>3
    <2> HIDE DEF D, Turn
    <2> QED
      BY <2>4
  <1>14. D \in Good
    <2>1. IsFiniteSet(D)
      BY <1>1
    <2> HIDE DEF Good, D, Turn
    <2>2. \A T \in SUBSET D : T # {} /\ (\A x \in T : T \ {x} \in Good) => T \in Good
      BY <1>13
    <2> QED
      BY <2>1, <2>2, <1>12, SubsetInduction
  <1> QED
    BY <1>11, <1>14 DEF V

LEMMA ClearDebuffType ==
    ASSUME NEW x \in MobRecord
    PROVE  LET y == ClearDebuff(x)
           IN  /\ y \in MobRecord /\ y.kind = x.kind /\ y.hp = x.hp /\ y.state = x.state /\ y.target = x.target
               /\ y.style = "none" /\ y.buffs = {} /\ y.timed = {}
  BY DEF ClearDebuff, MobRecord, Styles

\* A mob that has been hit, and maybe to death, in an arena that was right before.
LEMMA KillMobOK ==
    ASSUME NEW v \in Arena, NEW m \in DOMAIN v.mobs, NEW y \in MobRecord, y.hp <= Full(y)
    PROVE  LET u == KillMob([v EXCEPT !.mobs[m] = y], m)
           IN  /\ u \in Arena /\ DOMAIN v.mobs \subseteq DOMAIN u.mobs
               /\ \A n \in DOMAIN v.mobs \ {m} : u.mobs[n] = v.mobs[n]
               /\ u.mobs[m].state = "DEAD" /\ u.mobs[m].hp = y.hp
  <1> DEFINE t == [v EXCEPT !.mobs[m] = y]
             dead == [ClearDebuff(y) EXCEPT !.state = "DEAD", !.target = None, !.despawned = FALSE]
             u == [v EXCEPT !.mobs[m] = dead]
             gone == [u EXCEPT !.failed = TRUE]
  <1>1. t.mobs[m] = y
    BY DEF Arena
  <1>2. ClearDebuff(y) \in MobRecord /\ ClearDebuff(y).kind = y.kind /\ ClearDebuff(y).hp = y.hp
        /\ ClearDebuff(y).style = "none" /\ ClearDebuff(y).buffs = {}
    BY ClearDebuffType
  <1>3. dead \in MobRecord /\ dead.kind = y.kind /\ dead.hp = y.hp /\ dead.state = "DEAD" /\ dead.target = None
        /\ dead.style = "none" /\ dead.buffs = {} /\ dead.despawned = FALSE
    BY <1>2 DEF MobRecord, MobStates
  <1> HIDE DEF dead
  <1>4. dead \in SoundMob
    BY <1>3 DEF MobSound, SoundMob, Full
  <1>5. u \in Arena /\ DOMAIN u.mobs = DOMAIN v.mobs /\ u.mobs[m] = dead
        /\ \A n \in DOMAIN v.mobs \ {m} : u.mobs[n] = v.mobs[n]
    BY <1>4, OneMob
  <1>6. [t EXCEPT !.mobs[m] = dead] = u
    BY DEF Arena
  <1>7. gone \in Arena /\ gone.mobs = u.mobs
    BY <1>5 DEF Arena
  <1>8. y.kind \in DOMAIN MobData
    BY MobFields
  <1>9. More(u, SplitUp(u, y.kind)) /\ More(u, gone)
    <2>1. More(u, SplitUp(u, y.kind))
      <3> HIDE DEF u
      <3> QED
        BY <1>5, <1>8, SplitUpOK
    <2>2. More(u, gone)
      <3> HIDE DEF u, gone
      <3> QED
        BY <1>5, <1>7 DEF More
    <2> QED
      BY <2>1, <2>2
  <1>10. KillMob(t, m) = gone \/ KillMob(t, m) = SplitUp(u, y.kind)
    BY <1>1, <1>6 DEF KillMob, dead
  <1> HIDE DEF u, gone, t
  <1>11. More(u, KillMob(t, m))
    BY <1>9, <1>10
  <1>12. /\ KillMob(t, m) \in Arena /\ DOMAIN v.mobs \subseteq DOMAIN KillMob(t, m).mobs
         /\ \A n \in DOMAIN v.mobs \ {m} : KillMob(t, m).mobs[n] = v.mobs[n]
         /\ KillMob(t, m).mobs[m] = dead
    BY <1>5, <1>11 DEF More
  <1> QED
    BY <1>3, <1>12 DEF t

LEMMA HitMobOK ==
    ASSUME NEW v \in Arena, NEW m \in DOMAIN v.mobs, NEW p \in Player, NEW damage \in Nat
    PROVE  HitMob(v, m, p, damage) \in Arena /\ Tame(v, HitMob(v, m, p, damage), {})
  <1> DEFINE u == IF v.mobs[m].state = "ROAMING" THEN Engaged(v, m, p) ELSE v
             x == u.mobs[m]
             y == [x EXCEPT !.hp = x.hp - damage, !.buffs = x.buffs \ {"MEZ"}]
             t == [u EXCEPT !.mobs[m].hp = @ - damage, !.mobs[m].buffs = @ \ {"MEZ"}]
  <1>1. CASE ~CanHarm(v.mobs[m])
    BY <1>1, TameSelf DEF HitMob
  <1>2. CASE CanHarm(v.mobs[m])
    <2>1. v.mobs[m].state \in {"ROAMING", "COMBAT"} /\ v.mobs[m] \in MobRecord /\ MobSound(v.mobs[m]) /\ v.mobs[m].hp > 0
      <3>1. v.mobs[m].state \in {"ROAMING", "COMBAT"} /\ v.mobs[m] \in MobRecord /\ MobSound(v.mobs[m])
        BY <1>2, ArenaFields DEF CanHarm
      <3> QED
        BY <3>1, MobFields DEF MobSound
    <2>2. HitMob(v, m, p, damage) = IF t.mobs[m].hp <= 0 THEN KillMob(t, m) ELSE t
      BY <1>2 DEF HitMob
    <2>3. u \in Arena /\ DOMAIN u.mobs = DOMAIN v.mobs /\ Tame(v, u, {}) /\ u.mobs[m].state = "COMBAT"
      BY <2>1, EngagedOK, TameSelf
    <2> HIDE DEF u
    <2>4. x \in MobRecord /\ MobSound(x)
      BY <2>3, ArenaFields
    <2>5. u \in [place : [Player -> Places], spared : SUBSET Player,
                 mobs : UNION {[D -> SoundMob] : D \in SUBSET Mob},
                 bullets : [Player -> SUBSET (0 .. MaxBullet - 1)], failed : BOOLEAN]
      BY <2>3 DEF Arena
    <2>6. t = [u EXCEPT !.mobs[m] = y]
      BY <2>3, <2>4, <2>5 DEF MobRecord
    <2> HIDE DEF x
    <2>7. /\ y \in MobRecord /\ y.kind = x.kind /\ y.hp = x.hp - damage /\ y.buffs = x.buffs \ {"MEZ"}
          /\ y.timed = x.timed /\ y.state = x.state /\ y.target = x.target /\ y.style = x.style
          /\ y.summoned = x.summoned /\ y.despawned = x.despawned
      <3> HIDE DEF x
      <3>1. x \in MobRecord
        BY <2>4
      <3>2. x.hp - damage \in Int /\ x.buffs \ {"MEZ"} \in SUBSET (Debuffs \cup {"FREEDOM"})
        BY <3>1, MobFields
      <3> QED
        BY <3>1, <3>2 DEF MobRecord
    <2> HIDE DEF y, t
    <2>8. y.hp <= Full(y) /\ y.hp \in Int /\ Full(y) = Full(x) /\ MobData[y.kind] = MobData[x.kind]
      <3>1. x.hp \in Int /\ x.hp <= Full(x) /\ Full(x) \in Nat
        BY <2>4, MobFields DEF MobSound
      <3>2. Full(y) = Full(x)
        BY <2>7 DEF Full
      <3> QED
        BY <2>7, <3>1, <3>2
    <2>9. t.mobs[m] = y
      BY <2>3, <2>6 DEF Arena
    <2>10. \A n \in DOMAIN u.mobs : u.mobs[n].hp \in Int
      BY <2>3, ArenaFields, MobFields
    <2>11. CASE y.hp <= 0
      <3> DEFINE d == KillMob(t, m)
      <3>1. /\ d \in Arena /\ DOMAIN u.mobs \subseteq DOMAIN d.mobs
            /\ \A n \in DOMAIN u.mobs \ {m} : d.mobs[n] = u.mobs[n]
        BY <2>3, <2>6, <2>7, <2>8, KillMobOK
      <3>2. HitMob(v, m, p, damage) = d
        BY <2>2, <2>9, <2>11
      <3> HIDE DEF d
      <3>3. Tame(u, d, {})
        BY <2>3, <2>10, <3>1 DEF Tame, Spared
      <3> QED
        BY <2>3, <3>1, <3>2, <3>3, TameAgain
    <2>12. CASE ~(y.hp <= 0)
      <3>1. y \in SoundMob
        <4>1. x.state = "COMBAT"
          BY <2>3 DEF x
        <4>2. MobSound(y)
          BY <2>4, <2>7, <2>8, <2>12, <4>1 DEF MobSound
        <4> QED
          BY <2>7, <4>2 DEF SoundMob
      <3>2. t \in Arena /\ DOMAIN t.mobs = DOMAIN u.mobs
            /\ \A n \in DOMAIN u.mobs : t.mobs[n] = IF n = m THEN y ELSE u.mobs[n]
        BY <2>3, <2>6, <3>1, OneMob
      <3>3. Tame(u, t, {})
        BY <2>3, <2>10, <3>2 DEF Tame, Spared
      <3>4. HitMob(v, m, p, damage) = t
        BY <2>2, <2>9, <2>12
      <3> QED
        BY <2>3, <3>2, <3>3, <3>4, TameAgain
    <2> QED
      BY <2>11, <2>12
  <1> QED
    BY <1>1, <1>2

-----------------------------------------------------------------------------
(***************************************************************************)
(* step.                                                                   *)
(***************************************************************************)

\* Whatever a skill does, short of killing the mob that uses it.
Follows(v, t, m) == t \in Arena /\ Tame(v, t, {m})

LEMMA StyleOK ==
    ASSUME NEW v \in Arena, NEW m, Fighting(v, m), NEW s \in Styles
    PROVE  LET t == WithStyle(v, m, s)
           IN  /\ Goes(v, t, m)
               /\ t.mobs[m].state = v.mobs[m].state /\ t.mobs[m].target = v.mobs[m].target
  <1> DEFINE x == v.mobs[m]
             y == [x EXCEPT !.style = s]
             t == WithStyle(v, m, s)
  <1>1. m \in DOMAIN v.mobs /\ x \in MobRecord /\ MobSound(x) /\ x.hp > 0 /\ x.state \in {"COMBAT", "RETREAT"}
    BY ArenaFields DEF Fighting
  <1>2. t = [v EXCEPT !.mobs[m] = y]
    BY DEF WithStyle
  <1> HIDE DEF x, t
  <1>3. /\ y \in MobRecord /\ y.kind = x.kind /\ y.hp = x.hp /\ y.buffs = x.buffs /\ y.timed = x.timed
        /\ y.state = x.state /\ y.target = x.target /\ y.summoned = x.summoned /\ y.despawned = x.despawned
    BY <1>1 DEF MobRecord
  <1> HIDE DEF y
  <1>4. y \in SoundMob
    <2>1. Full(y) = Full(x) /\ MobData[y.kind] = MobData[x.kind]
      BY <1>3 DEF Full
    <2> QED
      BY <1>1, <1>3, <2>1 DEF MobSound, SoundMob
  <1>5. /\ t \in Arena /\ DOMAIN t.mobs = DOMAIN v.mobs
        /\ \A n \in DOMAIN v.mobs : t.mobs[n] = IF n = m THEN y ELSE v.mobs[n]
    BY <1>1, <1>2, <1>4, OneMob
  <1>6. \A n \in DOMAIN v.mobs : v.mobs[n].hp \in Int
    BY ArenaFields, MobFields
  <1>7. Tame(v, t, {m})
    BY <1>5, <1>6 DEF Tame, Spared
  <1>8. t.mobs[m] = y
    BY <1>1, <1>5
  <1> QED
    BY <1>1, <1>3, <1>5, <1>7, <1>8 DEF t, x, Goes, Fighting

\* A mob that fights has a player to fight.
LEMMA TargetIsPlayer ==
    ASSUME NEW v \in Arena, NEW m \in DOMAIN v.mobs, v.mobs[m].state = "COMBAT"
    PROVE  v.mobs[m].target \in Player
  BY ArenaFields, MobFields DEF MobSound

LEMMA CorruptedOK ==
    ASSUME NEW v \in Arena, NEW m, Fighting(v, m), v.mobs[m].state = "COMBAT", NEW t \in Corrupted(v, m)
    PROVE  Follows(v, t, m)
  <1> DEFINE u == WithStyle(v, m, "cooldown")
             p == v.mobs[m].target
  <1>1. p \in Player /\ m \in DOMAIN v.mobs
    BY TargetIsPlayer DEF Fighting
  <1>2. Goes(v, u, m)
    BY StyleOK DEF Styles
  <1>3. \/ t = HitMob(u, m, p, 1) \/ t \in Struck(u, m, p)
        \/ \E l \in Struck(u, m, p) : l.mobs[m].target \notin {None, p} /\ t \in Struck(l, m, l.mobs[m].target)
    BY DEF Corrupted
  <1> HIDE DEF u, p
  <1>4. u \in Arena /\ m \in DOMAIN u.mobs /\ Fighting(u, m) /\ Tame(v, u, {m})
    BY <1>2 DEF Goes, Fighting
  <1>5. t \in Arena /\ Tame(u, t, {m})
    <2>1. CASE t = HitMob(u, m, p, 1)
      <3>1. 1 \in Nat
        OBVIOUS
      <3>2. t \in Arena /\ Tame(u, t, {})
        BY <1>1, <1>4, <2>1, <3>1, HitMobOK
      <3> QED
        BY <3>2 DEF Tame
    <2>2. CASE t \in Struck(u, m, p)
      BY <1>1, <1>4, <2>2, StruckOK DEF Goes
    <2>3. ASSUME NEW l \in Struck(u, m, p), l.mobs[m].target # None, t \in Struck(l, m, l.mobs[m].target)
          PROVE  t \in Arena /\ Tame(u, t, {m})
      <3>1. l \in Arena /\ Tame(u, l, {m}) /\ Fighting(l, m)
        BY <1>1, <1>4, StruckOK DEF Goes
      <3>2. l.mobs[m].target \in Player
        <4>1. m \in DOMAIN l.mobs
          BY <3>1 DEF Fighting
        <4>2. l.mobs[m] \in MobRecord
          BY <3>1, <4>1, ArenaFields
        <4> QED
          BY <2>3, <4>2, MobFields
      <3>3. t \in Arena /\ Tame(l, t, {m})
        BY <2>3, <3>1, <3>2, StruckOK DEF Goes
      <3> QED
        BY <1>4, <3>1, <3>3, TameAgain
    <2> QED
      BY <1>3, <2>1, <2>2, <2>3
  <1> QED
    BY <1>4, <1>5, TameAgain DEF Follows

LEMMA SkilledOK ==
    ASSUME NEW v \in Arena, NEW m, Fighting(v, m), v.mobs[m].state = "COMBAT",
           NEW t \in Struck(v, m, v.mobs[m].target)
    PROVE  Follows(v, t, m)
  <1>1. v.mobs[m].target \in Player
    BY TargetIsPlayer DEF Fighting
  <1> QED
    BY <1>1, StruckOK DEF Goes, Follows

\* One player after the other is struck.
LEMMA EruptedOK ==
    ASSUME NEW v \in Arena, NEW m, Fighting(v, m), NEW t \in Erupted(v, m)
    PROVE  Follows(v, t, m)
  <1> DEFINE next(p, vs) == UNION {Struck(u, m, p) : u \in vs}
             first(T) == CHOOSE x \in T : TRUE
             struckAll(D) == FoldSet(next, {v}, D)
             V == SUBSET {u \in Arena : Goes(v, u, m)}
  <1>1. PICK D \in SUBSET Near(v) : \E u \in struckAll(D) : t = WithStyle(u, m, "cooldown")
    BY DEF Erupted
  <1>2. PICK u \in struckAll(D) : t = WithStyle(u, m, "cooldown")
    BY <1>1
  <1>3. D \in SUBSET Player /\ IsFiniteSet(D)
    <2>1. D \in SUBSET Player
      BY DEF Near
    <2> QED
      BY <2>1, MobsAssumption, FS_Subset
  <1>4. ASSUME NEW p \in D, NEW vs \in V PROVE next(p, vs) \in V
    <2>1. ASSUME NEW y \in next(p, vs) PROVE y \in Arena /\ Goes(v, y, m)
      <3>1. PICK s \in vs : y \in Struck(s, m, p)
        OBVIOUS
      <3>2. s \in Arena /\ Goes(v, s, m) /\ p \in Player
        BY <1>3
      <3>3. Goes(s, y, m)
        BY <3>1, <3>2, StruckOK DEF Goes
      <3> QED
        BY <3>2, <3>3, GoesAgain DEF Goes
    <2> HIDE DEF next
    <2> QED
      BY <2>1
  <1> DEFINE step == [x \in D \X V |-> next(x[1], x[2])]
             choice == [T \in SUBSET D |-> first(T)]
             Turn(it) == it = [T \in SUBSET D |-> IF T = {} THEN {v}
                                                  ELSE LET x == first(T) IN next(x, it[T \ {x}])]
             all == CHOOSE it : Turn(it)
  <1>5. step \in [D \X V -> V]
    <2> HIDE DEF next, V
    <2> QED
      BY <1>4
  <1>6. \A T \in SUBSET D : T # {} => first(T) \in T /\ choice[T] \in T
    OBVIOUS
  <1>7. {v} \in V
    BY TameSelf DEF Goes
  <1>8. \E it \in [SUBSET D -> V] : IsFold(it, D, {v}, step, choice)
    <2> HIDE DEF step, choice, V, first
    <2> QED
      BY <1>3, <1>5, <1>6, <1>7, FoldExists
  <1>9. PICK it \in [SUBSET D -> V] : IsFold(it, D, {v}, step, choice)
    BY <1>8
  <1>10. Turn(it)
    <2>1. ASSUME NEW T \in SUBSET D, T # {}
          PROVE  step[<<choice[T], it[T \ {choice[T]}]>>] = next(first(T), it[T \ {first(T)}])
      <3>1. choice[T] = first(T) /\ first(T) \in D /\ T \ {first(T)} \in SUBSET D
        BY <2>1
      <3> HIDE DEF first, V, next, choice
      <3>2. it[T \ {first(T)}] \in V
        BY <3>1
      <3> QED
        BY <3>1, <3>2
    <2> HIDE DEF step, choice, next, first
    <2> QED
      BY <1>9, <2>1 DEF IsFold
  <1>11. Turn(all)
    <2> HIDE DEF Turn
    <2> QED
      BY <1>10
  <1>12. struckAll(D) = all[D]
    BY DEF FoldSet, MapThenFoldSet
  <1> HIDE DEF all, step, choice, V, next, struckAll
  <1> DEFINE Good == {T \in SUBSET D : all[T] \in V}
  <1>13. {} \in Good
    <2>1. all[{}] = {v} /\ {} \in SUBSET D
      BY <1>11
    <2> HIDE DEF Turn
    <2> QED
      BY <1>7, <2>1
  <1>14. ASSUME NEW T \in SUBSET D, T # {}, \A x \in T : T \ {x} \in Good
         PROVE  T \in Good
    <2>1. first(T) \in T /\ first(T) \in D
      BY <1>6, <1>14
    <2>2. all[T] = next(first(T), all[T \ {first(T)}])
      BY <1>11, <1>14
    <2> HIDE DEF Turn, first
    <2>3. all[T \ {first(T)}] \in V
      BY <1>14, <2>1
    <2>4. all[T] \in V
      BY <1>4, <2>1, <2>2, <2>3
    <2> QED
      BY <2>4
  <1>15. D \in Good
    <2>1. IsFiniteSet(D)
      BY <1>3
    <2> HIDE DEF Good, Turn, first
    <2>2. \A T \in SUBSET D : T # {} /\ (\A x \in T : T \ {x} \in Good) => T \in Good
      BY <1>14
    <2> QED
      BY <2>1, <2>2, <1>13, SubsetInduction
  <1>16. Goes(v, u, m)
    BY <1>2, <1>12, <1>15 DEF V
  <1>17. Goes(u, t, m)
    BY <1>2, <1>16, StyleOK DEF Goes, Styles
  <1> QED
    BY <1>16, <1>17, GoesAgain DEF Goes, Follows

LEMMA CastOK ==
    ASSUME NEW v \in Arena, NEW m, Fighting(v, m), v.mobs[m].state = "COMBAT", NEW t \in Cast(v, m)
    PROVE  Follows(v, t, m)
  <1>1. v.mobs[m].style \in Styles
    BY ArenaFields, MobFields DEF Fighting
  <1>2. CASE v.mobs[m].style = "corruption"
    BY <1>2, CorruptedOK DEF Cast
  <1>3. CASE v.mobs[m].style = "eruption"
    BY <1>3, EruptedOK DEF Cast
  <1>4. CASE v.mobs[m].style = "none"
    <2>1. CASE t \in Skilled(v, m)
      BY <2>1, SkilledOK DEF Skilled
    <2>2. CASE t = WithStyle(v, m, "corruption") \/ t = WithStyle(v, m, "eruption")
      BY <2>2, StyleOK DEF Goes, Follows, Styles
    <2> QED
      BY <1>4, <2>1, <2>2 DEF Cast
  <1>5. CASE v.mobs[m].style = "cooldown"
    BY <1>5 DEF Cast
  <1> QED
    BY <1>1, <1>2, <1>3, <1>4, <1>5 DEF Styles

LEMMA OutrunOK ==
    ASSUME NEW v \in Arena, NEW u, NEW m \in DOMAIN v.mobs, Follows(v, u, m), NEW t \in Outrun(u, m)
    PROVE  Follows(v, t, m)
  <1>1. m \in DOMAIN u.mobs /\ u \in Arena
    BY DEF Follows, Tame
  <1>2. t = u \/ t = Retreated(u, m)
    BY DEF Outrun
  <1>3. t \in Arena /\ Tame(u, t, {m})
    BY <1>1, <1>2, RetreatedOK, TameSelf
  <1> QED
    BY <1>1, <1>3, TameAgain DEF Follows

LEMMA DrainedOK ==
    ASSUME NEW v \in Arena, NEW m, Fighting(v, m), v.mobs[m].state = "COMBAT"
    PROVE  LET t == Drained(v, m)
           IN  /\ Follows(v, t, m)
               /\ t.mobs[m].hp > 0 => Fighting(t, m) /\ t.mobs[m].state = "COMBAT"
  <1> DEFINE x == v.mobs[m]
             y == [x EXCEPT !.hp = x.hp - 1]
             u == [v EXCEPT !.mobs[m].hp = @ - 1]
             t == Drained(v, m)
  <1>1. m \in DOMAIN v.mobs /\ x \in MobRecord /\ MobSound(x) /\ x.hp > 0 /\ x.state = "COMBAT"
    BY ArenaFields DEF Fighting
  <1>2. u = [v EXCEPT !.mobs[m] = y]
    OBVIOUS
  <1>3. t = IF u.mobs[m].hp <= 0 THEN KillMob(u, m) ELSE u
    BY DEF Drained
  <1>4. x.hp \in Int /\ x.hp <= Full(x) /\ Full(x) \in Nat
    BY <1>1, MobFields DEF MobSound
  <1>5. u.mobs[m] = y
    BY <1>1 DEF Arena
  <1> HIDE DEF x, u, t
  <1>6. /\ y \in MobRecord /\ y.kind = x.kind /\ y.hp = x.hp - 1 /\ y.buffs = x.buffs /\ y.timed = x.timed
        /\ y.state = x.state /\ y.target = x.target /\ y.style = x.style
        /\ y.summoned = x.summoned /\ y.despawned = x.despawned
    BY <1>1, <1>4 DEF MobRecord
  <1> HIDE DEF y
  <1>7. Full(y) = Full(x) /\ MobData[y.kind] = MobData[x.kind] /\ y.hp <= Full(y)
    BY <1>4, <1>6 DEF Full
  <1>8. \A n \in DOMAIN v.mobs : v.mobs[n].hp \in Int
    BY ArenaFields, MobFields
  <1>9. CASE y.hp <= 0
    <2>1. t = KillMob([v EXCEPT !.mobs[m] = y], m)
      BY <1>2, <1>3, <1>5, <1>9
    <2>2. /\ t \in Arena /\ DOMAIN v.mobs \subseteq DOMAIN t.mobs
          /\ \A n \in DOMAIN v.mobs \ {m} : t.mobs[n] = v.mobs[n]
          /\ t.mobs[m].hp = y.hp
      BY <1>1, <1>6, <1>7, <2>1, KillMobOK
    <2>3. Follows(v, t, m)
      BY <1>8, <2>2 DEF Follows, Tame, Spared
    <2>4. ~(t.mobs[m].hp > 0)
      BY <1>4, <1>6, <1>9, <2>2
    <2> QED
      BY <2>3, <2>4 DEF t
  <1>10. CASE ~(y.hp <= 0)
    <2>1. t = u
      BY <1>3, <1>5, <1>10
    <2>2. y \in SoundMob
      BY <1>1, <1>6, <1>7, <1>10 DEF MobSound, SoundMob
    <2>3. /\ t \in Arena /\ DOMAIN t.mobs = DOMAIN v.mobs
          /\ \A n \in DOMAIN v.mobs : t.mobs[n] = IF n = m THEN y ELSE v.mobs[n]
      BY <1>1, <1>2, <2>1, <2>2, OneMob
    <2>4. Follows(v, t, m)
      BY <1>8, <2>3 DEF Follows, Tame, Spared
    <2>5. t.mobs[m] = y /\ y.state = "COMBAT"
      BY <1>1, <1>6, <2>3
    <2> QED
      BY <1>1, <2>3, <2>4, <2>5 DEF t, Fighting
  <1> QED
    BY <1>9, <1>10

\* The debuffs whose time is over.
LEMMA ExpiredOK ==
    ASSUME NEW v \in Arena, NEW m, Fighting(v, m), v.mobs[m].state = "COMBAT", NEW over
    PROVE  LET t == [v EXCEPT !.mobs[m].buffs = @ \ over, !.mobs[m].timed = @ \ over]
           IN  Goes(v, t, m) /\ t.mobs[m].state = "COMBAT"
  <1> DEFINE x == v.mobs[m]
             y == [x EXCEPT !.buffs = x.buffs \ over, !.timed = x.timed \ over]
             t == [v EXCEPT !.mobs[m].buffs = @ \ over, !.mobs[m].timed = @ \ over]
  <1>1. m \in DOMAIN v.mobs /\ x \in MobRecord /\ MobSound(x) /\ x.hp > 0 /\ x.state = "COMBAT"
    BY ArenaFields DEF Fighting
  <1>2. t = [v EXCEPT !.mobs[m] = y]
    BY <1>1 DEF Arena, MobRecord
  <1> HIDE DEF x, t
  <1>3. x.buffs \ over \in SUBSET (Debuffs \cup {"FREEDOM"}) /\ x.timed \ over \in SUBSET Debuffs
    BY <1>1, MobFields
  <1>4. /\ y \in MobRecord /\ y.kind = x.kind /\ y.hp = x.hp /\ y.buffs = x.buffs \ over
        /\ y.timed = x.timed \ over /\ y.state = x.state /\ y.target = x.target /\ y.style = x.style
        /\ y.summoned = x.summoned /\ y.despawned = x.despawned
    BY <1>1, <1>3 DEF MobRecord
  <1> HIDE DEF y
  <1>5. y \in SoundMob
    <2>1. Full(y) = Full(x) /\ MobData[y.kind] = MobData[x.kind]
      BY <1>4 DEF Full
    <2> QED
      BY <1>1, <1>4, <2>1 DEF MobSound, SoundMob
  <1>6. /\ t \in Arena /\ DOMAIN t.mobs = DOMAIN v.mobs
        /\ \A n \in DOMAIN v.mobs : t.mobs[n] = IF n = m THEN y ELSE v.mobs[n]
    BY <1>1, <1>2, <1>5, OneMob
  <1>7. \A n \in DOMAIN v.mobs : v.mobs[n].hp \in Int
    BY ArenaFields, MobFields
  <1>8. Tame(v, t, {m})
    BY <1>6, <1>7 DEF Tame, Spared
  <1>9. t.mobs[m] = y
    BY <1>1, <1>6
  <1> QED
    BY <1>1, <1>4, <1>6, <1>8, <1>9 DEF t, Goes, Fighting

\* The choices of a mob that is not stunned.
LEMMA FoughtOK ==
    ASSUME NEW v \in Arena, NEW m, Fighting(v, m), v.mobs[m].state = "COMBAT", NEW t,
           LET y == v.mobs[m]
               idle == IF y.style = "cooldown" THEN WithStyle(v, m, "none") ELSE v
           IN  \/ \E c \in Cast(v, m) : IF c.mobs[m].target = None THEN t = c ELSE t \in Outrun(c, m)
               \/ \E c \in {idle} \cup Attacked(idle, m) : t \in Outrun(c, m)
    PROVE  Follows(v, t, m)
  <1> DEFINE idle == IF v.mobs[m].style = "cooldown" THEN WithStyle(v, m, "none") ELSE v
  <1>1. m \in DOMAIN v.mobs
    BY DEF Fighting
  <1>2. ASSUME NEW c \in Cast(v, m), t = c \/ t \in Outrun(c, m)
        PROVE  Follows(v, t, m)
    <2>1. Follows(v, c, m)
      BY CastOK
    <2> QED
      BY <1>1, <1>2, <2>1, OutrunOK
  <1>3. ASSUME NEW c \in {idle} \cup Attacked(idle, m), t \in Outrun(c, m)
        PROVE  Follows(v, t, m)
    <2>1. Goes(v, idle, m) /\ idle.mobs[m].state = "COMBAT"
      BY StyleOK, TameSelf DEF Goes, Styles
    <2> HIDE DEF idle
    <2>2. idle \in Arena /\ Fighting(idle, m) /\ Tame(v, idle, {m})
      BY <2>1 DEF Goes
    <2>3. c = idle \/ c \in Struck(idle, m, idle.mobs[m].target)
      BY <1>3 DEF Attacked
    <2>4. Follows(idle, c, m)
      BY <2>1, <2>2, <2>3, SkilledOK, TameSelf DEF Follows
    <2>5. Follows(v, c, m)
      BY <2>2, <2>4, TameAgain DEF Follows
    <2> QED
      BY <1>1, <1>3, <2>5, OutrunOK
  <1> QED
    BY <1>2, <1>3

LEMMA CombatStepOK ==
    ASSUME arena \in Arena, NEW m \in DOMAIN arena.mobs, arena.mobs[m].state = "COMBAT",
           LoseAggro(m) \/ CombatStep(m)
    PROVE  arena' \in Arena /\ Tame(arena, arena', {m})
  <1>1. Fighting(arena, m)
    BY ArenaFields, MobFields DEF MobSound, Fighting
  <1>2. CASE LoseAggro(m)
    BY <1>1, <1>2, GivesUpOK DEF LoseAggro, Goes
  <1>3. CASE CombatStep(m)
    <2>1. PICK v \in {arena, Drained(arena, m)}, over \in SUBSET arena.mobs[m].timed :
             LET u == [v EXCEPT !.mobs[m].buffs = @ \ over, !.mobs[m].timed = @ \ over]
                 y == u.mobs[m]
                 idle == IF y.style = "cooldown" THEN WithStyle(u, m, "none") ELSE u
             IN  IF v.mobs[m].hp <= 0 THEN arena' = v
                 ELSE IF y.buffs \cap {"STUN", "MEZ"} # {}
                      THEN arena' = WithStyle(u, m, "none")
                 ELSE \/ \E t \in Cast(u, m) :
                           IF t.mobs[m].target = None THEN arena' = t ELSE arena' \in Outrun(t, m)
                      \/ \E t \in {idle} \cup Attacked(idle, m) : arena' \in Outrun(t, m)
      <3> DEFINE P(v, over) ==
             LET u == [v EXCEPT !.mobs[m].buffs = @ \ over, !.mobs[m].timed = @ \ over]
                 y == u.mobs[m]
                 idle == IF y.style = "cooldown" THEN WithStyle(u, m, "none") ELSE u
             IN  IF v.mobs[m].hp <= 0 THEN arena' = v
                 ELSE IF y.buffs \cap {"STUN", "MEZ"} # {}
                      THEN arena' = WithStyle(u, m, "none")
                 ELSE \/ \E t \in Cast(u, m) :
                           IF t.mobs[m].target = None THEN arena' = t ELSE arena' \in Outrun(t, m)
                      \/ \E t \in {idle} \cup Attacked(idle, m) : arena' \in Outrun(t, m)
      <3>1. \E v \in {arena} \cup
                 (IF arena.mobs[m].style # "corruption" /\ "BOUNDINGBALL" \in arena.mobs[m].buffs
                  THEN {Drained(arena, m)} ELSE {}),
              over \in SUBSET arena.mobs[m].timed : P(v, over)
        BY <1>3 DEF CombatStep
      <3> HIDE DEF P
      <3>2. \E v \in {arena, Drained(arena, m)}, over \in SUBSET arena.mobs[m].timed : P(v, over)
        BY <3>1
      <3> QED
        BY <3>2 DEF P
    <2> DEFINE u == [v EXCEPT !.mobs[m].buffs = @ \ over, !.mobs[m].timed = @ \ over]
    <2>2. /\ Follows(arena, v, m)
          /\ v.mobs[m].hp > 0 => Fighting(v, m) /\ v.mobs[m].state = "COMBAT"
      <3>1. CASE v = arena
        BY <1>1, <3>1, TameSelf DEF Follows
      <3>2. CASE v = Drained(arena, m)
        BY <1>1, <3>2, DrainedOK
      <3> QED
        BY <3>1, <3>2
    <2>3. v \in Arena /\ Tame(arena, v, {m}) /\ m \in DOMAIN v.mobs /\ v.mobs[m].hp \in Int
      BY <2>2, ArenaFields, MobFields DEF Follows, Tame
    <2>4. CASE v.mobs[m].hp <= 0
      BY <2>1, <2>3, <2>4
    <2>5. CASE ~(v.mobs[m].hp <= 0)
      <3>1. Fighting(v, m) /\ v.mobs[m].state = "COMBAT"
        BY <2>2, <2>3, <2>5
      <3>2. Goes(v, u, m) /\ u.mobs[m].state = "COMBAT"
        BY <2>3, <3>1, ExpiredOK
      <3>3. \/ arena' = WithStyle(u, m, "none")
            \/ LET y == u.mobs[m]
                   idle == IF y.style = "cooldown" THEN WithStyle(u, m, "none") ELSE u
               IN  \/ \E c \in Cast(u, m) :
                         IF c.mobs[m].target = None THEN arena' = c ELSE arena' \in Outrun(c, m)
                   \/ \E c \in {idle} \cup Attacked(idle, m) : arena' \in Outrun(c, m)
        BY <2>1, <2>5
      <3> HIDE DEF u
      <3>4. u \in Arena /\ Fighting(u, m) /\ Tame(v, u, {m})
        BY <3>2 DEF Goes
      <3>5. CASE arena' = WithStyle(u, m, "none")
        <4>1. arena' \in Arena /\ Tame(u, arena', {m})
          BY <3>4, <3>5, StyleOK DEF Goes, Styles
        <4> QED
          BY <2>3, <3>4, <4>1, TameAgain
      <3>6. CASE arena' # WithStyle(u, m, "none")
        <4>1. Follows(u, arena', m)
          BY <3>2, <3>3, <3>4, <3>6, FoughtOK
        <4>2. arena' \in Arena /\ Tame(u, arena', {m})
          BY <4>1 DEF Follows
        <4> QED
          BY <2>3, <3>4, <4>2, TameAgain
      <3> QED
        BY <3>5, <3>6
    <2> QED
      BY <2>4, <2>5
  <1> QED
    BY <1>2, <1>3

\* DeadStayDead of one step.
Rests(v, u) ==
    \A m \in DOMAIN v.mobs \cap DOMAIN u.mobs :
        LET x == v.mobs[m]
            y == u.mobs[m]
        IN  /\ x.state \in {"DEAD", "RETREAT"} => y.hp >= x.hp /\ y.state # "COMBAT"
            /\ x.state = "DEAD" /\ LeaderOf(m) = None =>
                   \/ y.state = "DEAD"
                   \/ y.state = "ROAMING" /\ y.hp = Full(y)

LEMMA TameRests ==
    ASSUME NEW v \in Arena, NEW u, NEW m, Tame(v, u, {m}), m \in DOMAIN v.mobs => v.mobs[m].state = "COMBAT"
    PROVE  Rests(v, u)
  BY DEF Tame, Spared, Rests

\* Where one mob is replaced.
LEMMA OneRests ==
    ASSUME NEW v \in Arena, NEW m \in DOMAIN v.mobs, NEW y \in SoundMob, y.state \in {"DEAD", "ROAMING"},
           y.hp >= v.mobs[m].hp,
           v.mobs[m].state = "DEAD" => y.state = "DEAD" \/ y.hp = Full(y)
    PROVE  [v EXCEPT !.mobs[m] = y] \in Arena /\ Rests(v, [v EXCEPT !.mobs[m] = y])
  <1> DEFINE u == [v EXCEPT !.mobs[m] = y]
  <1>1. /\ u \in Arena /\ DOMAIN u.mobs = DOMAIN v.mobs
        /\ \A n \in DOMAIN v.mobs : u.mobs[n] = IF n = m THEN y ELSE v.mobs[n]
    BY OneMob
  <1>2. \A n \in DOMAIN v.mobs : v.mobs[n].hp \in Int
    BY ArenaFields, MobFields
  <1> HIDE DEF u
  <1>3. Rests(v, u)
    BY <1>1, <1>2 DEF Rests
  <1> QED
    BY <1>1, <1>3 DEF u

LEMMA RemovedOK ==
    ASSUME NEW v \in Arena, NEW m \in DOMAIN v.mobs
    PROVE  Removed(v, m) \in Arena /\ Rests(v, Removed(v, m))
  <1> DEFINE D == DOMAIN v.mobs \ {m}
             f == [n \in D |-> v.mobs[n]]
  <1>1. v.mobs \in [DOMAIN v.mobs -> SoundMob] /\ DOMAIN v.mobs \in SUBSET Mob
        /\ \A n \in DOMAIN v.mobs : v.mobs[n].hp \in Int
    BY ArenaFields, MobFields
  <1>2. f \in [D -> SoundMob] /\ D \in SUBSET Mob /\ DOMAIN f = D /\ \A n \in D : f[n] = v.mobs[n]
    BY <1>1
  <1>3. Removed(v, m) = [v EXCEPT !.mobs = f]
    BY DEF Removed
  <1> HIDE DEF f
  <1>4. Removed(v, m) \in Arena /\ Removed(v, m).mobs = f
    BY <1>2, <1>3, ArenaMobs
  <1>5. Rests(v, Removed(v, m))
    BY <1>1, <1>2, <1>4 DEF Rests
  <1> QED
    BY <1>4, <1>5

LEMMA RetreatStepOK ==
    ASSUME arena \in Arena, NEW m \in DOMAIN arena.mobs, arena.mobs[m].state = "RETREAT", RetreatStep(m)
    PROVE  arena' \in Arena /\ Rests(arena, arena')
  <1> DEFINE x == arena.mobs[m]
             c == ClearDebuff(x)
             y == [c EXCEPT !.state = "ROAMING", !.hp = Full(x)]
  <1>1. x \in MobRecord /\ MobSound(x) /\ Full(x) \in Nat /\ Full(x) > 0
    BY ArenaFields, MobFields
  <1>2. c \in MobRecord /\ c.kind = x.kind /\ c.target = x.target /\ c.style = "none" /\ c.buffs = {}
    BY <1>1, ClearDebuffType
  <1>3. c.summoned = x.summoned /\ c.despawned = x.despawned
    BY <1>1 DEF ClearDebuff, MobRecord
  <1>4. arena' = [arena EXCEPT !.mobs[m] = y]
    BY DEF RetreatStep
  <1>5. x.state = "RETREAT" /\ x.target = None /\ Full(x) \in Int
    BY <1>1 DEF MobSound
  <1> HIDE DEF c, x
  <1>6. /\ y \in MobRecord /\ y.kind = x.kind /\ y.hp = Full(x) /\ y.buffs = {} /\ y.state = "ROAMING"
        /\ y.target = None /\ y.style = "none" /\ y.summoned = x.summoned /\ y.despawned = x.despawned
    BY <1>1, <1>2, <1>3, <1>5 DEF MobRecord, MobStates
  <1> HIDE DEF y
  <1>7. y \in SoundMob /\ y.hp = Full(y) /\ y.hp >= x.hp
    <2>1. Full(y) = Full(x) /\ x.hp \in Int /\ x.hp <= Full(x)
      BY <1>1, <1>6, MobFields DEF Full, MobSound
    <2> QED
      BY <1>1, <1>6, <2>1 DEF MobSound, SoundMob
  <1> QED
    BY <1>4, <1>5, <1>6, <1>7, OneRests DEF x

LEMMA DeadStepOK ==
    ASSUME arena \in Arena, NEW m \in DOMAIN arena.mobs, arena.mobs[m].state = "DEAD", DeadStep(m)
    PROVE  arena' \in Arena /\ Rests(arena, arena')
  <1> DEFINE x == arena.mobs[m]
             a == [x EXCEPT !.despawned = TRUE]
             b == [x EXCEPT !.state = "ROAMING", !.hp = Full(x)]
  <1>1. x \in MobRecord /\ MobSound(x) /\ Full(x) \in Nat /\ Full(x) > 0 /\ x.state = "DEAD" /\ x.hp \in Int
        /\ x.hp <= Full(x) /\ x.summoned \in BOOLEAN /\ x.despawned \in BOOLEAN
    BY ArenaFields, MobFields DEF MobSound
  <1>0. Full(x) \in Int
    BY <1>1
  <1>2. \/ arena' = Removed(arena, m)
        \/ ~x.summoned /\ arena' = [arena EXCEPT !.mobs[m] = a]
        \/ arena' = [arena EXCEPT !.mobs[m] = b]
    BY DEF DeadStep
  <1>3. CASE arena' = Removed(arena, m)
    BY <1>3, RemovedOK
  <1>4. CASE ~x.summoned /\ arena' = [arena EXCEPT !.mobs[m] = a]
    <2> HIDE DEF x
    <2>1. /\ a \in MobRecord /\ a.kind = x.kind /\ a.hp = x.hp /\ a.buffs = x.buffs /\ a.timed = x.timed
          /\ a.state = x.state /\ a.target = x.target /\ a.style = x.style /\ a.summoned = x.summoned
      BY <1>1 DEF MobRecord
    <2> HIDE DEF a
    <2>2. Full(a) = Full(x) /\ MobData[a.kind] = MobData[x.kind]
      BY <2>1 DEF Full
    <2>3. a \in SoundMob
      BY <1>1, <1>4, <2>1, <2>2 DEF MobSound, SoundMob
    <2> QED
      BY <1>1, <1>4, <2>1, <2>3, OneRests DEF x
  <1>5. CASE arena' = [arena EXCEPT !.mobs[m] = b]
    <2> HIDE DEF x
    <2>1. /\ b \in MobRecord /\ b.kind = x.kind /\ b.hp = Full(x) /\ b.buffs = x.buffs /\ b.timed = x.timed
          /\ b.state = "ROAMING" /\ b.target = x.target /\ b.style = x.style /\ b.summoned = x.summoned
          /\ b.despawned = x.despawned
      BY <1>0, <1>1 DEF MobRecord, MobStates
    <2> HIDE DEF b
    <2>2. Full(b) = Full(x) /\ MobData[b.kind] = MobData[x.kind]
      BY <2>1 DEF Full
    <2>3. b \in SoundMob
      BY <1>1, <1>5, <2>1, <2>2 DEF MobSound, SoundMob
    <2>4. b.hp >= x.hp /\ b.hp = Full(b)
      BY <1>1, <2>1, <2>2
    <2> QED
      BY <1>1, <1>5, <2>1, <2>3, <2>4, OneRests DEF x
  <1> QED
    BY <1>2, <1>3, <1>4, <1>5

LEMMA MobStepOK ==
    ASSUME arena \in Arena, NEW m \in Mob, MobStep(m)
    PROVE  arena' \in Arena /\ Rests(arena, arena')
  <1>1. m \in DOMAIN arena.mobs
    BY DEF MobStep
  <1>2. CASE arena.mobs[m].state = "ROAMING" /\ RoamingStep(m)
    <2>1. PICK p \in Prey(arena) : arena' = Engaged(arena, m, p)
      BY <1>2 DEF RoamingStep
    <2>2. p \in Player
      BY DEF Prey, Near
    <2>3. arena.mobs[m].hp > 0
      BY <1>1, <1>2, ArenaFields, MobFields DEF MobSound
    <2>4. arena' \in Arena /\ Tame(arena, arena', {})
      BY <1>1, <1>2, <2>1, <2>2, <2>3, EngagedOK
    <2> QED
      BY <2>4 DEF Tame, Spared, Rests
  <1>3. CASE arena.mobs[m].state = "COMBAT" /\ (LoseAggro(m) \/ CombatStep(m))
    BY <1>1, <1>3, CombatStepOK, TameRests
  <1>4. CASE arena.mobs[m].state = "RETREAT" /\ RetreatStep(m)
    BY <1>1, <1>4, RetreatStepOK
  <1>5. CASE arena.mobs[m].state = "DEAD" /\ DeadStep(m)
    BY <1>1, <1>5, DeadStepOK
  <1> QED
    BY <1>2, <1>3, <1>4, <1>5 DEF MobStep

-----------------------------------------------------------------------------
(***************************************************************************)
(* Packets.                                                                *)
(***************************************************************************)

LEMMA TameAllRests ==
    ASSUME NEW v, NEW u, Tame(v, u, {})
    PROVE  Rests(v, u)
  BY DEF Tame, Spared, Rests

LEMMA HitAllOK ==
    ASSUME NEW v \in Arena, NEW p \in Player, NEW ms \in Seq(Mob)
    PROVE  HitAll(v, p, ms) \in Arena /\ Tame(v, HitAll(v, p, ms), {})
  <1> DEFINE I == {i \in 1 .. Len(ms) : ms[i] \notin DOMAIN v.mobs}
             known == IF I # {} THEN Min(I) ELSE 0
             hit == IF known = 0 THEN ms ELSE SubSeq(ms, 1, known - 1)
             D == DOMAIN hit
             V == {u \in Arena : Tame(v, u, {})}
             added(u, i) == IF u.failed THEN u ELSE HitMob(u, hit[i], p, 1)
             step == [x \in D \X V |-> added(x[2], x[1])]
             last == [T \in SUBSET D |-> Max(T)]
             Turn(it) == it = [T \in SUBSET D |-> IF T = {} THEN v
                                                  ELSE LET x == Max(T) IN added(it[T \ {x}], x)]
             all == CHOOSE it : Turn(it)
  <1>1. hit \in Seq(Mob) /\ \A i \in 1 .. Len(hit) : hit[i] \in DOMAIN v.mobs
    <2>1. Len(ms) \in Nat /\ \A i \in 1 .. Len(ms) : ms[i] \in Mob
      BY LenProperties, ElementOfSeq
    <2>2. I \in SUBSET Nat
      BY <2>1
    <2>3. CASE I = {}
      BY <2>3
    <2>4. CASE I # {}
      <3>1. known \in I /\ \A i \in I : known <= i
        BY <2>2, <2>4, MinIsLeast
      <3>0. hit = IF known = 0 THEN ms ELSE SubSeq(ms, 1, known - 1)
        OBVIOUS
      <3> HIDE DEF known, hit
      <3>2. known \in 1 .. Len(ms) /\ \A i \in 1 .. known - 1 : i \in 1 .. Len(ms) /\ ms[i] \in DOMAIN v.mobs
        <4>1. known \in 1 .. Len(ms)
          BY <3>1
        <4>2. ASSUME NEW i \in 1 .. known - 1 PROVE i \in 1 .. Len(ms) /\ ms[i] \in DOMAIN v.mobs
          <5>1. i \in 1 .. Len(ms) /\ ~(known <= i)
            BY <2>1, <4>1
          <5>2. i \notin I
            BY <3>1, <5>1
          <5> QED
            BY <5>1, <5>2
        <4> QED
          BY <4>1, <4>2
      <3>3. known # 0 /\ hit = SubSeq(ms, 1, known - 1) /\ known - 1 \in Nat
        BY <2>1, <3>0, <3>2
      <3> HIDE DEF known, hit, I
      <3>4. /\ SubSeq(ms, 1, known - 1) \in Seq(Mob)
            /\ Len(SubSeq(ms, 1, known - 1)) = IF 1 <= known - 1 THEN known - 1 - 1 + 1 ELSE 0
            /\ \A i \in 1 .. known - 1 - 1 + 1 : SubSeq(ms, 1, known - 1)[i] = ms[1 + i - 1]
        <4>1. \A i \in 1 .. known - 1 : ms[i] \in Mob
          BY <2>1, <3>2
        <4>2. 1 \in Int /\ known - 1 \in Int
          BY <3>3
        <4> QED
          BY <4>1, <4>2, SubSeqProperties
      <3>5. Len(hit) = known - 1 /\ \A i \in 1 .. known - 1 : hit[i] = ms[i]
        BY <3>3, <3>4
      <3> QED
        BY <3>2, <3>3, <3>4, <3>5
    <2> QED
      BY <2>3, <2>4
  <1>2. HitAll(v, p, ms) = FoldLeft(LAMBDA u, m : IF u.failed THEN u ELSE HitMob(u, m, p, 1), v, hit)
    BY DEF HitAll, SelectInSeq
  <1> HIDE DEF hit, known, I
  <1>3. Len(hit) \in Nat /\ D = 1 .. Len(hit) /\ IsFiniteSet(D)
    BY <1>1, LenProperties, FS_Interval
  <1>4. ASSUME NEW i \in D, NEW u \in V PROVE added(u, i) \in V
    <2>1. u \in Arena /\ hit[i] \in DOMAIN u.mobs /\ 1 \in Nat /\ Tame(v, u, {})
      BY <1>1, <1>3 DEF Tame
    <2>2. HitMob(u, hit[i], p, 1) \in Arena /\ Tame(u, HitMob(u, hit[i], p, 1), {})
      BY <2>1, HitMobOK
    <2>3. HitMob(u, hit[i], p, 1) \in V
      BY <2>1, <2>2, TameAgain
    <2> HIDE DEF V
    <2> QED
      BY <2>3
  <1>5. step \in [D \X V -> V]
    <2> HIDE DEF added, V, D
    <2> QED
      BY <1>4
  <1>6. ASSUME NEW T \in SUBSET D, T # {} PROVE Max(T) \in T
    <2>1. T \in SUBSET (0 .. Len(hit))
      BY <1>3
    <2> QED
      BY <1>3, <1>6, <2>1, MaxIsGreatest
  <1>7. \A T \in SUBSET D : T # {} => last[T] \in T
    BY <1>6
  <1>8. v \in V
    BY TameSelf
  <1>9. \E it \in [SUBSET D -> V] : IsFold(it, D, v, step, last)
    <2> HIDE DEF D, step, last, V
    <2> QED
      BY <1>3, <1>5, <1>7, <1>8, FoldExists
  <1>10. PICK it \in [SUBSET D -> V] : IsFold(it, D, v, step, last)
    BY <1>9
  <1>11. Turn(it)
    <2>1. ASSUME NEW T \in SUBSET D, T # {}
          PROVE  step[<<last[T], it[T \ {last[T]}]>>] = added(it[T \ {Max(T)}], Max(T))
      <3>1. last[T] = Max(T) /\ Max(T) \in D /\ T \ {Max(T)} \in SUBSET D
        BY <1>6, <2>1
      <3>2. it[T \ {Max(T)}] \in V
        BY <3>1
      <3> HIDE DEF added, V
      <3> QED
        BY <3>1, <3>2
    <2> HIDE DEF step, last, added
    <2> QED
      BY <1>10, <2>1 DEF IsFold
  <1>12. Turn(all)
    <2> HIDE DEF Turn
    <2> QED
      BY <1>11
  <1>13. HitAll(v, p, ms) = all[D]
    BY <1>2 DEF FoldLeft, MapThenFoldSet
  <1> HIDE DEF all, step, last, V, added
  <1> DEFINE Good == {T \in SUBSET D : all[T] \in V}
  <1>14. {} \in Good
    <2>1. all[{}] = v /\ {} \in SUBSET D
      BY <1>12
    <2> HIDE DEF D, Turn
    <2> QED
      BY <1>8, <2>1
  <1>15. ASSUME NEW T \in SUBSET D, T # {}, \A x \in T : T \ {x} \in Good
         PROVE  T \in Good
    <2>1. Max(T) \in T /\ Max(T) \in D
      BY <1>6, <1>15
    <2>2. all[T \ {Max(T)}] \in V
      BY <1>15, <2>1
    <2>3. all[T] = added(all[T \ {Max(T)}], Max(T))
      BY <1>12, <1>15
    <2>4. all[T] \in V
      BY <1>4, <2>1, <2>2, <2>3
    <2> HIDE DEF D, Turn
    <2> QED
      BY <2>4
  <1>16. D \in Good
    <2>1. IsFiniteSet(D)
      BY <1>3
    <2> HIDE DEF Good, D, Turn
    <2>2. \A T \in SUBSET D : T # {} /\ (\A x \in T : T \ {x} \in Good) => T \in Good
      BY <1>15
    <2> QED
      BY <2>1, <2>2, <1>14, SubsetInduction
  <1> QED
    BY <1>13, <1>16 DEF V

LEMMA VolleysAreHits ==
    ASSUME arena \in Arena, NEW ms \in {<<>>} \cup Volleys
    PROVE  ms \in Seq(Mob)
  <1>1. DOMAIN arena.mobs \in SUBSET Mob
    BY ArenaFields
  <1>2. CASE ms = <<>>
    BY <1>2, EmptySeq
  <1>3. CASE \E m \in Mob : ms = <<m>>
    BY <1>3
  <1>4. CASE \E m, n \in Mob : ms = <<m, n>>
    BY <1>4
  <1>5. ms = <<>> \/ (\E m \in Mob : ms = <<m>>) \/ \E m, n \in Mob : ms = <<m, n>>
    BY <1>1 DEF Volleys
  <1> QED
    BY <1>2, <1>3, <1>4, <1>5

\* Where the mobs are left alone.
LEMMA AsideOK ==
    ASSUME NEW v \in Arena, NEW u \in Arena, u.mobs = v.mobs
    PROVE  Rests(v, u)
  <1>1. \A n \in DOMAIN v.mobs : v.mobs[n].hp \in Int
    BY ArenaFields, MobFields
  <1> QED
    BY <1>1 DEF Rests

LEMMA PcAttackNpcsOK ==
    ASSUME arena \in Arena, NEW p \in Player, PcAttackNpcs(p)
    PROVE  arena' \in Arena /\ Rests(arena, arena')
  <1>1. PICK ms \in Volleys : arena' = HitAll(arena, p, ms)
    BY DEF PcAttackNpcs
  <1> QED
    BY <1>1, VolleysAreHits, HitAllOK, TameAllRests

LEMMA FireOK ==
    ASSUME arena \in Arena, NEW p \in Player, Fire(p)
    PROVE  arena' \in Arena /\ Rests(arena, arena')
  <1> DEFINE ids == 0 .. MaxBullet - 1
             free == ids \ arena.bullets[p]
             b == IF free = {} THEN 0 ELSE Min(free)
             f == [arena.bullets EXCEPT ![p] = @ \cup {b}]
  <1>1. 0 \in ids /\ free \in SUBSET Nat
    BY MobsAssumption
  <1>2. arena' = [arena EXCEPT !.bullets = f]
    BY DEF Fire
  <1>3. b \in ids
    <2>1. CASE free = {}
      BY <1>1, <2>1
    <2>2. CASE free # {}
      BY <1>1, <2>2, MinIsLeast
    <2> QED
      BY <2>1, <2>2
  <1>4. arena.bullets \in [Player -> SUBSET ids]
    BY ArenaFields
  <1> HIDE DEF b
  <1>5. f \in [Player -> SUBSET ids]
    <2> HIDE DEF ids
    <2> QED
      BY <1>3, <1>4
  <1> HIDE DEF f
  <1>6. arena' \in Arena /\ arena'.mobs = arena.mobs
    BY <1>2, <1>5 DEF Arena
  <1> QED
    BY <1>6, AsideOK

LEMMA ProjectileHitOK ==
    ASSUME arena \in Arena, NEW p \in Player, ProjectileHit(p)
    PROVE  arena' \in Arena /\ Rests(arena, arena')
  <1>1. PICK b \in arena.bullets[p], ms \in {<<>>} \cup Volleys :
            arena' = IF ToSet(ms) \subseteq DOMAIN arena.mobs
                     THEN [HitAll(arena, p, ms) EXCEPT !.bullets[p] = @ \ {b}] ELSE HitAll(arena, p, ms)
    BY DEF ProjectileHit
  <1> DEFINE hit == HitAll(arena, p, ms)
             f == [hit.bullets EXCEPT ![p] = @ \ {b}]
             u == [hit EXCEPT !.bullets = f]
  <1>2. arena' = hit \/ arena' = u
    BY <1>1
  <1>3. hit \in Arena /\ Tame(arena, hit, {})
    BY VolleysAreHits, HitAllOK
  <1> HIDE DEF hit
  <1>4. f \in [Player -> SUBSET (0 .. MaxBullet - 1)]
    BY <1>3, ArenaFields
  <1> HIDE DEF f
  <1>5. u \in Arena /\ u.mobs = hit.mobs
    BY <1>3, <1>4 DEF Arena
  <1>6. Tame(arena, u, {})
    BY <1>3, <1>5 DEF Tame
  <1> QED
    BY <1>2, <1>3, <1>5, <1>6, TameAllRests

LEMMA DebuffOK ==
    ASSUME arena \in Arena, NEW p \in Player, NEW m \in Mob, NEW d \in Debuffs, Debuff(p, m, d)
    PROVE  arena' \in Arena /\ Rests(arena, arena')
  <1> DEFINE v == HitMob(arena, m, p, 0)
             x == v.mobs[m]
             y == [x EXCEPT !.buffs = x.buffs \cup {d}, !.timed = x.timed \cup {d}]
             t == [v EXCEPT !.mobs[m].buffs = @ \cup {d}, !.mobs[m].timed = @ \cup {d}]
  <1>1. m \in DOMAIN arena.mobs /\ (arena' = v \/ arena' = t)
    BY DEF Debuff
  <1>2. v \in Arena /\ Tame(arena, v, {})
    <2>1. 0 \in Nat
      OBVIOUS
    <2> QED
      BY <1>1, <2>1, HitMobOK
  <1> HIDE DEF v
  <1>3. m \in DOMAIN v.mobs
    BY <1>1, <1>2 DEF Tame
  <1>4. x \in MobRecord /\ MobSound(x)
    BY <1>2, <1>3, ArenaFields
  <1>5. t = [v EXCEPT !.mobs[m] = y]
    BY <1>2, <1>3, <1>4 DEF Arena, MobRecord
  <1> HIDE DEF x, t
  <1>6. x.buffs \cup {d} \in SUBSET (Debuffs \cup {"FREEDOM"}) /\ x.timed \cup {d} \in SUBSET Debuffs
    BY <1>4, MobFields
  <1>7. /\ y \in MobRecord /\ y.kind = x.kind /\ y.hp = x.hp /\ y.buffs = x.buffs \cup {d}
        /\ y.timed = x.timed \cup {d} /\ y.state = x.state /\ y.target = x.target /\ y.style = x.style
        /\ y.summoned = x.summoned /\ y.despawned = x.despawned
    BY <1>4, <1>6 DEF MobRecord
  <1> HIDE DEF y
  <1>8. y \in SoundMob
    <2>1. Full(y) = Full(x) /\ MobData[y.kind] = MobData[x.kind]
      BY <1>7 DEF Full
    <2> QED
      BY <1>4, <1>7, <2>1 DEF MobSound, SoundMob
  <1>9. /\ t \in Arena /\ DOMAIN t.mobs = DOMAIN v.mobs
        /\ \A n \in DOMAIN v.mobs : t.mobs[n] = IF n = m THEN y ELSE v.mobs[n]
    BY <1>2, <1>3, <1>5, <1>8, OneMob
  <1>10. \A n \in DOMAIN v.mobs : v.mobs[n].hp \in Int
    BY <1>2, ArenaFields, MobFields
  <1>11. Tame(v, t, {})
    <2>1. v.mobs[m] = x
      BY DEF x
    <2> QED
      BY <1>3, <1>7, <1>9, <1>10, <2>1 DEF Tame, Spared
  <1>12. Tame(arena, t, {})
    BY <1>2, <1>9, <1>11, TameAgain
  <1> QED
    BY <1>1, <1>2, <1>9, <1>12, TameAllRests

\* What players do to each other and to themselves.
LEMMA GoToOK ==
    ASSUME arena \in Arena, NEW p \in Player, NEW place \in Places,
           GoTo(p, place) \/ Fall(p) \/ GetUp(p)
    PROVE  arena' \in Arena /\ Rests(arena, arena')
  <1> DEFINE places == [arena.place EXCEPT ![p] = place]
             bullets == [arena.bullets EXCEPT ![p] = {}]
  <1>1. places \in [Player -> Places] /\ bullets \in [Player -> SUBSET (0 .. MaxBullet - 1)]
    BY ArenaFields
  <1>2. \/ arena' = [arena EXCEPT !.place = places, !.spared = arena.spared \ {p}, !.bullets = bullets]
        \/ arena' = [arena EXCEPT !.place = places]
        \/ arena' = [arena EXCEPT !.spared = arena.spared \cup {p}]
        \/ arena' = [arena EXCEPT !.spared = arena.spared \ {p}]
    BY DEF GoTo, Fall, GetUp, Arena
  <1> HIDE DEF places, bullets
  <1>3. arena.spared \cup {p} \in SUBSET Player /\ arena.spared \ {p} \in SUBSET Player
    BY ArenaFields
  <1>4. CASE arena' = [arena EXCEPT !.place = places, !.spared = arena.spared \ {p}, !.bullets = bullets]
    <2>1. arena' \in Arena /\ arena'.mobs = arena.mobs
      BY <1>1, <1>3, <1>4 DEF Arena
    <2> QED
      BY <2>1, AsideOK
  <1>5. CASE arena' = [arena EXCEPT !.place = places]
    <2>1. arena' \in Arena /\ arena'.mobs = arena.mobs
      BY <1>1, <1>5 DEF Arena
    <2> QED
      BY <2>1, AsideOK
  <1>6. ASSUME NEW spared \in SUBSET Player, arena' = [arena EXCEPT !.spared = spared]
        PROVE  arena' \in Arena /\ Rests(arena, arena')
    <2>1. arena' \in Arena /\ arena'.mobs = arena.mobs
      BY <1>6 DEF Arena
    <2> QED
      BY <2>1, AsideOK
  <1> QED
    BY <1>2, <1>3, <1>4, <1>5, <1>6

LEMMA SpawnsOK ==
    ASSUME arena \in Arena, Spawns
    PROVE  arena' \in Arena /\ Rests(arena, arena')
  <1>1. PICK p \in Player, m \in DOMAIN arena.mobs : Summon(p, arena.mobs[m].kind) \/ Unsummon(p, m)
    BY DEF Spawns
  <1>2. CASE Summon(p, arena.mobs[m].kind)
    <2>1. arena.mobs[m].kind \in DOMAIN MobData
      BY ArenaFields, MobFields
    <2>2. More(arena, arena')
      BY <1>2, <2>1, SummonMobOK DEF Summon
    <2> QED
      BY <2>2, MoreIsTame, TameAllRests DEF More
  <1>3. CASE Unsummon(p, m)
    BY <1>3, RemovedOK DEF Unsummon
  <1> QED
    BY <1>1, <1>2, <1>3

-----------------------------------------------------------------------------
MobsInv == arena \in Arena

LEMMA MobsInvInit ==
    ASSUME NEW ms \in SUBSET DOMAIN FirstMobs, MobsInit(ms)
    PROVE  MobsInv
  <1> DEFINE f == [m \in ms |-> NewMob(FirstMobs[m].kind, FALSE)]
  <1>1. ms \in SUBSET Mob /\ \A m \in ms : FirstMobs[m].kind \in DOMAIN MobData
    BY MobsAssumption
  <1>2. f \in [ms -> SoundMob]
    BY <1>1, NewMobSound
  <1>3. arena = [place |-> [p \in Player |-> "gone"], spared |-> {}, mobs |-> f,
                 bullets |-> [p \in Player |-> {}], failed |-> FALSE]
    BY DEF MobsInit
  <1> HIDE DEF f
  <1>4. f \in UNION {[D -> SoundMob] : D \in SUBSET Mob}
    BY <1>1, <1>2
  <1> QED
    BY <1>3, <1>4 DEF MobsInv, Arena, Places

LEMMA MobsInvStep ==
    ASSUME MobsInv, [MobsNext]_arena
    PROVE  MobsInv' /\ Rests(arena, arena')
  <1> USE DEF MobsInv
  <1>1. CASE UNCHANGED arena
    BY <1>1, AsideOK
  <1>2. ASSUME NEW m \in Mob, MobStep(m) PROVE arena' \in Arena /\ Rests(arena, arena')
    BY <1>2, MobStepOK
  <1>3. ASSUME NEW p \in Player, PcAttackNpcs(p) PROVE arena' \in Arena /\ Rests(arena, arena')
    BY <1>3, PcAttackNpcsOK
  <1>4. ASSUME NEW p \in Player, NEW place \in Places, GoTo(p, place) \/ Fall(p) \/ GetUp(p)
        PROVE  arena' \in Arena /\ Rests(arena, arena')
    BY <1>4, GoToOK
  <1>5. CASE Falls
    BY <1>4, <1>5 DEF Falls, Places
  <1>6. CASE Powers
    BY <1>6, DebuffOK DEF Powers
  <1>7. CASE Shots
    BY <1>7, FireOK, ProjectileHitOK DEF Shots
  <1>8. CASE Spawns
    BY <1>8, SpawnsOK
  <1>9. CASE Fights
    BY <1>2, <1>3, <1>4, <1>9 DEF Fights
  <1> QED
    BY <1>1, <1>5, <1>6, <1>7, <1>8, <1>9 DEF MobsNext

LEMMA MobsInvTyping == MobsInv => MobsTypeOK /\ MobsConsistent
  <1> SUFFICES ASSUME MobsInv PROVE MobsTypeOK /\ MobsConsistent
    OBVIOUS
  <1>1. arena \in Arena
    BY DEF MobsInv
  <1>2. ASSUME NEW m \in DOMAIN arena.mobs
        PROVE  /\ MobSound(arena.mobs[m])
               /\ LET x == arena.mobs[m]
                  IN  /\ x.kind \in DOMAIN MobData /\ x.state \in MobStates /\ x.style \in Styles
                      /\ x.target \in Player \cup {None}
                      /\ x.buffs \subseteq Debuffs \cup {"FREEDOM"} /\ x.timed \subseteq Debuffs
                      /\ x.despawned \in BOOLEAN /\ x.summoned \in BOOLEAN
    BY <1>1, ArenaFields, MobFields
  <1>3. MobsTypeOK
    BY <1>1, <1>2, ArenaFields DEF MobsTypeOK, MobSound
  <1>4. MobsConsistent
    BY <1>2 DEF MobsConsistent, MobSound
  <1> QED
    BY <1>3, <1>4

LEMMA MobsInvariance ==
    ASSUME NEW ms \in SUBSET DOMAIN FirstMobs
    PROVE  MobsInit(ms) /\ [][MobsNext]_arena => []MobsInv
  <1>1. MobsInit(ms) => MobsInv
    BY MobsInvInit
  <1>2. MobsInv /\ [MobsNext]_arena => MobsInv'
    BY MobsInvStep
  <1> QED
    BY <1>1, <1>2, PTL

\* Mobs keep the shape in which the handlers of MobAI.cpp expect them, whatever
\* mobs of FirstMobs an area begins with.
THEOREM MobsTyping ==
    ASSUME NEW ms \in SUBSET DOMAIN FirstMobs
    PROVE  MobsInit(ms) /\ [][MobsNext]_arena => []MobsTypeOK
  <1>1. MobsInv => MobsTypeOK
    BY MobsInvTyping
  <1> QED
    BY <1>1, MobsInvariance, PTL

\* A mob has a target exactly when it is in combat (combatStep, hitMob), roams only
\* whole and with nothing wound up, and every debuff of it ends at some time.
THEOREM MobsStayConsistent ==
    ASSUME NEW ms \in SUBSET DOMAIN FirstMobs
    PROVE  MobsInit(ms) /\ [][MobsNext]_arena => []MobsConsistent
  <1>1. MobsInv => MobsConsistent
    BY MobsInvTyping
  <1> QED
    BY <1>1, MobsInvariance, PTL

\* "cannot kill mobs multiple times; cannot harm retreating mobs" (Combat.cpp): no
\* step takes health from them or makes them fight, and a dead mob outside groups
\* comes back only whole.
THEOREM TheDeadRest ==
    ASSUME NEW ms \in SUBSET DOMAIN FirstMobs
    PROVE  MobsInit(ms) /\ [][MobsNext]_arena => DeadStayDead
  <1>1. MobsInv /\ [MobsNext]_arena =>
           [\A m \in DOMAIN arena.mobs \cap DOMAIN arena'.mobs :
               LET x == arena.mobs[m]
                   y == arena'.mobs[m]
               IN  /\ x.state \in {"DEAD", "RETREAT"} => y.hp >= x.hp /\ y.state # "COMBAT"
                   /\ x.state = "DEAD" /\ LeaderOf(m) = None =>
                          \/ y.state = "DEAD"
                          \/ y.state = "ROAMING" /\ y.hp = Full(y)]_arena
    BY MobsInvStep DEF Rests
  <1> QED
    BY <1>1, MobsInvariance, PTL DEF DeadStayDead

-----------------------------------------------------------------------------
(***************************************************************************)
(* Positions.                                                              *)
(***************************************************************************)
Beside(c, d) == c.inst = d.inst /\ Adjacent(c.at, d.at)
Standing == [at : Spot, inst : Instance]

LEMMA ChunkConstants ==
    /\ IsFiniteSet(Player) /\ Player \cap Npc = {} /\ 0 \notin Player \cup {None} /\ None \notin Player
    /\ Spot \subseteq Int \X Int /\ (\A s \in Spot : ~Adjacent(s, Origin))
    /\ DOMAIN FirstNpcs \subseteq Npc /\ Npc \subseteq Nat /\ IsFiniteSet(Npc)
  BY ChunksAssumption, PlayersAssumption

LEMMA AdjacentFacts ==
    ASSUME NEW a \in Int \X Int, NEW b \in Int \X Int
    PROVE  Adjacent(a, a) /\ (Adjacent(a, b) <=> Adjacent(b, a))
  <1>1. a[1] \in Int /\ a[2] \in Int /\ b[1] \in Int /\ b[2] \in Int
    OBVIOUS
  <1> QED
    BY <1>1 DEF Adjacent, AbsDiff

LEMMA PositionFacts ==
    ASSUME NEW c \in ChunkPos, NEW d \in ChunkPos
    PROVE  Beside(c, c) /\ (Beside(c, d) <=> Beside(d, c))
  <1>1. c.at \in Int \X Int /\ d.at \in Int \X Int
    BY ChunkConstants DEF ChunkPos, Origin
  <1> QED
    BY <1>1, AdjacentFacts DEF Beside

LEMMA SpecialPositions ==
    /\ NullChunk \in ChunkPos /\ NullChunk \notin Standing /\ Nowhere \notin ChunkPos
    /\ Nowhere # NullChunk /\ Standing \subseteq ChunkPos /\ Overworld \in Instance
    /\ NullChunk.inst = Overworld /\ NullChunk.at = Origin /\ Nowhere.inst \notin Instance
    /\ \A c \in ChunkPos : c = NullChunk \/ c \in Standing \/ c.at = Origin
    /\ \A c \in Standing : ~Beside(c, NullChunk)
    /\ \A s \in Spot, i \in Instance : At(s, i) \in Standing /\ At(s, i).at = s /\ At(s, i).inst = i
  <1>1. Origin \in Int \X Int /\ Origin \notin Spot
    <2>1. Origin \in Int \X Int
      BY DEF Origin
    <2> QED
      BY <2>1, ChunkConstants, AdjacentFacts
  <1>2. Overworld \in Instance /\ <<0, 0>> \notin Instance
    BY ChunkConstants DEF Overworld, Instance, Map
  <1>3. NullChunk = [at |-> Origin, inst |-> Overworld] /\ Nowhere = [at |-> Origin, inst |-> <<0, 0>>]
    BY DEF NullChunk, Nowhere, At
  <1>4. NullChunk \in ChunkPos /\ NullChunk \notin Standing /\ Nowhere \notin ChunkPos /\ Nowhere # NullChunk
    BY <1>1, <1>2, <1>3 DEF ChunkPos, Standing
  <1>5. Standing \subseteq ChunkPos /\ \A c \in ChunkPos : c = NullChunk \/ c \in Standing \/ c.at = Origin
    BY DEF ChunkPos, Standing
  <1>6. \A c \in Standing : ~Beside(c, NullChunk)
    BY <1>3, ChunkConstants DEF Beside, Standing
  <1>7. \A s \in Spot, i \in Instance : At(s, i) \in Standing /\ At(s, i).at = s /\ At(s, i).inst = i
    BY DEF At, Standing
  <1> QED
    BY <1>2, <1>3, <1>4, <1>5, <1>6, <1>7

-----------------------------------------------------------------------------
(***************************************************************************)
(* Chunks.                                                                 *)
(***************************************************************************)
Cells == UNION {[D -> SUBSET Being] : D \in SUBSET ChunkPos}
World == [chunks : Cells, at : [Being -> ChunkPos \cup {Nowhere}], view : [Being -> SUBSET ChunkPos],
          inView : [Npc -> Int], shown : [Player -> SUBSET Player], of : [Npc -> Npc \cup {None}]]

\* The chunks hold those in tr where they are, and the caches of those in seers
\* are the chunks around them.
Filed(v, tr) ==
    /\ \A x \in tr : v.at[x] \in DOMAIN v.chunks
    /\ \A c \in DOMAIN v.chunks : v.chunks[c] = {x \in tr : v.at[x] = c}
Seen(v, seers) == \A x \in seers : v.view[x] = {d \in DOMAIN v.chunks : Beside(d, v.at[x])}
\* What the chunks' own operations leave alone.
SameBeings(v, u, tr) ==
    /\ u.at = v.at /\ u.inView = v.inView /\ u.shown = v.shown /\ u.of = v.of
    /\ \A x \in Being \ tr : u.view[x] = v.view[x]

LEMMA WorldFields ==
    ASSUME NEW v \in World
    PROVE  /\ DOMAIN v.chunks \in SUBSET ChunkPos /\ (\A c \in DOMAIN v.chunks : v.chunks[c] \in SUBSET Being)
           /\ v.chunks \in [DOMAIN v.chunks -> SUBSET Being] /\ v.chunks \in Cells
           /\ v.at \in [Being -> ChunkPos \cup {Nowhere}] /\ v.view \in [Being -> SUBSET ChunkPos]
           /\ v.inView \in [Npc -> Int] /\ v.shown \in [Player -> SUBSET Player] /\ v.of \in [Npc -> Npc \cup {None}]
  <1>1. v.chunks \in Cells
    BY DEF World
  <1>2. PICK D \in SUBSET ChunkPos : v.chunks \in [D -> SUBSET Being]
    BY <1>1 DEF Cells
  <1>3. DOMAIN v.chunks = D
    BY <1>2
  <1> QED
    BY <1>1, <1>2, <1>3 DEF World

LEMMA CellsType ==
    ASSUME NEW D \in SUBSET ChunkPos, NEW f \in [D -> SUBSET Being]
    PROVE  f \in Cells
  BY DEF Cells

LEMMA ViewableIsNear ==
    ASSUME NEW v, NEW c
    PROVE  Viewable(v, c) = {d \in DOMAIN v.chunks : Beside(d, c)}
  BY DEF Viewable, Beside

LEMMA InIsThere ==
    ASSUME NEW v, NEW tr, Filed(v, tr), NEW cs \in SUBSET DOMAIN v.chunks
    PROVE  In(v, cs) = {x \in tr : v.at[x] \in cs}
  BY DEF Filed, In

LEMMA WithOK ==
    ASSUME NEW v \in World, NEW c \in ChunkPos, NEW cell \in SUBSET Being
    PROVE  LET u == With(v, c, cell)
           IN  /\ u \in World /\ SameBeings(v, u, {}) /\ u.view = v.view
               /\ DOMAIN u.chunks = DOMAIN v.chunks \cup {c} /\ u.chunks[c] = cell
               /\ \A d \in DOMAIN v.chunks \ {c} : u.chunks[d] = v.chunks[d]
  <1> DEFINE f == [d \in DOMAIN v.chunks \cup {c} |-> IF d = c THEN cell ELSE v.chunks[d]]
             u == [v EXCEPT !.chunks = f]
  <1>1. f \in [DOMAIN v.chunks \cup {c} -> SUBSET Being] /\ DOMAIN v.chunks \cup {c} \in SUBSET ChunkPos
    BY WorldFields
  <1>2. f \in Cells /\ DOMAIN f = DOMAIN v.chunks \cup {c} /\ f[c] = cell
        /\ \A d \in DOMAIN v.chunks \ {c} : f[d] = v.chunks[d]
    BY <1>1, CellsType
  <1> HIDE DEF f
  <1>3. u \in World /\ u.chunks = f /\ u.at = v.at /\ u.view = v.view /\ u.inView = v.inView
        /\ u.shown = v.shown /\ u.of = v.of
    BY <1>2 DEF World
  <1>4. With(v, c, cell) = u
    BY DEF With, f
  <1> QED
    BY <1>2, <1>3, <1>4 DEF SameBeings

\* The caches after a chunk c has come or gone.
LEMMA RecachedOK ==
    ASSUME NEW v \in World, NEW tr \in SUBSET Being, Filed(v, tr), NEW c \in ChunkPos,
           NEW add \in SUBSET ChunkPos, NEW del \in SUBSET ChunkPos
    PROVE  LET u == Recached(v, c, add, del)
           IN  /\ u \in World /\ u.chunks = v.chunks /\ SameBeings(v, u, tr)
               /\ \A x \in tr : u.view[x] = IF Beside(v.at[x], c) THEN (v.view[x] \cup add) \ del ELSE v.view[x]
  <1> DEFINE around == In(v, Viewable(v, c))
             f == [b \in Being |-> IF b \in around THEN (v.view[b] \cup add) \ del ELSE v.view[b]]
             u == [v EXCEPT !.view = f]
  <1>1. around = {x \in tr : Beside(v.at[x], c)}
    <2>1. \A x \in tr : v.at[x] \in DOMAIN v.chunks
      BY DEF Filed
    <2>2. In(v, Viewable(v, c)) = {x \in tr : v.at[x] \in {d \in DOMAIN v.chunks : Beside(d, c)}}
      BY ViewableIsNear, InIsThere
    <2> QED
      BY <2>1, <2>2
  <1>2. f \in [Being -> SUBSET ChunkPos] /\ (\A x \in Being \ tr : f[x] = v.view[x])
        /\ \A x \in tr : f[x] = IF Beside(v.at[x], c) THEN (v.view[x] \cup add) \ del ELSE v.view[x]
    BY <1>1, WorldFields
  <1>3. Recached(v, c, add, del) = u
    BY DEF Recached
  <1> HIDE DEF f
  <1>4. u \in World /\ u.chunks = v.chunks /\ u.at = v.at /\ u.view = f /\ u.inView = v.inView
        /\ u.shown = v.shown /\ u.of = v.of
    BY <1>2 DEF World
  <1> QED
    BY <1>2, <1>3, <1>4 DEF SameBeings

LEMMA NewChunkOK ==
    ASSUME NEW v \in World, NEW tr \in SUBSET Being, Filed(v, tr), Seen(v, tr), NEW c \in ChunkPos
    PROVE  LET u == NewChunk(v, c)
           IN  /\ u \in World /\ Filed(u, tr) /\ Seen(u, tr) /\ SameBeings(v, u, tr)
               /\ DOMAIN u.chunks = DOMAIN v.chunks \cup {c}
  <1>1. CASE c \in DOMAIN v.chunks
    <2>1. NewChunk(v, c) = v /\ DOMAIN v.chunks \cup {c} = DOMAIN v.chunks
      BY <1>1 DEF NewChunk, Exists
    <2> QED
      BY <2>1 DEF SameBeings
  <1>2. CASE c \notin DOMAIN v.chunks
    <2> DEFINE t == With(v, c, {})
               u == Recached(t, c, {c}, {})
    <2>1. NewChunk(v, c) = u
      BY <1>2 DEF NewChunk, Exists
    <2>2. t \in World /\ SameBeings(v, t, {}) /\ t.view = v.view /\ DOMAIN t.chunks = DOMAIN v.chunks \cup {c}
          /\ t.chunks[c] = {} /\ \A d \in DOMAIN v.chunks : t.chunks[d] = v.chunks[d]
      BY <1>2, WithOK
    <2>3. Filed(t, tr)
      BY <1>2, <2>2 DEF Filed, SameBeings
    <2> HIDE DEF t
    <2>4. u \in World /\ u.chunks = t.chunks /\ SameBeings(t, u, tr)
          /\ \A x \in tr : u.view[x] = IF Beside(t.at[x], c) THEN (t.view[x] \cup {c}) \ {} ELSE t.view[x]
      <3>1. {c} \in SUBSET ChunkPos /\ {} \in SUBSET ChunkPos
        OBVIOUS
      <3>2. \A add, del \in SUBSET ChunkPos :
              LET y == Recached(t, c, add, del)
              IN  /\ y \in World /\ y.chunks = t.chunks /\ SameBeings(t, y, tr)
                  /\ \A x \in tr : y.view[x] = IF Beside(t.at[x], c) THEN (t.view[x] \cup add) \ del ELSE t.view[x]
        BY <2>2, <2>3, RecachedOK
      <3> QED
        BY <3>1, <3>2
    <2> HIDE DEF u
    <2>5. Filed(u, tr) /\ SameBeings(v, u, tr) /\ DOMAIN u.chunks = DOMAIN v.chunks \cup {c}
      BY <2>2, <2>3, <2>4 DEF Filed, SameBeings
    <2>6. ASSUME NEW x \in tr PROVE u.view[x] = {d \in DOMAIN u.chunks : Beside(d, u.at[x])}
      <3>1. v.at[x] \in ChunkPos
        BY WorldFields DEF Filed
      <3>2. Beside(v.at[x], c) <=> Beside(c, v.at[x])
        BY <3>1, PositionFacts
      <3>3. u.view[x] = IF Beside(v.at[x], c) THEN v.view[x] \cup {c} ELSE v.view[x]
        BY <2>2, <2>4 DEF SameBeings
      <3>4. v.view[x] = {d \in DOMAIN v.chunks : Beside(d, v.at[x])} /\ u.at = v.at
        BY <2>5 DEF Seen, SameBeings
      <3> QED
        BY <2>5, <3>2, <3>3, <3>4
    <2> QED
      BY <2>1, <2>4, <2>5, <2>6 DEF Seen
  <1> QED
    BY <1>1, <1>2

\* A chunk that nobody is in goes, and with it its place in the caches.
LEMMA DeleteChunkOK ==
    ASSUME NEW v \in World, NEW tr \in SUBSET Being, Filed(v, tr), Seen(v, tr),
           NEW c \in DOMAIN v.chunks, \A x \in tr : v.at[x] # c
    PROVE  LET u == DeleteChunk(v, c)
           IN  /\ u \in World /\ Filed(u, tr) /\ Seen(u, tr) /\ SameBeings(v, u, tr)
               /\ DOMAIN u.chunks = DOMAIN v.chunks \ {c}
  <1> DEFINE t == Recached(v, c, {}, {c})
             f == [d \in DOMAIN t.chunks \ {c} |-> t.chunks[d]]
             u == [t EXCEPT !.chunks = f]
  <1>1. DeleteChunk(v, c) = u
    BY DEF DeleteChunk
  <1>2. c \in ChunkPos
    BY WorldFields
  <1>3. /\ t \in World /\ t.chunks = v.chunks /\ SameBeings(v, t, tr)
        /\ \A x \in tr : t.view[x] = IF Beside(v.at[x], c) THEN (v.view[x] \cup {}) \ {c} ELSE v.view[x]
    <2>1. {c} \in SUBSET ChunkPos /\ {} \in SUBSET ChunkPos
      BY <1>2
    <2>2. \A add, del \in SUBSET ChunkPos :
            LET y == Recached(v, c, add, del)
            IN  /\ y \in World /\ y.chunks = v.chunks /\ SameBeings(v, y, tr)
                /\ \A x \in tr : y.view[x] = IF Beside(v.at[x], c) THEN (v.view[x] \cup add) \ del ELSE v.view[x]
      BY <1>2, RecachedOK
    <2> QED
      BY <2>1, <2>2
  <1> HIDE DEF t
  <1>4. DOMAIN v.chunks \ {c} \in SUBSET ChunkPos /\ f \in [DOMAIN v.chunks \ {c} -> SUBSET Being]
    BY <1>3, WorldFields
  <1>5. f \in Cells /\ DOMAIN f = DOMAIN v.chunks \ {c} /\ \A d \in DOMAIN v.chunks \ {c} : f[d] = v.chunks[d]
    BY <1>3, <1>4, CellsType
  <1> HIDE DEF f
  <1>6. u \in World /\ u.chunks = f /\ u.at = t.at /\ u.view = t.view /\ u.inView = t.inView
        /\ u.shown = t.shown /\ u.of = t.of
    BY <1>3, <1>5 DEF World
  <1> HIDE DEF u
  <1>7. SameBeings(v, u, tr) /\ Filed(u, tr) /\ DOMAIN u.chunks = DOMAIN v.chunks \ {c}
    BY <1>3, <1>5, <1>6 DEF SameBeings, Filed
  <1>8. ASSUME NEW x \in tr PROVE u.view[x] = {d \in DOMAIN u.chunks : Beside(d, u.at[x])}
    <2>1. v.at[x] \in ChunkPos
      BY WorldFields DEF Filed
    <2>2. Beside(v.at[x], c) <=> Beside(c, v.at[x])
      BY <1>2, <2>1, PositionFacts
    <2>3. u.view[x] = IF Beside(v.at[x], c) THEN v.view[x] \ {c} ELSE v.view[x]
      BY <1>3, <1>6
    <2>4. v.view[x] = {d \in DOMAIN v.chunks : Beside(d, v.at[x])} /\ u.at = v.at
      BY <1>7 DEF Seen, SameBeings
    <2> QED
      BY <1>7, <2>2, <2>3, <2>4
  <1> QED
    BY <1>1, <1>6, <1>7, <1>8 DEF Seen

LEMMA UntrackedOK ==
    ASSUME NEW v \in World, NEW tr \in SUBSET Being, Filed(v, tr), Seen(v, tr), NEW b \in tr
    PROVE  LET u == Untracked(v, v.at[b], b)
           IN  /\ u \in World /\ Filed(u, tr \ {b}) /\ Seen(u, tr \ {b}) /\ SameBeings(v, u, tr \ {b})
               /\ DOMAIN u.chunks = IF \E x \in tr \ {b} : v.at[x] = v.at[b] THEN DOMAIN v.chunks
                                    ELSE DOMAIN v.chunks \ {v.at[b]}
  <1> DEFINE c == v.at[b]
             t == With(v, c, v.chunks[c] \ {b})
  <1>1. c \in DOMAIN v.chunks /\ c \in ChunkPos /\ v.chunks[c] = {x \in tr : v.at[x] = c}
    BY WorldFields DEF Filed
  <1>2. v.chunks[c] \ {b} \in SUBSET Being
    BY <1>1
  <1>3. /\ t \in World /\ SameBeings(v, t, {}) /\ t.view = v.view /\ DOMAIN t.chunks = DOMAIN v.chunks
        /\ t.chunks[c] = v.chunks[c] \ {b}
        /\ \A d \in DOMAIN v.chunks \ {c} : t.chunks[d] = v.chunks[d]
    <2> DEFINE cell == v.chunks[c] \ {b}
    <2>1. cell \in SUBSET Being /\ t = With(v, c, cell)
      BY <1>2
    <2> HIDE DEF cell, t
    <2>2. /\ t \in World /\ SameBeings(v, t, {}) /\ t.view = v.view /\ DOMAIN t.chunks = DOMAIN v.chunks \cup {c}
          /\ t.chunks[c] = cell /\ \A d \in DOMAIN v.chunks \ {c} : t.chunks[d] = v.chunks[d]
      BY <1>1, <2>1, WithOK
    <2>3. DOMAIN t.chunks = DOMAIN v.chunks
      BY <1>1, <2>2
    <2> QED
      BY <2>2, <2>3 DEF cell
  <1>4. Untracked(v, c, b) = IF t.chunks[c] = {} THEN DeleteChunk(t, c) ELSE t
    BY <1>1 DEF Untracked, Exists
  <1> HIDE DEF t
  <1>5. Filed(t, tr \ {b})
    BY <1>1, <1>3 DEF Filed, SameBeings
  <1>6. Seen(t, tr \ {b}) /\ SameBeings(v, t, tr \ {b})
    BY <1>3 DEF Seen, SameBeings
  <1>7. t.chunks[c] = {} <=> \A x \in tr \ {b} : v.at[x] # c
    BY <1>1, <1>3
  <1>8. CASE t.chunks[c] = {}
    <2>1. \A x \in tr \ {b} : t.at[x] # c
      BY <1>3, <1>7, <1>8 DEF SameBeings
    <2> DEFINE u == DeleteChunk(t, c)
    <2>2. /\ u \in World /\ Filed(u, tr \ {b}) /\ Seen(u, tr \ {b}) /\ SameBeings(t, u, tr \ {b})
          /\ DOMAIN u.chunks = DOMAIN t.chunks \ {c}
      <3> DEFINE others == tr \ {b}
      <3>1. others \in SUBSET Being /\ c \in DOMAIN t.chunks
        BY <1>1, <1>3
      <3> HIDE DEF others
      <3>2. Filed(t, others) /\ Seen(t, others) /\ \A x \in others : t.at[x] # c
        BY <1>5, <1>6, <2>1 DEF others
      <3>3. /\ u \in World /\ Filed(u, others) /\ Seen(u, others) /\ SameBeings(t, u, others)
            /\ DOMAIN u.chunks = DOMAIN t.chunks \ {c}
        BY <1>3, <3>1, <3>2, DeleteChunkOK
      <3> QED
        BY <3>3 DEF others
    <2>3. Untracked(v, c, b) = u
      BY <1>4, <1>8
    <2> HIDE DEF u
    <2>4. SameBeings(v, u, tr \ {b})
      BY <1>6, <2>2 DEF SameBeings
    <2>5. DOMAIN u.chunks = IF \E x \in tr \ {b} : v.at[x] = c THEN DOMAIN v.chunks ELSE DOMAIN v.chunks \ {c}
      BY <1>3, <1>7, <1>8, <2>2
    <2> QED
      BY <2>2, <2>3, <2>4, <2>5
  <1>9. CASE t.chunks[c] # {}
    BY <1>3, <1>4, <1>5, <1>6, <1>7, <1>9
  <1> QED
    BY <1>8, <1>9

LEMMA TrackedOK ==
    ASSUME NEW v \in World, NEW tr \in SUBSET Being, Filed(v, tr), NEW b \in Being, NEW c \in DOMAIN v.chunks
    PROVE  LET u == Tracked(v, c, b)
           IN  /\ u \in World /\ SameBeings(v, u, {}) /\ u.view = v.view /\ DOMAIN u.chunks = DOMAIN v.chunks
               /\ \A d \in DOMAIN v.chunks : u.chunks[d] = {x \in tr : v.at[x] = d} \cup (IF d = c THEN {b} ELSE {})
  <1> DEFINE u == With(v, c, v.chunks[c] \cup {b})
  <1>1. c \in ChunkPos /\ v.chunks[c] \cup {b} \in SUBSET Being
    BY WorldFields
  <1>2. Tracked(v, c, b) = u
    BY DEF Tracked, Exists
  <1>3. /\ u \in World /\ SameBeings(v, u, {}) /\ u.view = v.view /\ DOMAIN u.chunks = DOMAIN v.chunks \cup {c}
        /\ u.chunks[c] = v.chunks[c] \cup {b}
        /\ \A d \in DOMAIN v.chunks \ {c} : u.chunks[d] = v.chunks[d]
    BY <1>1, WithOK
  <1> HIDE DEF u
  <1>4. \A d \in DOMAIN v.chunks : v.chunks[d] = {x \in tr : v.at[x] = d}
    BY DEF Filed
  <1> QED
    BY <1>2, <1>3, <1>4

-----------------------------------------------------------------------------
(***************************************************************************)
(* Moving.                                                                 *)
(***************************************************************************)
PlayersNear(v, tr, c) == {p \in tr \cap Player : Beside(v.at[p], c)}

\* All that is kept of where everyone is follows from where those in tr are.
Counted(v, tr) ==
    \A n \in Npc : v.inView[n] = IF n \in tr THEN Cardinality(PlayersNear(v, tr, v.at[n])) ELSE 0
Shown(v, tr) ==
    \A p \in Player : v.shown[p] = IF p \in tr THEN PlayersNear(v, tr, v.at[p]) \ {p} ELSE {}
Good(v, tr) ==
    /\ Filed(v, tr) /\ Seen(v, tr) /\ DOMAIN v.chunks = {v.at[x] : x \in tr}
    /\ Counted(v, tr) /\ Shown(v, tr) /\ \A x \in Being \ tr : v.view[x] = {}

\* b is where it moves from, or nowhere that anyone is or looks at.
Starts(v, tr, b, from) ==
    IF b \in tr THEN v.at[b] = from ELSE \A x \in tr : v.at[x] # from /\ ~Beside(v.at[x], from)

TakenSpots(v, tr) == {v.at[x] : x \in tr}
Cell(v, tr, d) == {x \in tr : v.at[x] = d}
Around(v, c) == {d \in DOMAIN v.chunks : Beside(d, c)}
\* Those who see b no longer when it goes from a place to another.
Loses(v, tr, from, to) == {x \in tr : Beside(v.at[x], from) /\ ~Beside(v.at[x], to)}

\* The chunks of u are those of v after b went to another.
Rehoused(v, u, rest, b, to) ==
    /\ DOMAIN u.chunks = TakenSpots(v, rest) \cup {to}
    /\ \A d \in DOMAIN u.chunks : u.chunks[d] = Cell(v, rest, d) \cup (IF d = to THEN {b} ELSE {})

LEMMA MovedChunksOK ==
    ASSUME NEW v \in World, NEW tr \in SUBSET Being, Good(v, tr), NEW b \in Being,
           NEW from \in ChunkPos, NEW to \in ChunkPos, to # from, Starts(v, tr, b, from)
    PROVE  LET u == Tracked(Untracked(NewChunk(v, to), from, b), to, b)
           IN  u \in World /\ SameBeings(v, u, tr) /\ Rehoused(v, u, tr \ {b}, b, to) /\ Seen(u, tr \ {b})
  <1> DEFINE t == NewChunk(v, to)
             s == Untracked(t, from, b)
             u == Tracked(s, to, b)
             rest == tr \ {b}
  <1>1. /\ t \in World /\ Filed(t, tr) /\ Seen(t, tr) /\ SameBeings(v, t, tr)
        /\ DOMAIN t.chunks = DOMAIN v.chunks \cup {to}
    BY NewChunkOK DEF Good
  <1>2. t.at = v.at /\ DOMAIN v.chunks = {v.at[x] : x \in tr}
    BY <1>1 DEF SameBeings, Good
  <1>3. rest \in SUBSET Being
    OBVIOUS
  <1> HIDE DEF t
  <1>4. /\ s \in World /\ Filed(s, rest) /\ Seen(s, rest) /\ SameBeings(t, s, rest)
        /\ DOMAIN s.chunks = {v.at[x] : x \in rest} \cup {to}
    <2>1. CASE b \in tr
      <3>1. t.at[b] = from
        BY <1>2, <2>1 DEF Starts
      <3>2. /\ s \in World /\ Filed(s, rest) /\ Seen(s, rest) /\ SameBeings(t, s, rest)
            /\ DOMAIN s.chunks = IF \E x \in rest : t.at[x] = from THEN DOMAIN t.chunks
                                 ELSE DOMAIN t.chunks \ {from}
        BY <1>1, <2>1, <3>1, UntrackedOK
      <3> HIDE DEF s
      <3>3. DOMAIN t.chunks = {v.at[x] : x \in rest} \cup {from, to}
        BY <1>1, <1>2, <2>1, <3>1
      <3> QED
        BY <1>2, <3>2, <3>3
    <2>2. CASE b \notin tr
      <3>1. rest = tr /\ from \notin DOMAIN t.chunks
        BY <1>1, <1>2, <2>2 DEF Starts
      <3>2. s = t
        BY <3>1 DEF Untracked, Exists
      <3> QED
        BY <1>1, <1>2, <3>1, <3>2 DEF SameBeings
    <2> QED
      BY <2>1, <2>2
  <1>5. to \in DOMAIN s.chunks /\ s.at = v.at
    BY <1>2, <1>4 DEF SameBeings
  <1> HIDE DEF s, rest
  <1>6. /\ u \in World /\ SameBeings(s, u, {}) /\ u.view = s.view /\ DOMAIN u.chunks = DOMAIN s.chunks
        /\ \A d \in DOMAIN s.chunks : u.chunks[d] = {x \in rest : s.at[x] = d} \cup (IF d = to THEN {b} ELSE {})
    BY <1>3, <1>4, <1>5, TrackedOK
  <1>7. u = Tracked(Untracked(NewChunk(v, to), from, b), to, b)
    BY DEF s, t
  <1> HIDE DEF u
  <1>8. SameBeings(v, u, tr) /\ Seen(u, rest)
    <2>1. rest \subseteq tr
      BY DEF rest
    <2>2. \A x \in Being \ tr : x \in Being \ rest /\ u.view[x] = v.view[x]
      BY <1>1, <1>4, <1>6, <2>1 DEF SameBeings
    <2> QED
      BY <1>1, <1>4, <1>6, <2>1, <2>2 DEF SameBeings, Seen
  <1>9. Rehoused(v, u, rest, b, to)
    BY <1>4, <1>5, <1>6 DEF TakenSpots, Cell, Rehoused
  <1> QED
    BY <1>6, <1>7, <1>8, <1>9 DEF rest

ExitsAs(v, u, met, p) ==
    /\ u \in World /\ u.chunks = v.chunks /\ u.at = v.at /\ u.view = v.view /\ u.of = v.of
    /\ \A n \in Npc : u.inView[n] = IF n \in met THEN v.inView[n] - 1 ELSE v.inView[n]
    /\ \A q \in Player : u.shown[q] = IF q = p THEN v.shown[q] \ met
                                      ELSE IF q \in met THEN v.shown[q] \ {p} ELSE v.shown[q]

LEMMA PlayerExitsOK ==
    ASSUME NEW v \in World, NEW cs, NEW p \in Player
    PROVE  ExitsAs(v, PlayerExits(v, cs, p), In(v, cs), p)
  <1> DEFINE met == In(v, cs)
             f == [n \in Npc |-> IF n \in met THEN v.inView[n] - 1 ELSE v.inView[n]]
             g == [q \in Player |-> IF q = p THEN v.shown[q] \ met
                                    ELSE IF q \in met THEN v.shown[q] \ {p} ELSE v.shown[q]]
             u == [v EXCEPT !.inView = f, !.shown = g]
  <1>1. PlayerExits(v, cs, p) = u
    BY DEF PlayerExits
  <1>2. f \in [Npc -> Int] /\ g \in [Player -> SUBSET Player]
    <2> HIDE DEF met
    <2> QED
      BY WorldFields
  <1>3. /\ \A n \in Npc : f[n] = IF n \in met THEN v.inView[n] - 1 ELSE v.inView[n]
        /\ \A q \in Player : g[q] = IF q = p THEN v.shown[q] \ met
                                    ELSE IF q \in met THEN v.shown[q] \ {p} ELSE v.shown[q]
    <2> HIDE DEF met
    <2> QED
      OBVIOUS
  <1> HIDE DEF f, g
  <1>4. u \in World /\ u.chunks = v.chunks /\ u.at = v.at /\ u.view = v.view /\ u.of = v.of
        /\ u.inView = f /\ u.shown = g
    BY <1>2 DEF World
  <1>5. ExitsAs(v, u, met, p)
    <2> HIDE DEF u, met
    <2> QED
      BY <1>3, <1>4 DEF ExitsAs
  <1> QED
    BY <1>1, <1>5

EntersAs(v, u, met, p) ==
    /\ u \in World /\ u.chunks = v.chunks /\ u.at = v.at /\ u.view = v.view /\ u.of = v.of
    /\ \A n \in Npc : u.inView[n] = IF n \in met THEN v.inView[n] + 1 ELSE v.inView[n]
    /\ \A q \in Player : u.shown[q] = IF q = p THEN v.shown[q] \cup ((met \cap Player) \ {p})
                                      ELSE IF q \in met THEN v.shown[q] \cup {p} ELSE v.shown[q]

LEMMA PlayerEntersOK ==
    ASSUME NEW v \in World, NEW cs, NEW p \in Player
    PROVE  EntersAs(v, PlayerEnters(v, cs, p), In(v, cs), p)
  <1> DEFINE met == In(v, cs)
             f == [n \in Npc |-> IF n \in met THEN v.inView[n] + 1 ELSE v.inView[n]]
             g == [q \in Player |-> IF q = p THEN v.shown[q] \cup ((met \cap Player) \ {p})
                                    ELSE IF q \in met THEN v.shown[q] \cup {p} ELSE v.shown[q]]
             u == [v EXCEPT !.inView = f, !.shown = g]
  <1>1. PlayerEnters(v, cs, p) = u
    BY DEF PlayerEnters
  <1>2. f \in [Npc -> Int] /\ g \in [Player -> SUBSET Player]
    <2> HIDE DEF met
    <2> QED
      BY WorldFields
  <1>3. /\ \A n \in Npc : f[n] = IF n \in met THEN v.inView[n] + 1 ELSE v.inView[n]
        /\ \A q \in Player : g[q] = IF q = p THEN v.shown[q] \cup ((met \cap Player) \ {p})
                                    ELSE IF q \in met THEN v.shown[q] \cup {p} ELSE v.shown[q]
    <2> HIDE DEF met
    <2> QED
      OBVIOUS
  <1> HIDE DEF f, g
  <1>4. u \in World /\ u.chunks = v.chunks /\ u.at = v.at /\ u.view = v.view /\ u.of = v.of
        /\ u.inView = f /\ u.shown = g
    BY <1>2 DEF World
  <1>5. EntersAs(v, u, met, p)
    <2> HIDE DEF u, met
    <2> QED
      BY <1>3, <1>4 DEF EntersAs
  <1> QED
    BY <1>1, <1>5

CountsAs(v, u, n, from, to) ==
    /\ u \in World /\ u.chunks = v.chunks /\ u.at = v.at /\ u.view = v.view /\ u.of = v.of /\ u.shown = v.shown
    /\ u.inView[n] = v.inView[n] + Cardinality(In(v, to) \cap Player) - Cardinality(In(v, from) \cap Player)
    /\ \A m \in Npc \ {n} : u.inView[m] = v.inView[m]

LEMMA SomePlayersFinite ==
    ASSUME NEW S
    PROVE  IsFiniteSet(S \cap Player) /\ Cardinality(S \cap Player) \in Nat
  <1>1. S \cap Player \in SUBSET Player
    OBVIOUS
  <1> QED
    BY <1>1, ChunkConstants, FS_Subset, FS_CardinalityType

LEMMA NpcCountsOK ==
    ASSUME NEW v \in World, NEW n \in Npc, NEW from, NEW to
    PROVE  CountsAs(v, NpcCounts(v, n, from, to), n, from, to)
  <1> DEFINE k == v.inView[n] + Cardinality(In(v, to) \cap Player) - Cardinality(In(v, from) \cap Player)
             u == [v EXCEPT !.inView[n] = k]
  <1>1. NpcCounts(v, n, from, to) = u
    BY DEF NpcCounts
  <1>2. v.inView \in [Npc -> Int] /\ k \in Int
    <2>1. v.inView \in [Npc -> Int] /\ v.inView[n] \in Int
      BY WorldFields
    <2>2. Cardinality(In(v, to) \cap Player) \in Nat /\ Cardinality(In(v, from) \cap Player) \in Nat
      BY SomePlayersFinite
    <2> QED
      BY <2>1, <2>2
  <1>3. k = v.inView[n] + Cardinality(In(v, to) \cap Player) - Cardinality(In(v, from) \cap Player)
    OBVIOUS
  <1> HIDE DEF k
  <1>4. /\ u \in World /\ u.chunks = v.chunks /\ u.at = v.at /\ u.view = v.view /\ u.of = v.of
        /\ u.shown = v.shown /\ u.inView = [v.inView EXCEPT ![n] = k]
    BY <1>2 DEF World
  <1> HIDE DEF u
  <1>5. u.inView[n] = k /\ \A m \in Npc \ {n} : u.inView[m] = v.inView[m]
    BY <1>2, <1>4
  <1> QED
    BY <1>1, <1>3, <1>4, <1>5 DEF CountsAs

LEMMA PlayersNearFinite ==
    ASSUME NEW v, NEW tr, NEW c
    PROVE  IsFiniteSet(PlayersNear(v, tr, c)) /\ Cardinality(PlayersNear(v, tr, c)) \in Nat
  <1>1. PlayersNear(v, tr, c) \in SUBSET Player
    BY DEF PlayersNear
  <1> QED
    BY <1>1, ChunkConstants, FS_Subset, FS_CardinalityType

\* One player more or less.
LEMMA OneMoreOrLess ==
    ASSUME NEW S, IsFiniteSet(S), NEW x
    PROVE  /\ Cardinality(S \cup {x}) = IF x \in S THEN Cardinality(S) ELSE Cardinality(S) + 1
           /\ Cardinality(S \ {x}) = IF x \in S THEN Cardinality(S) - 1 ELSE Cardinality(S)
  BY FS_AddElement, FS_RemoveElement

\* From one set to another, counting those who come and those who go.
LEMMA ComingAndGoing ==
    ASSUME NEW S, IsFiniteSet(S), NEW T, IsFiniteSet(T)
    PROVE  Cardinality(T) = Cardinality(S) + Cardinality(T \ S) - Cardinality(S \ T)
  <1>1. /\ Cardinality(S \ T) = Cardinality(S) - Cardinality(S \cap T)
        /\ Cardinality(T \ S) = Cardinality(T) - Cardinality(T \cap S)
    BY FS_Difference
  <1>2. S \cap T = T \cap S
    OBVIOUS
  <1>3. IsFiniteSet(S \cap T)
    BY FS_Intersection
  <1>4. Cardinality(S) \in Nat /\ Cardinality(T) \in Nat /\ Cardinality(S \cap T) \in Nat
    BY <1>3, FS_CardinalityType
  <1>5. Cardinality(T \ S) = Cardinality(T) - Cardinality(S \cap T)
    BY <1>1, <1>2
  <1> DEFINE a == Cardinality(S)
             b == Cardinality(T)
             c == Cardinality(S \cap T)
  <1> HIDE DEF a, b, c
  <1>6. a \in Nat /\ b \in Nat /\ c \in Nat /\ Cardinality(S \ T) = a - c /\ Cardinality(T \ S) = b - c
    BY <1>1, <1>4, <1>5 DEF a, b, c
  <1>7. b = a + (b - c) - (a - c)
    BY <1>6
  <1> QED
    BY <1>6, <1>7 DEF a, b

\* Who is left behind, who is met, and what is seen on arrival.
Meets(v, u, rest, b, from, to) ==
    /\ In(u, Viewable(u, from) \ Viewable(u, to)) = Loses(v, rest, from, to)
    /\ In(u, Viewable(u, to) \ Viewable(u, from)) = Loses(v, rest, to, from) \cup (IF Beside(to, from) THEN {} ELSE {b})
    /\ Viewable(u, to) = Around(u, to)

LEMMA MovedMeets ==
    ASSUME NEW v \in World, NEW tr \in SUBSET Being, NEW b \in Being,
           NEW from \in ChunkPos, NEW to \in ChunkPos, NEW u,
           Rehoused(v, u, tr \ {b}, b, to)
    PROVE  Meets(v, u, tr \ {b}, b, from, to)
  <1> DEFINE old == Viewable(u, from)
             new == Viewable(u, to)
             rest == tr \ {b}
  <1>0. to \in DOMAIN u.chunks
    BY DEF Rehoused
  <1>1. old = {d \in DOMAIN u.chunks : Beside(d, from)} /\ new = {d \in DOMAIN u.chunks : Beside(d, to)}
    BY ViewableIsNear
  <1>2. Beside(to, to)
    BY PositionFacts
  <1>3. \A cs \in SUBSET DOMAIN u.chunks :
          In(u, cs) = {x \in rest : v.at[x] \in cs} \cup (IF to \in cs THEN {b} ELSE {})
    <2>1. ASSUME NEW cs \in SUBSET DOMAIN u.chunks
          PROVE  In(u, cs) = {x \in rest : v.at[x] \in cs} \cup (IF to \in cs THEN {b} ELSE {})
      <3>1. In(u, cs) = UNION {u.chunks[c] : c \in cs}
        BY DEF In
      <3>2. \A d \in cs : u.chunks[d] = {x \in rest : v.at[x] = d} \cup (IF d = to THEN {b} ELSE {})
        BY DEF Cell, Rehoused
      <3> QED
        BY <3>1, <3>2
    <2> QED
      BY <2>1
  <1>4. \A x \in rest : v.at[x] \in DOMAIN u.chunks
    BY DEF TakenSpots, Rehoused
  <1> HIDE DEF old, new, rest
  <1>5. old \ new \in SUBSET DOMAIN u.chunks /\ new \ old \in SUBSET DOMAIN u.chunks
    BY <1>1
  <1>6. In(u, old \ new) = {x \in rest : v.at[x] \in old \ new} /\ to \notin old \ new
    BY <1>0, <1>1, <1>2, <1>3, <1>5
  <1>7. In(u, new \ old) = {x \in rest : v.at[x] \in new \ old} \cup (IF to \in new \ old THEN {b} ELSE {})
    BY <1>3, <1>5
  <1>8. to \in new \ old <=> ~Beside(to, from)
    BY <1>0, <1>1, <1>2
  <1>9. {x \in rest : v.at[x] \in old \ new} = Loses(v, rest, from, to)
    BY <1>1, <1>4 DEF Loses
  <1>10. {x \in rest : v.at[x] \in new \ old} = Loses(v, rest, to, from)
    BY <1>1, <1>4 DEF Loses
  <1>11. new = Around(u, to)
    BY <1>1 DEF Around
  <1> QED
    BY <1>6, <1>7, <1>8, <1>9, <1>10, <1>11 DEF old, new, rest, Meets

\* The last assignments of a move.
Arrives(v, b, to, new) == [v EXCEPT !.at[b] = to, !.view[b] = new]
ArrivesAs(v, u, b, to, new) ==
    /\ u \in World /\ u.chunks = v.chunks /\ u.inView = v.inView /\ u.shown = v.shown /\ u.of = v.of
    /\ u.at[b] = to /\ u.view[b] = new
    /\ \A x \in Being \ {b} : u.at[x] = v.at[x] /\ u.view[x] = v.view[x]
LEMMA ArrivedOK ==
    ASSUME NEW v \in World, NEW b \in Being, NEW to \in ChunkPos, NEW new \in SUBSET ChunkPos
    PROVE  ArrivesAs(v, Arrives(v, b, to, new), b, to, new)
  <1> DEFINE u == Arrives(v, b, to, new)
             f == [v.at EXCEPT ![b] = to]
             g == [v.view EXCEPT ![b] = new]
  <1>1. f \in [Being -> ChunkPos \cup {Nowhere}] /\ f[b] = to /\ \A x \in Being \ {b} : f[x] = v.at[x]
    BY WorldFields
  <1>2. g \in [Being -> SUBSET ChunkPos] /\ g[b] = new /\ \A x \in Being \ {b} : g[x] = v.view[x]
    BY WorldFields
  <1>3. u = [v EXCEPT !.at = f, !.view = g]
    BY DEF World, Arrives
  <1> HIDE DEF f, g, u
  <1>4. /\ u \in World /\ u.chunks = v.chunks /\ u.inView = v.inView /\ u.shown = v.shown /\ u.of = v.of
        /\ u.at = f /\ u.view = g
    BY <1>1, <1>2, <1>3 DEF World
  <1> QED
    BY <1>1, <1>2, <1>4 DEF ArrivesAs, u

\* What a move comes to: for all, for a player, for an NPC.
MovesTo(v, u, tr, b, to) ==
    /\ u \in World /\ u.of = v.of /\ u.at[b] = to /\ (\A x \in Being \ {b} : u.at[x] = v.at[x])
    /\ Rehoused(v, u, tr \ {b}, b, to)
    /\ u.view[b] = Around(u, to) /\ \A x \in tr \ {b} : u.view[x] = Around(u, v.at[x])
    /\ \A x \in Being \ (tr \cup {b}) : u.view[x] = v.view[x]
PlayerTold(v, u, b, gone, come) ==
    /\ \A n \in Npc : u.inView[n] = IF n \in gone THEN v.inView[n] - 1
                                    ELSE IF n \in come THEN v.inView[n] + 1 ELSE v.inView[n]
    /\ u.shown[b] = (v.shown[b] \ gone) \cup (come \cap Player)
    /\ \A q \in Player \ {b} : u.shown[q] = IF q \in gone THEN v.shown[q] \ {b}
                                            ELSE IF q \in come THEN v.shown[q] \cup {b} ELSE v.shown[q]
NpcTold(v, u, b, gone, come) ==
    /\ u.inView[b] = v.inView[b] + Cardinality(come \cap Player) - Cardinality(gone \cap Player)
    /\ \A n \in Npc \ {b} : u.inView[n] = v.inView[n]
    /\ u.shown = v.shown

LEMMA MovedPlayer ==
    ASSUME NEW v \in World, NEW tr \in SUBSET Being, Good(v, tr), NEW b \in Player,
           NEW from \in ChunkPos, NEW to \in ChunkPos, to # from, Starts(v, tr, b, from)
    PROVE  LET u == Moved(v, b, from, to)
           IN  /\ MovesTo(v, u, tr, b, to)
               /\ PlayerTold(v, u, b, Loses(v, tr \ {b}, from, to), Loses(v, tr \ {b}, to, from))
  <1> DEFINE t == Tracked(Untracked(NewChunk(v, to), from, b), to, b)
             old == Viewable(t, from)
             new == Viewable(t, to)
             rest == tr \ {b}
             gone == Loses(v, rest, from, to)
             come == Loses(v, rest, to, from)
             e == PlayerExits(t, old \ new, b)
             f == PlayerEnters(e, new \ old, b)
             met == In(e, new \ old)
             u == Arrives(f, b, to, new)
  <1>1. b \in Being /\ b \notin Npc
    BY ChunkConstants DEF Being
  <1>2. Moved(v, b, from, to) = u
    BY <1>1 DEF Moved, Arrives
  <1>0. /\ t = Tracked(Untracked(NewChunk(v, to), from, b), to, b) /\ e = PlayerExits(t, old \ new, b)
        /\ f = PlayerEnters(e, new \ old, b) /\ u = Arrives(f, b, to, new)
        /\ old = Viewable(t, from) /\ new = Viewable(t, to) /\ met = In(e, new \ old)
    OBVIOUS
  <1> HIDE DEF t, old, new, e, f, u, met
  <1>3. t \in World /\ SameBeings(v, t, tr) /\ Rehoused(v, t, rest, b, to) /\ Seen(t, rest)
    BY <1>0, <1>1, MovedChunksOK
  <1>4. /\ In(t, old \ new) = gone
        /\ In(t, new \ old) = come \cup (IF Beside(to, from) THEN {} ELSE {b})
        /\ new = Around(t, to)
    <2>1. Meets(v, t, rest, b, from, to)
      BY <1>0, <1>1, <1>3, MovedMeets
    <2> QED
      BY <1>0, <2>1 DEF Meets
  <1>5. b \notin gone /\ b \notin come /\ (\A x : ~(x \in gone /\ x \in come))
    BY DEF Loses
  <1> HIDE DEF gone, come
  <1>6. /\ e \in World /\ e.chunks = t.chunks /\ e.at = t.at /\ e.view = t.view /\ e.of = t.of
        /\ \A n \in Npc : e.inView[n] = IF n \in gone THEN t.inView[n] - 1 ELSE t.inView[n]
        /\ \A q \in Player : e.shown[q] = IF q = b THEN t.shown[q] \ gone
                                          ELSE IF q \in gone THEN t.shown[q] \ {b} ELSE t.shown[q]
    <2>1. ExitsAs(t, e, gone, b)
      BY <1>0, <1>3, <1>4, PlayerExitsOK
    <2> QED
      BY <2>1 DEF ExitsAs
  <1>7. In(e, new \ old) = In(t, new \ old)
    BY <1>6 DEF In
  <1>8. /\ f \in World /\ f.chunks = e.chunks /\ f.at = e.at /\ f.view = e.view /\ f.of = e.of
        /\ \A n \in Npc : f.inView[n] = IF n \in met THEN e.inView[n] + 1 ELSE e.inView[n]
        /\ \A q \in Player : f.shown[q] = IF q = b THEN e.shown[q] \cup ((met \cap Player) \ {b})
                                          ELSE IF q \in met THEN e.shown[q] \cup {b} ELSE e.shown[q]
    <2>1. EntersAs(e, f, met, b)
      BY <1>0, <1>6, PlayerEntersOK
    <2> QED
      BY <2>1 DEF EntersAs
  <1>9. met = come \cup (IF Beside(to, from) THEN {} ELSE {b})
    BY <1>0, <1>4, <1>7
  <1>10. new \in SUBSET ChunkPos
    BY <1>3, <1>4, WorldFields DEF Around
  <1>11. /\ u \in World /\ u.chunks = f.chunks /\ u.inView = f.inView /\ u.shown = f.shown /\ u.of = f.of
         /\ u.at[b] = to /\ u.view[b] = new
         /\ \A x \in Being \ {b} : u.at[x] = f.at[x] /\ u.view[x] = f.view[x]
    <2>1. ArrivesAs(f, u, b, to, new)
      BY <1>0, <1>1, <1>8, <1>10, ArrivedOK
    <2> QED
      BY <2>1 DEF ArrivesAs
  <1>12. t.at = v.at /\ t.inView = v.inView /\ t.shown = v.shown /\ t.of = v.of
         /\ \A x \in Being \ tr : t.view[x] = v.view[x]
    BY <1>3 DEF SameBeings
  <1>13. \A n \in Npc : u.inView[n] = IF n \in gone THEN v.inView[n] - 1
                                      ELSE IF n \in come THEN v.inView[n] + 1 ELSE v.inView[n]
    <2>1. ASSUME NEW n \in Npc PROVE ~(n \in gone /\ n \in come) /\ (n \in met <=> n \in come)
      BY <1>1, <1>5, <1>9
    <2> QED
      BY <1>6, <1>8, <1>11, <1>12, <2>1
  <1>14. u.shown[b] = (v.shown[b] \ gone) \cup (come \cap Player)
    <2>1. (met \cap Player) \ {b} = come \cap Player
      BY <1>5, <1>9
    <2>2. e.shown[b] = v.shown[b] \ gone
      BY <1>6, <1>12
    <2>3. f.shown[b] = e.shown[b] \cup ((met \cap Player) \ {b})
      BY <1>8
    <2> QED
      BY <1>11, <2>1, <2>2, <2>3
  <1>15. \A q \in Player \ {b} : u.shown[q] = IF q \in gone THEN v.shown[q] \ {b}
                                              ELSE IF q \in come THEN v.shown[q] \cup {b} ELSE v.shown[q]
    <2>1. ASSUME NEW q \in Player \ {b}
          PROVE  u.shown[q] = IF q \in gone THEN v.shown[q] \ {b}
                              ELSE IF q \in come THEN v.shown[q] \cup {b} ELSE v.shown[q]
      <3>1. ~(q \in gone /\ q \in come) /\ (q \in met <=> q \in come)
        BY <1>5, <1>9
      <3>2. e.shown[q] = IF q \in gone THEN v.shown[q] \ {b} ELSE v.shown[q]
        BY <1>6, <1>12
      <3>3. u.shown[q] = IF q \in met THEN e.shown[q] \cup {b} ELSE e.shown[q]
        BY <1>8, <1>11
      <3> QED
        BY <3>1, <3>2, <3>3
    <2> QED
      BY <2>1
  <1>16. u.chunks = t.chunks /\ u.of = v.of /\ \A x \in Being \ {b} : u.at[x] = v.at[x] /\ u.view[x] = t.view[x]
    BY <1>6, <1>8, <1>11, <1>12
  <1>17. u.view[b] = Around(u, to) /\ \A x \in rest : u.view[x] = Around(u, v.at[x])
    BY <1>3, <1>4, <1>11, <1>12, <1>16 DEF Seen, Around
  <1>18. \A x \in Being \ (tr \cup {b}) : u.view[x] = v.view[x]
    BY <1>12, <1>16
  <1>19. /\ u \in World /\ u.of = v.of /\ u.at[b] = to /\ (\A x \in Being \ {b} : u.at[x] = v.at[x])
         /\ Rehoused(v, u, rest, b, to)
    BY <1>3, <1>11, <1>16 DEF Rehoused
  <1>20. MovesTo(v, u, tr, b, to)
    BY <1>17, <1>18, <1>19 DEF MovesTo
  <1> HIDE DEF rest
  <1>21. PlayerTold(v, u, b, gone, come)
    BY <1>13, <1>14, <1>15 DEF PlayerTold
  <1> QED
    BY <1>2, <1>20, <1>21 DEF gone, come, rest

LEMMA MovedNpc ==
    ASSUME NEW v \in World, NEW tr \in SUBSET Being, Good(v, tr), NEW b \in Npc,
           NEW from \in ChunkPos, NEW to \in ChunkPos, to # from, Starts(v, tr, b, from)
    PROVE  LET u == Moved(v, b, from, to)
           IN  /\ MovesTo(v, u, tr, b, to)
               /\ NpcTold(v, u, b, Loses(v, tr \ {b}, from, to), Loses(v, tr \ {b}, to, from))
  <1> DEFINE t == Tracked(Untracked(NewChunk(v, to), from, b), to, b)
             old == Viewable(t, from)
             new == Viewable(t, to)
             rest == tr \ {b}
             gone == Loses(v, rest, from, to)
             come == Loses(v, rest, to, from)
             f == NpcCounts(t, b, old \ new, new \ old)
             u == Arrives(f, b, to, new)
  <1>1. b \in Being /\ b \notin Player
    BY ChunkConstants DEF Being
  <1>2. Moved(v, b, from, to) = u
    BY <1>1 DEF Moved, Arrives
  <1>0. /\ t = Tracked(Untracked(NewChunk(v, to), from, b), to, b)
        /\ f = NpcCounts(t, b, old \ new, new \ old) /\ u = Arrives(f, b, to, new)
        /\ old = Viewable(t, from) /\ new = Viewable(t, to)
    OBVIOUS
  <1> HIDE DEF t, old, new, f, u
  <1>3. t \in World /\ SameBeings(v, t, tr) /\ Rehoused(v, t, rest, b, to) /\ Seen(t, rest)
    BY <1>0, <1>1, MovedChunksOK
  <1>4. /\ In(t, old \ new) = gone
        /\ In(t, new \ old) = come \cup (IF Beside(to, from) THEN {} ELSE {b})
        /\ new = Around(t, to)
    <2>1. Meets(v, t, rest, b, from, to)
      BY <1>0, <1>1, <1>3, MovedMeets
    <2> QED
      BY <1>0, <2>1 DEF Meets
  <1> HIDE DEF gone, come
  <1>5. In(t, new \ old) \cap Player = come \cap Player
    BY <1>1, <1>4
  <1>6. /\ f \in World /\ f.chunks = t.chunks /\ f.at = t.at /\ f.view = t.view /\ f.of = t.of /\ f.shown = t.shown
        /\ f.inView[b] = t.inView[b] + Cardinality(come \cap Player) - Cardinality(gone \cap Player)
        /\ \A m \in Npc \ {b} : f.inView[m] = t.inView[m]
    <2>1. CountsAs(t, f, b, old \ new, new \ old)
      BY <1>0, <1>3, NpcCountsOK
    <2> QED
      BY <1>4, <1>5, <2>1 DEF CountsAs
  <1>7. new \in SUBSET ChunkPos
    BY <1>3, <1>4, WorldFields DEF Around
  <1>8. /\ u \in World /\ u.chunks = f.chunks /\ u.inView = f.inView /\ u.shown = f.shown /\ u.of = f.of
        /\ u.at[b] = to /\ u.view[b] = new
        /\ \A x \in Being \ {b} : u.at[x] = f.at[x] /\ u.view[x] = f.view[x]
    <2>1. ArrivesAs(f, u, b, to, new)
      BY <1>0, <1>1, <1>6, <1>7, ArrivedOK
    <2> QED
      BY <2>1 DEF ArrivesAs
  <1>9. t.at = v.at /\ t.inView = v.inView /\ t.shown = v.shown /\ t.of = v.of
        /\ \A x \in Being \ tr : t.view[x] = v.view[x]
    BY <1>3 DEF SameBeings
  <1>10. u.chunks = t.chunks /\ u.of = v.of /\ \A x \in Being \ {b} : u.at[x] = v.at[x] /\ u.view[x] = t.view[x]
    BY <1>6, <1>8, <1>9
  <1>11. u.view[b] = Around(u, to) /\ \A x \in rest : u.view[x] = Around(u, v.at[x])
    BY <1>3, <1>4, <1>8, <1>9, <1>10 DEF Seen, Around
  <1>12. \A x \in Being \ (tr \cup {b}) : u.view[x] = v.view[x]
    BY <1>9, <1>10
  <1>13. Rehoused(v, u, rest, b, to)
    BY <1>3, <1>10 DEF Rehoused
  <1>14. /\ u.inView[b] = v.inView[b] + Cardinality(come \cap Player) - Cardinality(gone \cap Player)
         /\ \A n \in Npc \ {b} : u.inView[n] = v.inView[n]
    BY <1>6, <1>8, <1>9
  <1>15. MovesTo(v, u, tr, b, to)
    BY <1>8, <1>10, <1>11, <1>12, <1>13 DEF MovesTo
  <1> HIDE DEF rest
  <1>16. NpcTold(v, u, b, gone, come)
    BY <1>6, <1>8, <1>9, <1>14 DEF NpcTold
  <1> QED
    BY <1>2, <1>15, <1>16 DEF gone, come, rest

-----------------------------------------------------------------------------
(***************************************************************************)
(* After a move everything is right again.                                 *)
(***************************************************************************)

\* Who is near the place where b was.
LEMMA NearBefore ==
    ASSUME NEW v, NEW tr, NEW b, NEW from, Starts(v, tr, b, from), NEW x \in tr, Beside(v.at[x], from)
    PROVE  b \in tr /\ v.at[b] = from
  BY DEF Starts

LEMMA MovedPlaces ==
    ASSUME NEW v \in World, NEW tr \in SUBSET Being, Good(v, tr), NEW b \in Being, NEW to \in ChunkPos,
           NEW u, MovesTo(v, u, tr, b, to)
    PROVE  /\ Filed(u, tr \cup {b}) /\ Seen(u, tr \cup {b}) /\ DOMAIN u.chunks = {u.at[x] : x \in tr \cup {b}}
           /\ \A x \in Being \ (tr \cup {b}) : u.view[x] = {}
  <1>1. DOMAIN u.chunks = {u.at[x] : x \in tr \cup {b}}
    BY DEF MovesTo, Rehoused, TakenSpots
  <1>2. ASSUME NEW c \in DOMAIN u.chunks PROVE u.chunks[c] = {x \in tr \cup {b} : u.at[x] = c}
    BY DEF MovesTo, Rehoused, Cell
  <1>3. Filed(u, tr \cup {b})
    BY <1>1, <1>2 DEF Filed
  <1>4. Seen(u, tr \cup {b})
    BY DEF MovesTo, Seen, Around
  <1>5. \A x \in Being \ (tr \cup {b}) : u.view[x] = {}
    BY DEF MovesTo, Good
  <1> QED
    BY <1>1, <1>3, <1>4, <1>5

\* From Starts: nobody in tr sees "from" unless b was there.
LEMMA MovedPlayerCounted ==
    ASSUME NEW v \in World, NEW tr \in SUBSET Being, Good(v, tr), NEW b \in Player,
           NEW from \in ChunkPos, NEW to \in ChunkPos, Starts(v, tr, b, from), NEW u, MovesTo(v, u, tr, b, to),
           PlayerTold(v, u, b, Loses(v, tr \ {b}, from, to), Loses(v, tr \ {b}, to, from))
    PROVE  Counted(u, tr \cup {b})
  <1>0. /\ u.at[b] = to /\ (\A x \in Being \ {b} : u.at[x] = v.at[x])
        /\ \A n \in Npc : u.inView[n] = IF n \in Loses(v, tr \ {b}, from, to) THEN v.inView[n] - 1
                                        ELSE IF n \in Loses(v, tr \ {b}, to, from) THEN v.inView[n] + 1
                                        ELSE v.inView[n]
    BY DEF MovesTo, PlayerTold
  <1>1. ASSUME NEW n \in Npc
        PROVE  u.inView[n] = IF n \in tr \cup {b} THEN Cardinality(PlayersNear(u, tr \cup {b}, u.at[n])) ELSE 0
    <2>1. n # b /\ n \in Being /\ b \in Being /\ u.at[n] = v.at[n]
      BY <1>0, ChunkConstants DEF Being
    <2>2. v.inView[n] = IF n \in tr THEN Cardinality(PlayersNear(v, tr, v.at[n])) ELSE 0
      BY DEF Good, Counted
    <2>3. CASE n \notin tr
      BY <1>0, <2>1, <2>2, <2>3 DEF Loses
    <2>4. CASE n \in tr
      <3> DEFINE c == v.at[n]
                 S == PlayersNear(v, tr, c)
                 T == PlayersNear(u, tr \cup {b}, c)
      <3>1. IsFiniteSet(S)
        BY PlayersNearFinite
      <3>2. T = IF Beside(to, c) THEN S \cup {b} ELSE S \ {b}
        BY <1>0, <2>1 DEF PlayersNear
      <3>3. c \in ChunkPos
        BY <2>4, WorldFields DEF Good, Filed
      <3>4. b \in S <=> Beside(c, from)
        <4>1. Beside(c, from) => b \in tr /\ v.at[b] = from
          BY <2>4, NearBefore
        <4>2. b \in tr => v.at[b] = from
          BY DEF Starts
        <4>3. Beside(c, from) <=> Beside(from, c)
          BY <3>3, PositionFacts
        <4> QED
          BY <4>1, <4>2, <4>3 DEF PlayersNear
      <3>5. Beside(c, to) <=> Beside(to, c)
        BY <3>3, PositionFacts
      <3>6. /\ n \in Loses(v, tr \ {b}, from, to) <=> Beside(c, from) /\ ~Beside(c, to)
            /\ n \in Loses(v, tr \ {b}, to, from) <=> Beside(c, to) /\ ~Beside(c, from)
        BY <2>1, <2>4 DEF Loses
      <3> HIDE DEF c, S, T
      <3>7. /\ Cardinality(S \cup {b}) = IF b \in S THEN Cardinality(S) ELSE Cardinality(S) + 1
            /\ Cardinality(S \ {b}) = IF b \in S THEN Cardinality(S) - 1 ELSE Cardinality(S)
        BY <3>1, OneMoreOrLess
      <3>8. v.inView[n] = Cardinality(S)
        BY <2>2, <2>4 DEF S, c
      <3>9. u.inView[n] = Cardinality(T)
        <4>1. u.inView[n] = IF b \in S /\ ~Beside(c, to) THEN Cardinality(S) - 1
                            ELSE IF Beside(c, to) /\ b \notin S THEN Cardinality(S) + 1 ELSE Cardinality(S)
          BY <1>0, <3>4, <3>6, <3>8
        <4> QED
          BY <3>2, <3>5, <3>7, <4>1
      <3> QED
        BY <2>1, <2>4, <3>9 DEF T, c
    <2> QED
      BY <2>3, <2>4
  <1> QED
    BY <1>1 DEF Counted

LEMMA MovedPlayerShown ==
    ASSUME NEW v \in World, NEW tr \in SUBSET Being, Good(v, tr), NEW b \in Player,
           NEW from \in ChunkPos, NEW to \in ChunkPos, Starts(v, tr, b, from), NEW u, MovesTo(v, u, tr, b, to),
           PlayerTold(v, u, b, Loses(v, tr \ {b}, from, to), Loses(v, tr \ {b}, to, from))
    PROVE  Shown(u, tr \cup {b})
  <1>0. /\ b \in Being /\ u.at[b] = to /\ (\A x \in Being \ {b} : u.at[x] = v.at[x])
        /\ u.shown[b] = (v.shown[b] \ Loses(v, tr \ {b}, from, to)) \cup (Loses(v, tr \ {b}, to, from) \cap Player)
        /\ \A q \in Player \ {b} : u.shown[q] = IF q \in Loses(v, tr \ {b}, from, to) THEN v.shown[q] \ {b}
                                                ELSE IF q \in Loses(v, tr \ {b}, to, from) THEN v.shown[q] \cup {b}
                                                ELSE v.shown[q]
    BY DEF Being, MovesTo, PlayerTold
  <1>1. u.shown[b] = PlayersNear(u, tr \cup {b}, to) \ {b}
    <2>1. PlayersNear(u, tr \cup {b}, to) \ {b} = PlayersNear(v, tr, to) \ {b}
      BY <1>0 DEF PlayersNear
    <2>2. v.shown[b] = PlayersNear(v, tr, from) \ {b}
      <3>1. CASE b \in tr
        BY <3>1 DEF Good, Shown, Starts
      <3>2. CASE b \notin tr
        BY <3>2 DEF Good, Shown, Starts, PlayersNear
      <3> QED
        BY <3>1, <3>2
    <2>3. (v.shown[b] \ Loses(v, tr \ {b}, from, to)) \cup (Loses(v, tr \ {b}, to, from) \cap Player)
            = PlayersNear(v, tr, to) \ {b}
      BY <2>2 DEF PlayersNear, Loses
    <2> QED
      BY <1>0, <2>1, <2>3
  <1>2. ASSUME NEW q \in Player \ {b}
        PROVE  u.shown[q] = IF q \in tr \cup {b} THEN PlayersNear(u, tr \cup {b}, u.at[q]) \ {q} ELSE {}
    <2>1. q \in Being /\ u.at[q] = v.at[q]
      BY <1>0 DEF Being
    <2>2. v.shown[q] = IF q \in tr THEN PlayersNear(v, tr, v.at[q]) \ {q} ELSE {}
      BY DEF Good, Shown
    <2>3. CASE q \notin tr
      BY <1>0, <2>1, <2>2, <2>3 DEF Loses
    <2>4. CASE q \in tr
      <3> DEFINE c == v.at[q]
                 S == PlayersNear(v, tr, c)
                 T == PlayersNear(u, tr \cup {b}, c)
      <3>1. T = IF Beside(to, c) THEN S \cup {b} ELSE S \ {b}
        BY <1>0 DEF PlayersNear
      <3>2. c \in ChunkPos
        BY <2>4, WorldFields DEF Good, Filed
      <3>3. b \in S <=> Beside(c, from)
        <4>1. Beside(c, from) => b \in tr /\ v.at[b] = from
          BY <2>4, NearBefore
        <4>2. b \in tr => v.at[b] = from
          BY DEF Starts
        <4>3. Beside(c, from) <=> Beside(from, c)
          BY <3>2, PositionFacts
        <4> QED
          BY <4>1, <4>2, <4>3 DEF PlayersNear
      <3>4. Beside(c, to) <=> Beside(to, c)
        BY <3>2, PositionFacts
      <3>5. /\ q \in Loses(v, tr \ {b}, from, to) <=> Beside(c, from) /\ ~Beside(c, to)
            /\ q \in Loses(v, tr \ {b}, to, from) <=> Beside(c, to) /\ ~Beside(c, from)
        BY <2>4 DEF Loses
      <3>6. v.shown[q] = S \ {q}
        BY <2>2, <2>4
      <3> HIDE DEF c, S, T
      <3>7. u.shown[q] = T \ {q}
        BY <1>0, <3>1, <3>3, <3>4, <3>5, <3>6
      <3> QED
        BY <2>1, <2>4, <3>7 DEF T, c
    <2> QED
      BY <2>3, <2>4
  <1> QED
    BY <1>0, <1>1, <1>2 DEF Shown

LEMMA MovedNpcCounted ==
    ASSUME NEW v \in World, NEW tr \in SUBSET Being, Good(v, tr), NEW b \in Npc,
           NEW from \in ChunkPos, NEW to \in ChunkPos, Starts(v, tr, b, from), NEW u, MovesTo(v, u, tr, b, to),
           NpcTold(v, u, b, Loses(v, tr \ {b}, from, to), Loses(v, tr \ {b}, to, from))
    PROVE  Counted(u, tr \cup {b})
  <1>0. /\ b \in Being /\ b \notin Player /\ u.at[b] = to /\ (\A x \in Being \ {b} : u.at[x] = v.at[x])
        /\ u.inView[b] = v.inView[b] + Cardinality(Loses(v, tr \ {b}, to, from) \cap Player)
                                     - Cardinality(Loses(v, tr \ {b}, from, to) \cap Player)
        /\ \A n \in Npc \ {b} : u.inView[n] = v.inView[n]
    BY ChunkConstants DEF Being, MovesTo, NpcTold
  <1>1. \A c : PlayersNear(u, tr \cup {b}, c) = PlayersNear(v, tr, c)
    BY <1>0 DEF PlayersNear
  <1>2. ASSUME NEW n \in Npc \ {b}
        PROVE  u.inView[n] = IF n \in tr \cup {b} THEN Cardinality(PlayersNear(u, tr \cup {b}, u.at[n])) ELSE 0
    <2>1. n \in Being /\ u.at[n] = v.at[n] /\ u.inView[n] = v.inView[n]
      BY <1>0 DEF Being
    <2> QED
      BY <1>1, <2>1 DEF Good, Counted
  <1>3. u.inView[b] = Cardinality(PlayersNear(u, tr \cup {b}, to))
    <2> DEFINE S == PlayersNear(v, tr, from)
               T == PlayersNear(v, tr, to)
    <2>1. IsFiniteSet(S) /\ IsFiniteSet(T)
      BY PlayersNearFinite
    <2>2. v.inView[b] = Cardinality(S)
      <3>1. CASE b \in tr
        BY <3>1 DEF Good, Counted, Starts
      <3>2. CASE b \notin tr
        <4>1. S = {}
          BY <3>2 DEF PlayersNear, Starts
        <4> QED
          BY <3>2, <4>1, FS_EmptySet DEF Good, Counted
      <3> QED
        BY <3>1, <3>2
    <2>3. /\ Loses(v, tr \ {b}, to, from) \cap Player = T \ S
          /\ Loses(v, tr \ {b}, from, to) \cap Player = S \ T
      BY <1>0 DEF Loses, PlayersNear
    <2> HIDE DEF S, T
    <2>4. Cardinality(T) = Cardinality(S) + Cardinality(T \ S) - Cardinality(S \ T)
      BY <2>1, ComingAndGoing
    <2>5. u.inView[b] = Cardinality(T)
      BY <1>0, <2>2, <2>3, <2>4
    <2> QED
      BY <1>1, <2>5 DEF T
  <1> QED
    BY <1>0, <1>2, <1>3 DEF Counted

\* updatePlayerChunk and updateNPCChunk.
LEMMA MovedOK ==
    ASSUME NEW v \in World, NEW tr \in SUBSET Being, Good(v, tr), NEW b \in Being,
           NEW from \in ChunkPos, NEW to \in ChunkPos, to # from, Starts(v, tr, b, from)
    PROVE  LET u == Moved(v, b, from, to)
           IN  /\ u \in World /\ Good(u, tr \cup {b}) /\ u.of = v.of
               /\ u.at[b] = to /\ \A x \in Being \ {b} : u.at[x] = v.at[x]
  <1> DEFINE u == Moved(v, b, from, to)
             gone == Loses(v, tr \ {b}, from, to)
             come == Loses(v, tr \ {b}, to, from)
  <1>0. ASSUME NEW y, MovesTo(v, y, tr, b, to), Counted(y, tr \cup {b}), Shown(y, tr \cup {b})
        PROVE  /\ y \in World /\ Good(y, tr \cup {b}) /\ y.of = v.of
               /\ y.at[b] = to /\ \A x \in Being \ {b} : y.at[x] = v.at[x]
    <2>1. /\ Filed(y, tr \cup {b}) /\ Seen(y, tr \cup {b}) /\ DOMAIN y.chunks = {y.at[x] : x \in tr \cup {b}}
          /\ \A x \in Being \ (tr \cup {b}) : y.view[x] = {}
      BY <1>0, MovedPlaces
    <2>2. Good(y, tr \cup {b})
      BY <1>0, <2>1 DEF Good
    <2> QED
      BY <1>0, <2>2 DEF MovesTo
  <1>1. CASE b \in Player
    <2>1. MovesTo(v, u, tr, b, to) /\ PlayerTold(v, u, b, gone, come)
      BY <1>1, MovedPlayer
    <2> HIDE DEF u
    <2>2. Counted(u, tr \cup {b})
      BY <1>1, <2>1, MovedPlayerCounted
    <2>3. Shown(u, tr \cup {b})
      BY <1>1, <2>1, MovedPlayerShown
    <2>4. u = Moved(v, b, from, to)
      BY DEF u
    <2> QED
      BY <1>0, <2>1, <2>2, <2>3, <2>4
  <1>2. CASE b \in Npc
    <2>1. MovesTo(v, u, tr, b, to) /\ NpcTold(v, u, b, gone, come)
      BY <1>2, MovedNpc
    <2> HIDE DEF u
    <2>2. Counted(u, tr \cup {b})
      BY <1>2, <2>1, MovedNpcCounted
    <2>3. Shown(u, tr \cup {b})
      <3>1. b \notin Player
        BY <1>2, ChunkConstants
      <3>2. \A c : PlayersNear(u, tr \cup {b}, c) = PlayersNear(v, tr, c)
        BY <2>1, <3>1 DEF PlayersNear, MovesTo
      <3>3. \A p \in Player : p # b /\ u.at[p] = v.at[p]
        BY <2>1, <3>1 DEF Being, MovesTo
      <3> QED
        BY <2>1, <3>2, <3>3 DEF Good, Shown, NpcTold
    <2>4. u = Moved(v, b, from, to)
      BY DEF u
    <2> QED
      BY <1>0, <2>1, <2>2, <2>3, <2>4
  <1> QED
    BY <1>1, <1>2 DEF Being

-----------------------------------------------------------------------------
(***************************************************************************)
(* Whole worlds: those who stand somewhere are tracked, and nobody else.   *)
(***************************************************************************)
Tr(v) == {b \in Being : v.at[b] \in Standing}
Whole(v) ==
    /\ v \in World /\ Good(v, Tr(v))
    /\ \A b \in Being : v.at[b] \in Standing \cup {NullChunk, Nowhere}
GoesTo(v, u, b, to) == u.of = v.of /\ u.at[b] = to /\ \A x \in Being \ {b} : u.at[x] = v.at[x]

LEMMA TrFacts ==
    ASSUME NEW v, Whole(v)
    PROVE  /\ Tr(v) \in SUBSET Being /\ v \in World /\ Good(v, Tr(v))
           /\ \A x \in Tr(v) : v.at[x] \in Standing /\ v.at[x] \in ChunkPos /\ v.at[x] # NullChunk
                               /\ ~Beside(v.at[x], NullChunk)
  BY SpecialPositions DEF Whole, Tr

\* Where someone new comes from.
LEMMA FromNullChunk ==
    ASSUME NEW v, Whole(v), NEW b, b \notin Tr(v)
    PROVE  Starts(v, Tr(v), b, NullChunk)
  BY TrFacts DEF Starts

LEMMA WholeAgain ==
    ASSUME NEW v, Whole(v), NEW b \in Being, NEW to \in Standing, NEW u \in World,
           Good(u, Tr(v) \cup {b}), GoesTo(v, u, b, to)
    PROVE  Whole(u)
  <1>1. Tr(u) = Tr(v) \cup {b}
    BY DEF Tr, GoesTo
  <1>2. \A x \in Being : u.at[x] \in Standing \cup {NullChunk, Nowhere}
    BY DEF GoesTo, Whole
  <1> QED
    BY <1>1, <1>2 DEF Whole

MoveRight(v, u, tr, b, to) ==
    /\ u \in World /\ Good(u, tr \cup {b}) /\ u.of = v.of
    /\ u.at[b] = to /\ \A x \in Being \ {b} : u.at[x] = v.at[x]
LEMMA MovedRight ==
    ASSUME NEW v \in World, NEW tr \in SUBSET Being, Good(v, tr), NEW b \in Being,
           NEW from \in ChunkPos, NEW to \in ChunkPos, to # from, Starts(v, tr, b, from)
    PROVE  MoveRight(v, Moved(v, b, from, to), tr, b, to)
  <1> DEFINE u == Moved(v, b, from, to)
  <1>1. /\ u \in World /\ Good(u, tr \cup {b}) /\ u.of = v.of
        /\ u.at[b] = to /\ \A x \in Being \ {b} : u.at[x] = v.at[x]
    BY MovedOK
  <1> HIDE DEF u
  <1>2. MoveRight(v, u, tr, b, to)
    BY <1>1 DEF MoveRight
  <1> QED
    BY <1>2 DEF u

LEMMA PlacedOK ==
    ASSUME NEW v, Whole(v), NEW b \in Being, v.at[b] # Nowhere, NEW to \in Standing
    PROVE  Whole(Placed(v, b, to)) /\ GoesTo(v, Placed(v, b, to), b, to)
  <1> DEFINE from == v.at[b]
             u == Placed(v, b, to)
  <1>1. CASE from = to
    BY <1>1 DEF Placed, GoesTo
  <1>2. CASE from # to
    <2>1. u = Moved(v, b, from, to)
      BY <1>2 DEF Placed
    <2>2. from \in ChunkPos /\ to \in ChunkPos
      BY SpecialPositions DEF Whole
    <2>3. Starts(v, Tr(v), b, from)
      <3>1. CASE b \in Tr(v)
        BY <3>1 DEF Starts
      <3>2. CASE b \notin Tr(v)
        BY <3>2, FromNullChunk DEF Whole, Tr
      <3> QED
        BY <3>1, <3>2
    <2> HIDE DEF u, from
    <2>4. u \in World /\ Good(u, Tr(v) \cup {b}) /\ GoesTo(v, u, b, to)
      <3>1. v \in World /\ Tr(v) \in SUBSET Being /\ Good(v, Tr(v))
        BY TrFacts
      <3> DEFINE tr == Tr(v)
      <3>2. v \in World /\ tr \in SUBSET Being /\ Good(v, tr) /\ Starts(v, tr, b, from)
        BY <2>3, <3>1
      <3> HIDE DEF tr
      <3>3. /\ u \in World /\ Good(u, tr \cup {b}) /\ u.of = v.of
            /\ u.at[b] = to /\ \A x \in Being \ {b} : u.at[x] = v.at[x]
        <4>1. MoveRight(v, Moved(v, b, from, to), tr, b, to)
          BY <1>2, <2>2, <3>2, MovedRight
        <4> QED
          BY <2>1, <4>1 DEF MoveRight
      <3> QED
        BY <3>3 DEF GoesTo, tr
    <2> QED
      BY <2>4, WholeAgain DEF u
  <1> QED
    BY <1>1, <1>2

\* A player who is still loading is nowhere yet.
LEMMA MovedNowhereOK ==
    ASSUME NEW v, Whole(v), NEW p \in Player, v.at[p] = NullChunk
    PROVE  LET u == Moved(v, p, NullChunk, NullChunk)
           IN  Whole(u) /\ GoesTo(v, u, p, NullChunk)
  <1> DEFINE tr == Tr(v)
             n == NewChunk(v, NullChunk)
             m == With(n, NullChunk, n.chunks[NullChunk] \ {p})
             d == DeleteChunk(m, NullChunk)
             none == Viewable(d, NullChunk) \ Viewable(d, NullChunk)
             e == PlayerExits(d, none, p)
             f == PlayerEnters(e, none, p)
             new == Viewable(d, NullChunk)
             u == Arrives(f, p, NullChunk, new)
  <1>0. /\ n = NewChunk(v, NullChunk) /\ m = With(n, NullChunk, n.chunks[NullChunk] \ {p})
        /\ d = DeleteChunk(m, NullChunk) /\ none = {} /\ e = PlayerExits(d, none, p)
        /\ f = PlayerEnters(e, none, p) /\ new = Viewable(d, NullChunk) /\ u = Arrives(f, p, NullChunk, new)
        /\ tr = Tr(v)
    OBVIOUS
  <1>1. p \in Being /\ p \notin Tr(v) /\ NullChunk \in ChunkPos /\ p \notin Npc
    BY SpecialPositions, ChunkConstants DEF Tr, Being
  <1>2. /\ v \in World /\ tr \in SUBSET Being /\ Good(v, tr) /\ p \notin tr
        /\ \A x \in tr : v.at[x] \in Standing /\ v.at[x] # NullChunk
    BY <1>1, TrFacts
  <1>3. Moved(v, p, NullChunk, NullChunk)
          = LET t == Tracked(Untracked(n, NullChunk, p), NullChunk, p)
                old == Viewable(t, NullChunk)
            IN  Arrives(PlayerEnters(PlayerExits(t, old \ old, p), old \ old, p), p, NullChunk, old)
    BY <1>0 DEF Moved, Arrives
  <1> HIDE DEF n, m, d, none, e, f, new, u, tr
  <1>4. /\ n \in World /\ Filed(n, tr) /\ Seen(n, tr) /\ SameBeings(v, n, tr)
        /\ DOMAIN n.chunks = DOMAIN v.chunks \cup {NullChunk}
    <2>1. Filed(v, tr) /\ Seen(v, tr)
      BY <1>2 DEF Good
    <2> QED
      BY <1>0, <1>1, <1>2, <2>1, NewChunkOK
  <1>5. n.at = v.at /\ n.chunks[NullChunk] = {} /\ NullChunk \notin DOMAIN v.chunks
    BY <1>2, <1>4 DEF Filed, SameBeings, Good
  <1>6. /\ m \in World /\ SameBeings(n, m, {}) /\ m.view = n.view /\ DOMAIN m.chunks = DOMAIN n.chunks
        /\ m.chunks[NullChunk] = {} /\ \A c \in DOMAIN n.chunks \ {NullChunk} : m.chunks[c] = n.chunks[c]
    <2>1. m = With(n, NullChunk, {}) /\ {} \in SUBSET Being
      BY <1>0, <1>5
    <2>2. \A cell \in SUBSET Being :
            LET y == With(n, NullChunk, cell)
            IN  /\ y \in World /\ SameBeings(n, y, {}) /\ y.view = n.view
                /\ DOMAIN y.chunks = DOMAIN n.chunks \cup {NullChunk} /\ y.chunks[NullChunk] = cell
                /\ \A c \in DOMAIN n.chunks \ {NullChunk} : y.chunks[c] = n.chunks[c]
      BY <1>1, <1>4, WithOK
    <2>3. DOMAIN n.chunks \cup {NullChunk} = DOMAIN n.chunks
      BY <1>4
    <2> QED
      BY <2>1, <2>2, <2>3
  <1>7. Filed(m, tr) /\ Seen(m, tr) /\ m.at = v.at
    BY <1>2, <1>4, <1>5, <1>6 DEF Filed, Seen, SameBeings
  <1>8. /\ d \in World /\ Filed(d, tr) /\ Seen(d, tr) /\ SameBeings(m, d, tr)
        /\ DOMAIN d.chunks = DOMAIN m.chunks \ {NullChunk}
    <2>1. NullChunk \in DOMAIN m.chunks /\ \A x \in tr : m.at[x] # NullChunk
      BY <1>2, <1>4, <1>6, <1>7
    <2>2. ASSUME NEW c \in DOMAIN m.chunks, \A x \in tr : m.at[x] # c
          PROVE  LET y == DeleteChunk(m, c)
                 IN  /\ y \in World /\ Filed(y, tr) /\ Seen(y, tr) /\ SameBeings(m, y, tr)
                     /\ DOMAIN y.chunks = DOMAIN m.chunks \ {c}
      BY <1>2, <1>6, <1>7, <2>2, DeleteChunkOK
    <2> QED
      BY <1>0, <2>1, <2>2
  <1>9. Untracked(n, NullChunk, p) = d /\ Tracked(d, NullChunk, p) = d
    BY <1>0, <1>4, <1>6, <1>8 DEF Untracked, Tracked, Exists
  <1>10. Moved(v, p, NullChunk, NullChunk) = u
    BY <1>0, <1>3, <1>9
  <1>11. /\ d.at = v.at /\ d.inView = v.inView /\ d.shown = v.shown /\ d.of = v.of
         /\ DOMAIN d.chunks = DOMAIN v.chunks /\ \A x \in Being \ tr : d.view[x] = v.view[x]
    BY <1>4, <1>5, <1>6, <1>8 DEF SameBeings
  <1>12. new = {}
    <2>1. \A c \in DOMAIN d.chunks : c \in Standing
      BY <1>2, <1>11 DEF Good
    <2> QED
      BY <1>0, <2>1, ViewableIsNear, SpecialPositions
  <1>13. In(d, none) = {} /\ In(e, none) = {}
    BY <1>0 DEF In
  <1>14. /\ e \in World /\ e.chunks = d.chunks /\ e.at = d.at /\ e.view = d.view /\ e.of = d.of
         /\ (\A x \in Npc : e.inView[x] = d.inView[x]) /\ \A q \in Player : e.shown[q] = d.shown[q]
    <2>1. ExitsAs(d, e, {}, p)
      BY <1>0, <1>8, <1>13, PlayerExitsOK
    <2> QED
      BY <2>1 DEF ExitsAs
  <1>15. /\ f \in World /\ f.chunks = d.chunks /\ f.at = d.at /\ f.view = d.view /\ f.of = d.of
         /\ (\A x \in Npc : f.inView[x] = d.inView[x]) /\ \A q \in Player : f.shown[q] = d.shown[q]
    <2>1. EntersAs(e, f, {}, p)
      BY <1>0, <1>13, <1>14, PlayerEntersOK
    <2> QED
      BY <1>14, <2>1 DEF EntersAs
  <1>16. ArrivesAs(f, u, p, NullChunk, {})
    <2>1. \A old \in SUBSET ChunkPos : ArrivesAs(f, Arrives(f, p, NullChunk, old), p, NullChunk, old)
      BY <1>1, <1>15, ArrivedOK
    <2>2. {} \in SUBSET ChunkPos
      OBVIOUS
    <2> QED
      BY <1>0, <1>12, <2>1, <2>2
  <1>17. /\ u \in World /\ u.of = v.of /\ u.chunks = d.chunks /\ u.at[p] = NullChunk /\ u.view[p] = {}
         /\ (\A x \in Npc : u.inView[x] = v.inView[x]) /\ (\A q \in Player : u.shown[q] = v.shown[q])
         /\ \A x \in Being \ {p} : u.at[x] = v.at[x] /\ u.view[x] = d.view[x]
    BY <1>11, <1>15, <1>16 DEF ArrivesAs
  <1>18. GoesTo(v, u, p, NullChunk) /\ \A x \in tr : u.at[x] = v.at[x]
    BY <1>2, <1>17 DEF GoesTo
  <1>19. Filed(u, tr) /\ Seen(u, tr)
    BY <1>2, <1>8, <1>11, <1>17, <1>18 DEF Filed, Seen
  <1>20. DOMAIN u.chunks = {u.at[x] : x \in tr}
    BY <1>2, <1>11, <1>17, <1>18 DEF Good
  <1>21. \A c : PlayersNear(u, tr, c) = PlayersNear(v, tr, c)
    BY <1>18 DEF PlayersNear
  <1>22. Counted(u, tr) /\ Shown(u, tr)
    <2>1. Counted(v, tr) /\ Shown(v, tr)
      BY <1>2 DEF Good
    <2>2. \A x \in Npc : x \in tr => u.at[x] = v.at[x]
      BY <1>18
    <2>3. Counted(u, tr)
      BY <1>17, <1>21, <2>1, <2>2 DEF Counted
    <2>4. Shown(u, tr)
      <3>1. ASSUME NEW q \in Player
            PROVE  u.shown[q] = IF q \in tr THEN PlayersNear(u, tr, u.at[q]) \ {q} ELSE {}
        <4>1. u.shown[q] = v.shown[q]
          BY <1>17
        <4>2. v.shown[q] = IF q \in tr THEN PlayersNear(v, tr, v.at[q]) \ {q} ELSE {}
          BY <2>1 DEF Shown
        <4>3. q \in tr => u.at[q] = v.at[q]
          BY <1>18
        <4> QED
          BY <1>21, <4>1, <4>2, <4>3
      <3> QED
        BY <3>1 DEF Shown
    <2> QED
      BY <2>3, <2>4
  <1>23. \A x \in Being \ tr : u.view[x] = {}
    BY <1>2, <1>11, <1>17 DEF Good
  <1>24. Good(u, tr)
    BY <1>19, <1>20, <1>22, <1>23 DEF Good
  <1>25. Tr(u) = tr
    <2>1. \A x \in Being \ {p} : u.at[x] = v.at[x]
      BY <1>17
    <2>2. u.at[p] \notin Standing /\ v.at[p] \notin Standing
      BY <1>17, SpecialPositions
    <2>3. \A x \in Being : u.at[x] \in Standing <=> v.at[x] \in Standing
      BY <2>1, <2>2
    <2>4. Tr(u) = Tr(v)
      BY <2>3 DEF Tr
    <2> QED
      BY <1>0, <2>4
  <1>26. \A x \in Being : u.at[x] \in Standing \cup {NullChunk, Nowhere}
    BY <1>18 DEF GoesTo, Whole
  <1> QED
    BY <1>10, <1>17, <1>18, <1>24, <1>25, <1>26 DEF Whole

\* "force player to reload chunks": out of the world and in again.
LEMMA ThereAndBack ==
    ASSUME NEW v, Whole(v), NEW p \in Player, v.at[p] \in Standing, NEW to \in Standing
    PROVE  LET u == Moved(Moved(v, p, v.at[p], NullChunk), p, NullChunk, to)
           IN  Whole(u) /\ GoesTo(v, u, p, to)
  <1> DEFINE from == v.at[p]
             tr == Tr(v)
             t == Moved(v, p, from, NullChunk)
             u == Moved(t, p, NullChunk, to)
  <1>1. /\ p \in Being /\ from \in ChunkPos /\ to \in ChunkPos /\ NullChunk \in ChunkPos
        /\ from # NullChunk /\ to # NullChunk
    BY SpecialPositions DEF Being
  <1>2. v \in World /\ tr \in SUBSET Being /\ Good(v, tr) /\ p \in tr /\ Starts(v, tr, p, from)
    BY <1>1, TrFacts DEF Tr, Starts
  <1>3. tr \cup {p} = tr
    BY <1>2
  <1>4. t = Moved(v, p, from, NullChunk) /\ u = Moved(t, p, NullChunk, to)
    OBVIOUS
  <1>0. u = Moved(Moved(v, p, v.at[p], NullChunk), p, NullChunk, to) /\ tr = Tr(v)
    OBVIOUS
  <1> HIDE DEF from, tr, t, u
  <1>5. MoveRight(v, t, tr, p, NullChunk)
    BY <1>1, <1>2, <1>4, MovedRight
  <1>6. t \in World /\ Good(t, tr) /\ t.of = v.of /\ t.at[p] = NullChunk /\ \A x \in Being \ {p} : t.at[x] = v.at[x]
    BY <1>3, <1>5 DEF MoveRight
  <1>7. Starts(t, tr, p, NullChunk)
    BY <1>2, <1>6 DEF Starts
  <1>8. MoveRight(t, u, tr, p, to)
    BY <1>1, <1>2, <1>4, <1>6, <1>7, MovedRight
  <1>9. u \in World /\ Good(u, tr \cup {p}) /\ GoesTo(v, u, p, to)
    BY <1>6, <1>8 DEF MoveRight, GoesTo
  <1>10. Whole(u)
    BY <1>0, <1>1, <1>9, WholeAgain
  <1> QED
    BY <1>0, <1>9, <1>10

LEMMA ReloadedOK ==
    ASSUME NEW v, Whole(v), NEW p \in Player, v.at[p] # Nowhere, NEW to \in Standing
    PROVE  Whole(Reloaded(v, p, to)) /\ GoesTo(v, Reloaded(v, p, to), p, to)
  <1> DEFINE from == v.at[p]
             t == Moved(v, p, from, NullChunk)
             u == Reloaded(v, p, to)
  <1>1. p \in Being /\ from \in Standing \cup {NullChunk} /\ to # NullChunk /\ u = Placed(t, p, to)
    BY SpecialPositions DEF Being, Whole, Reloaded
  <1>2. CASE from = NullChunk
    <2>1. t = Moved(v, p, NullChunk, NullChunk)
      BY <1>2
    <2> HIDE DEF t, from, u
    <2>2. Whole(t) /\ GoesTo(v, t, p, NullChunk)
      BY <1>2, <2>1, MovedNowhereOK DEF from
    <2>3. t.at[p] # Nowhere
      BY <2>2, SpecialPositions DEF GoesTo
    <2>4. Whole(u) /\ GoesTo(t, u, p, to)
      BY <1>1, <2>2, <2>3, PlacedOK
    <2>5. GoesTo(v, u, p, to)
      BY <2>2, <2>4 DEF GoesTo
    <2> QED
      BY <2>4, <2>5 DEF u
  <1>3. CASE from \in Standing
    <2>1. t.at[p] = NullChunk
      <3>1. /\ v \in World /\ Tr(v) \in SUBSET Being /\ Good(v, Tr(v)) /\ p \in Tr(v)
            /\ NullChunk \in ChunkPos /\ from \in ChunkPos /\ from # NullChunk
        BY <1>1, <1>3, TrFacts, SpecialPositions DEF Tr
      <3>2. Starts(v, Tr(v), p, from)
        BY <3>1 DEF Starts
      <3> HIDE DEF from
      <3>3. MoveRight(v, t, Tr(v), p, NullChunk)
        BY <1>1, <3>1, <3>2, MovedRight
      <3> QED
        BY <3>3 DEF MoveRight
    <2>2. u = Moved(t, p, NullChunk, to)
      BY <1>1, <2>1 DEF Placed
    <2> QED
      BY <1>3, <2>2, ThereAndBack
  <1> QED
    BY <1>1, <1>2, <1>3

\* destroyNPC.
Leaves(v, u, b) ==
    /\ u.at[b] = Nowhere /\ \A x \in Being \ {b} : u.at[x] = v.at[x]
    /\ \A n \in Npc \ {b} : u.of[n] = v.of[n]
Vanishes(v, n) == [v EXCEPT !.at[n] = Nowhere, !.view[n] = {}, !.inView[n] = 0, !.of[n] = None]
VanishesAs(v, u, n) ==
    /\ u \in World /\ u.chunks = v.chunks /\ u.shown = v.shown /\ u.inView[n] = 0 /\ u.view[n] = {}
    /\ Leaves(v, u, n) /\ (\A x \in Being \ {n} : u.view[x] = v.view[x])
    /\ \A m \in Npc \ {n} : u.inView[m] = v.inView[m]
LEMMA VanishesOK ==
    ASSUME NEW v \in World, NEW n \in Npc
    PROVE  VanishesAs(v, Vanishes(v, n), n)
  <1> DEFINE a == [v.at EXCEPT ![n] = Nowhere]
             b == [v.view EXCEPT ![n] = {}]
             c == [v.inView EXCEPT ![n] = 0]
             d == [v.of EXCEPT ![n] = None]
             u == Vanishes(v, n)
  <1>0. n \in Being
    BY DEF Being
  <1>1. a \in [Being -> ChunkPos \cup {Nowhere}] /\ a[n] = Nowhere /\ \A x \in Being \ {n} : a[x] = v.at[x]
    BY <1>0, WorldFields
  <1>2. b \in [Being -> SUBSET ChunkPos] /\ b[n] = {} /\ \A x \in Being \ {n} : b[x] = v.view[x]
    BY <1>0, WorldFields
  <1>3. c \in [Npc -> Int] /\ c[n] = 0 /\ \A m \in Npc \ {n} : c[m] = v.inView[m]
    BY WorldFields
  <1>4. d \in [Npc -> Npc \cup {None}] /\ \A m \in Npc \ {n} : d[m] = v.of[m]
    BY WorldFields
  <1>5. u = [v EXCEPT !.at = a, !.view = b, !.inView = c, !.of = d]
    BY DEF World, Vanishes
  <1> HIDE DEF a, b, c, d, u
  <1>6. /\ u \in World /\ u.chunks = v.chunks /\ u.shown = v.shown
        /\ u.at = a /\ u.view = b /\ u.inView = c /\ u.of = d
    BY <1>1, <1>2, <1>3, <1>4, <1>5 DEF World
  <1> QED
    BY <1>1, <1>2, <1>3, <1>4, <1>6 DEF VanishesAs, Leaves, u

LEMMA DestroyedOK ==
    ASSUME NEW v, Whole(v), NEW n \in Npc, n \in Tr(v)
    PROVE  Whole(Destroyed(v, n)) /\ Leaves(v, Destroyed(v, n), n)
  <1> DEFINE tr == Tr(v)
             rest == tr \ {n}
             u == Untracked(v, v.at[n], n)
             here == Viewable(u, u.at[n])
             c == NpcCounts(u, n, here, {})
             y == Vanishes(c, n)
  <1>0. /\ u = Untracked(v, v.at[n], n) /\ here = Viewable(u, u.at[n]) /\ c = NpcCounts(u, n, here, {})
        /\ y = Vanishes(c, n) /\ tr = Tr(v)
    OBVIOUS
  <1>1. Destroyed(v, n) = y
    BY DEF Destroyed, Vanishes
  <1>2. v \in World /\ tr \in SUBSET Being /\ Good(v, tr) /\ n \in tr /\ n \notin Player /\ rest \in SUBSET Being
    BY TrFacts, ChunkConstants
  <1> HIDE DEF tr, u, here, c, y
  <1>3. /\ u \in World /\ Filed(u, rest) /\ Seen(u, rest) /\ SameBeings(v, u, rest)
        /\ DOMAIN u.chunks = IF \E x \in rest : v.at[x] = v.at[n] THEN DOMAIN v.chunks
                             ELSE DOMAIN v.chunks \ {v.at[n]}
    <2>1. Filed(v, tr) /\ Seen(v, tr)
      BY <1>2 DEF Good
    <2> QED
      BY <1>0, <1>2, <2>1, UntrackedOK
  <1>4. CountsAs(u, c, n, here, {})
    BY <1>0, <1>3, NpcCountsOK
  <1>5. /\ c \in World /\ c.chunks = u.chunks /\ c.at = v.at /\ c.view = u.view /\ c.of = v.of /\ c.shown = v.shown
        /\ \A m \in Npc \ {n} : c.inView[m] = v.inView[m]
    BY <1>3, <1>4 DEF CountsAs, SameBeings
  <1>6. VanishesAs(c, y, n)
    BY <1>0, <1>5, VanishesOK
  <1>7. /\ y \in World /\ y.chunks = u.chunks /\ y.shown = v.shown /\ y.inView[n] = 0 /\ y.view[n] = {}
        /\ Leaves(v, y, n) /\ (\A x \in Being \ {n} : y.view[x] = u.view[x])
        /\ \A m \in Npc \ {n} : y.inView[m] = v.inView[m]
    BY <1>5, <1>6 DEF VanishesAs, Leaves
  <1>8. \A x \in rest : y.at[x] = v.at[x] /\ u.at[x] = v.at[x]
    BY <1>2, <1>3, <1>7 DEF Leaves, SameBeings
  <1>9. Filed(y, rest) /\ Seen(y, rest)
    BY <1>2, <1>3, <1>7, <1>8 DEF Filed, Seen
  <1>10. DOMAIN y.chunks = {y.at[x] : x \in rest}
    <2>1. DOMAIN v.chunks = {v.at[x] : x \in tr}
      BY <1>2 DEF Good
    <2>2. DOMAIN u.chunks = {v.at[x] : x \in rest}
      BY <1>2, <1>3, <2>1
    <2> QED
      BY <1>7, <1>8, <2>2
  <1>11. \A d : PlayersNear(y, rest, d) = PlayersNear(v, tr, d)
    BY <1>2, <1>8 DEF PlayersNear
  <1>12. Counted(v, tr) /\ Shown(v, tr)
    BY <1>2 DEF Good
  <1>13. Counted(y, rest)
    <2>1. ASSUME NEW m \in Npc
          PROVE  y.inView[m] = IF m \in rest THEN Cardinality(PlayersNear(y, rest, y.at[m])) ELSE 0
      <3>1. v.inView[m] = IF m \in tr THEN Cardinality(PlayersNear(v, tr, v.at[m])) ELSE 0
        BY <1>12 DEF Counted
      <3>2. CASE m = n
        BY <1>7, <3>2
      <3>3. CASE m # n
        BY <1>7, <1>8, <1>11, <3>1, <3>3
      <3> QED
        BY <3>2, <3>3
    <2> QED
      BY <2>1 DEF Counted
  <1>14. Shown(y, rest)
    <2>1. ASSUME NEW p \in Player
          PROVE  y.shown[p] = IF p \in rest THEN PlayersNear(y, rest, y.at[p]) \ {p} ELSE {}
      <3>1. v.shown[p] = IF p \in tr THEN PlayersNear(v, tr, v.at[p]) \ {p} ELSE {}
        BY <1>12 DEF Shown
      <3>2. p # n
        BY <1>2
      <3> QED
        BY <1>7, <1>8, <1>11, <3>1, <3>2
    <2> QED
      BY <2>1 DEF Shown
  <1>15. \A x \in Being \ rest : y.view[x] = {}
    <2>1. \A x \in Being \ tr : v.view[x] = {}
      BY <1>2 DEF Good
    <2> QED
      BY <1>3, <1>7, <2>1 DEF SameBeings
  <1>16. Good(y, rest)
    BY <1>9, <1>10, <1>13, <1>14, <1>15 DEF Good
  <1>17. Tr(y) = rest
    <2>1. Nowhere \notin Standing
      BY SpecialPositions
    <2>2. \A x \in Being : y.at[x] \in Standing <=> x \in rest
      BY <1>0, <1>7, <2>1 DEF Leaves, Tr
    <2> QED
      BY <1>2, <2>2 DEF Tr
  <1>18. \A x \in Being : y.at[x] \in Standing \cup {NullChunk, Nowhere}
    BY <1>7 DEF Leaves, Whole
  <1> QED
    BY <1>1, <1>7, <1>16, <1>17, <1>18 DEF Whole

\* addPlayer and removePlayer: a player who sees nothing.
Blank(v, p, to) == [v EXCEPT !.at[p] = to, !.view[p] = {}, !.shown[p] = {}]
BlankAs(v, u, p, to) ==
    /\ u \in World /\ u.chunks = v.chunks /\ u.inView = v.inView /\ u.shown[p] = {} /\ u.view[p] = {}
    /\ GoesTo(v, u, p, to) /\ (\A x \in Being \ {p} : u.view[x] = v.view[x])
    /\ \A q \in Player \ {p} : u.shown[q] = v.shown[q]
LEMMA BlankOK ==
    ASSUME NEW v \in World, NEW p \in Player, NEW to \in {NullChunk, Nowhere}
    PROVE  BlankAs(v, Blank(v, p, to), p, to)
  <1> DEFINE a == [v.at EXCEPT ![p] = to]
             b == [v.view EXCEPT ![p] = {}]
             c == [v.shown EXCEPT ![p] = {}]
             u == Blank(v, p, to)
  <1>0. p \in Being /\ to \in ChunkPos \cup {Nowhere}
    BY SpecialPositions DEF Being
  <1>1. a \in [Being -> ChunkPos \cup {Nowhere}] /\ a[p] = to /\ \A x \in Being \ {p} : a[x] = v.at[x]
    BY <1>0, WorldFields
  <1>2. b \in [Being -> SUBSET ChunkPos] /\ b[p] = {} /\ \A x \in Being \ {p} : b[x] = v.view[x]
    BY <1>0, WorldFields
  <1>3. c \in [Player -> SUBSET Player] /\ c[p] = {} /\ \A q \in Player \ {p} : c[q] = v.shown[q]
    BY WorldFields
  <1>5. u = [v EXCEPT !.at = a, !.view = b, !.shown = c]
    BY DEF World, Blank
  <1> HIDE DEF a, b, c, u
  <1>6. /\ u \in World /\ u.chunks = v.chunks /\ u.inView = v.inView /\ u.of = v.of
        /\ u.at = a /\ u.view = b /\ u.shown = c
    BY <1>1, <1>2, <1>3, <1>5 DEF World
  <1> QED
    BY <1>1, <1>2, <1>3, <1>6 DEF BlankAs, GoesTo, u

\* Somebody who was not tracked, and is not.
LEMMA UntrackedStaysWhole ==
    ASSUME NEW v, Whole(v), NEW p \in Player, p \notin Tr(v), NEW to \in {NullChunk, Nowhere},
           NEW u, BlankAs(v, u, p, to)
    PROVE  Whole(u) /\ GoesTo(v, u, p, to)
  <1> DEFINE tr == Tr(v)
  <1>1. v \in World /\ tr \in SUBSET Being /\ Good(v, tr) /\ p \notin tr /\ p \notin Npc /\ p \in Being
    BY TrFacts, ChunkConstants DEF Being
  <1>2. /\ u \in World /\ u.chunks = v.chunks /\ u.inView = v.inView /\ u.shown[p] = {} /\ u.view[p] = {}
        /\ u.at[p] = to /\ GoesTo(v, u, p, to) /\ (\A x \in Being \ {p} : u.view[x] = v.view[x] /\ u.at[x] = v.at[x])
        /\ \A q \in Player \ {p} : u.shown[q] = v.shown[q]
    BY DEF BlankAs, GoesTo
  <1>3. Tr(u) = tr
    <2>1. to \notin Standing
      BY SpecialPositions
    <2>2. \A x \in Being : u.at[x] \in Standing <=> x \in tr
      BY <1>1, <1>2, <2>1 DEF Tr
    <2> QED
      BY <2>2 DEF Tr
  <1> HIDE DEF tr
  <1>4. \A x \in tr : u.at[x] = v.at[x] /\ u.view[x] = v.view[x]
    BY <1>1, <1>2
  <1>5. Filed(u, tr) /\ Seen(u, tr) /\ DOMAIN u.chunks = {u.at[x] : x \in tr}
    BY <1>1, <1>2, <1>4 DEF Filed, Seen, Good
  <1>6. \A c : PlayersNear(u, tr, c) = PlayersNear(v, tr, c)
    BY <1>4 DEF PlayersNear
  <1>7. Counted(u, tr)
    BY <1>1, <1>2, <1>4, <1>6 DEF Good, Counted
  <1>8. Shown(u, tr)
    <2>1. ASSUME NEW q \in Player
          PROVE  u.shown[q] = IF q \in tr THEN PlayersNear(u, tr, u.at[q]) \ {q} ELSE {}
      <3>1. v.shown[q] = IF q \in tr THEN PlayersNear(v, tr, v.at[q]) \ {q} ELSE {}
        BY <1>1 DEF Good, Shown
      <3>2. CASE q = p
        BY <1>1, <1>2, <3>2
      <3>3. CASE q # p
        BY <1>2, <1>4, <1>6, <3>1, <3>3
      <3> QED
        BY <3>2, <3>3
    <2> QED
      BY <2>1 DEF Shown
  <1>9. \A x \in Being \ tr : u.view[x] = {}
    BY <1>1, <1>2 DEF Good
  <1>10. Good(u, tr)
    BY <1>5, <1>7, <1>8, <1>9 DEF Good
  <1>11. \A x \in Being : u.at[x] \in Standing \cup {NullChunk, Nowhere}
    BY <1>2 DEF Whole
  <1> QED
    BY <1>2, <1>3, <1>10, <1>11 DEF Whole

LEMMA EnteredOK ==
    ASSUME NEW v, Whole(v), NEW p \in Player, v.at[p] = Nowhere
    PROVE  Whole(Blank(v, p, NullChunk)) /\ GoesTo(v, Blank(v, p, NullChunk), p, NullChunk)
  <1>1. p \notin Tr(v) /\ v \in World
    BY SpecialPositions DEF Tr, Whole
  <1>2. BlankAs(v, Blank(v, p, NullChunk), p, NullChunk)
    BY <1>1, BlankOK
  <1> QED
    BY <1>1, <1>2, UntrackedStaysWhole

TakenOut(v, p) ==
    Blank(Untracked(PlayerExits(v, Viewable(v, v.at[p]), p), v.at[p], p), p, Nowhere)
LEMMA TakenOutOK ==
    ASSUME NEW v, Whole(v), NEW p \in Player, v.at[p] # Nowhere
    PROVE  Whole(TakenOut(v, p)) /\ GoesTo(v, TakenOut(v, p), p, Nowhere)
  <1> DEFINE tr == Tr(v)
             rest == tr \ {p}
             from == v.at[p]
             here == Viewable(v, from)
             met == In(v, here)
             e == PlayerExits(v, here, p)
             u == Untracked(e, from, p)
             y == TakenOut(v, p)
  <1>0. /\ tr = Tr(v) /\ from = v.at[p] /\ here = Viewable(v, from) /\ met = In(v, here)
        /\ e = PlayerExits(v, here, p) /\ u = Untracked(e, from, p) /\ y = Blank(u, p, Nowhere) /\ y = TakenOut(v, p)
    BY DEF TakenOut
  <1>1. /\ v \in World /\ tr \in SUBSET Being /\ Good(v, tr) /\ p \notin Npc /\ p \in Being /\ rest \in SUBSET Being
        /\ p \in tr <=> from \in Standing
    BY TrFacts, ChunkConstants DEF Being, Tr
  <1>2. from \in Standing \cup {NullChunk} /\ from \in ChunkPos
    BY <1>1, SpecialPositions DEF Whole
  <1>3. Filed(v, tr) /\ Seen(v, tr) /\ Counted(v, tr) /\ Shown(v, tr) /\ DOMAIN v.chunks = {v.at[x] : x \in tr}
    BY <1>1 DEF Good
  <1> HIDE DEF tr, from, here, met, e, u, y
  <1>4. met = {x \in tr : Beside(v.at[x], from)}
    <2>1. here = {d \in DOMAIN v.chunks : Beside(d, from)}
      BY <1>0, ViewableIsNear
    <2>2. met = {x \in tr : v.at[x] \in here}
      BY <1>0, <1>3, <2>1, InIsThere
    <2>3. \A x \in tr : v.at[x] \in DOMAIN v.chunks
      BY <1>3
    <2> QED
      BY <2>1, <2>2, <2>3
  <1>5. ExitsAs(v, e, met, p)
    BY <1>0, <1>1, PlayerExitsOK
  <1>6. /\ e \in World /\ e.chunks = v.chunks /\ e.at = v.at /\ e.view = v.view /\ e.of = v.of
        /\ \A n \in Npc : e.inView[n] = IF n \in met THEN v.inView[n] - 1 ELSE v.inView[n]
        /\ \A q \in Player : e.shown[q] = IF q = p THEN v.shown[q] \ met
                                          ELSE IF q \in met THEN v.shown[q] \ {p} ELSE v.shown[q]
    BY <1>5 DEF ExitsAs
  <1>7. Filed(e, tr) /\ Seen(e, tr)
    BY <1>3, <1>6 DEF Filed, Seen
  <1>8. CASE p \notin tr
    <2>1. from = NullChunk
      BY <1>1, <1>2, <1>8
    <2>2. met = {}
      BY <1>0, <1>4, <2>1, TrFacts
    <2>3. u = e
      <3>1. NullChunk \notin DOMAIN e.chunks
        BY <1>0, <1>3, <1>6, TrFacts
      <3> QED
        BY <1>0, <2>1, <3>1 DEF Untracked, Exists
    <2>4. BlankAs(e, y, p, Nowhere)
      BY <1>0, <1>6, <2>3, BlankOK
    <2>5. (\A n \in Npc : e.inView[n] = v.inView[n]) /\ \A q \in Player \ {p} : e.shown[q] = v.shown[q]
      BY <1>6, <2>2
    <2>6. e.inView = v.inView
      <3>1. e.inView \in [Npc -> Int] /\ v.inView \in [Npc -> Int]
        BY <1>1, <1>6, WorldFields
      <3> QED
        BY <2>5, <3>1
    <2>7. BlankAs(v, y, p, Nowhere)
      BY <1>6, <2>4, <2>5, <2>6 DEF BlankAs, GoesTo
    <2> QED
      BY <1>0, <1>8, <2>7, UntrackedStaysWhole
  <1>9. CASE p \in tr
    <2>1. /\ u \in World /\ Filed(u, rest) /\ Seen(u, rest) /\ SameBeings(e, u, rest)
          /\ DOMAIN u.chunks = IF \E x \in rest : e.at[x] = e.at[p] THEN DOMAIN e.chunks
                               ELSE DOMAIN e.chunks \ {e.at[p]}
      <3>1. u = Untracked(e, e.at[p], p)
        BY <1>0, <1>6
      <3>2. e \in World /\ tr \in SUBSET Being
        BY <1>1, <1>6
      <3> QED
        BY <1>7, <1>9, <3>1, <3>2, UntrackedOK
    <2>2. BlankAs(u, y, p, Nowhere)
      BY <1>0, <2>1, BlankOK
    <2>3. u.at = v.at /\ u.inView = e.inView /\ u.shown = e.shown /\ u.of = v.of
      BY <1>6, <2>1 DEF SameBeings
    <2>4. /\ y \in World /\ y.chunks = u.chunks /\ y.inView = e.inView /\ y.shown[p] = {} /\ y.view[p] = {}
          /\ GoesTo(v, y, p, Nowhere) /\ y.at[p] = Nowhere
          /\ (\A x \in Being \ {p} : y.view[x] = u.view[x] /\ y.at[x] = v.at[x])
          /\ \A q \in Player \ {p} : y.shown[q] = e.shown[q]
      BY <2>2, <2>3 DEF BlankAs, GoesTo
    <2>5. \A x \in rest : y.at[x] = v.at[x] /\ u.at[x] = v.at[x] /\ y.view[x] = u.view[x]
      BY <1>1, <2>3, <2>4
    <2>6. Filed(y, rest) /\ Seen(y, rest)
      BY <2>1, <2>4, <2>5 DEF Filed, Seen
    <2>7. DOMAIN y.chunks = {y.at[x] : x \in rest}
      <3>1. DOMAIN u.chunks = {v.at[x] : x \in rest}
        BY <1>3, <1>6, <1>9, <2>1
      <3> QED
        BY <2>4, <2>5, <3>1
    <2>8. \A c : PlayersNear(y, rest, c) = PlayersNear(v, tr, c) \ {p}
      BY <2>5 DEF PlayersNear
    <2>9. Counted(y, rest)
      <3>1. ASSUME NEW n \in Npc
            PROVE  y.inView[n] = IF n \in rest THEN Cardinality(PlayersNear(y, rest, y.at[n])) ELSE 0
        <4>1. v.inView[n] = IF n \in tr THEN Cardinality(PlayersNear(v, tr, v.at[n])) ELSE 0
          BY <1>3 DEF Counted
        <4>2. n # p /\ y.inView[n] = IF n \in met THEN v.inView[n] - 1 ELSE v.inView[n]
          BY <1>1, <1>6, <2>4
        <4>3. CASE n \notin tr
          BY <1>4, <4>1, <4>2, <4>3
        <4>4. CASE n \in tr
          <5> DEFINE S == PlayersNear(v, tr, v.at[n])
          <5>1. IsFiniteSet(S)
            BY PlayersNearFinite
          <5>2. n \in met <=> p \in S
            <6>1. v.at[n] \in ChunkPos
              BY <1>1, <4>4, WorldFields, TrFacts DEF tr
            <6>2. Beside(v.at[n], from) <=> Beside(from, v.at[n])
              BY <1>2, <6>1, PositionFacts
            <6> QED
              BY <1>0, <1>4, <1>9, <4>4, <6>2 DEF PlayersNear
          <5>3. PlayersNear(y, rest, y.at[n]) = S \ {p}
            BY <2>5, <2>8, <4>2, <4>4
          <5> HIDE DEF S
          <5>4. Cardinality(S \ {p}) = IF p \in S THEN Cardinality(S) - 1 ELSE Cardinality(S)
            BY <5>1, OneMoreOrLess
          <5> QED
            BY <4>1, <4>2, <4>4, <5>2, <5>3, <5>4 DEF S
        <4> QED
          BY <4>3, <4>4
      <3> QED
        BY <3>1 DEF Counted
    <2>10. Shown(y, rest)
      <3>1. ASSUME NEW q \in Player
            PROVE  y.shown[q] = IF q \in rest THEN PlayersNear(y, rest, y.at[q]) \ {q} ELSE {}
        <4>1. CASE q = p
          BY <2>4, <4>1
        <4>2. CASE q # p
          <5>1. v.shown[q] = IF q \in tr THEN PlayersNear(v, tr, v.at[q]) \ {q} ELSE {}
            BY <1>3 DEF Shown
          <5>2. y.shown[q] = IF q \in met THEN v.shown[q] \ {p} ELSE v.shown[q]
            BY <1>6, <2>4, <4>2
          <5>3. CASE q \notin tr
            BY <1>4, <5>1, <5>2, <5>3
          <5>4. CASE q \in tr
            <6>1. v.at[q] \in ChunkPos
              BY <1>1, <5>4, WorldFields, TrFacts DEF tr
            <6>2. Beside(v.at[q], from) <=> Beside(from, v.at[q])
              BY <1>2, <6>1, PositionFacts
            <6>3. q \in met <=> p \in PlayersNear(v, tr, v.at[q])
              BY <1>0, <1>4, <1>9, <5>4, <6>2 DEF PlayersNear
            <6>4. PlayersNear(y, rest, y.at[q]) = PlayersNear(v, tr, v.at[q]) \ {p}
              BY <2>5, <2>8, <4>2, <5>4
            <6> QED
              BY <4>2, <5>1, <5>2, <5>4, <6>3, <6>4
          <5> QED
            BY <5>3, <5>4
        <4> QED
          BY <4>1, <4>2
      <3> QED
        BY <3>1 DEF Shown
    <2>11. \A x \in Being \ rest : y.view[x] = {}
      <3>1. \A x \in Being \ tr : v.view[x] = {}
        BY <1>1 DEF Good
      <3> QED
        BY <1>6, <2>1, <2>4, <3>1 DEF SameBeings
    <2>12. Good(y, rest)
      BY <2>6, <2>7, <2>9, <2>10, <2>11 DEF Good
    <2>13. Tr(y) = rest
      <3>1. Nowhere \notin Standing
        BY SpecialPositions
      <3>2. \A x \in Being : y.at[x] \in Standing <=> x \in rest
        BY <1>0, <2>4, <3>1 DEF Tr
      <3> QED
        BY <1>1, <3>2 DEF Tr
    <2>14. \A x \in Being : y.at[x] \in Standing \cup {NullChunk, Nowhere}
      BY <2>4 DEF Whole
    <2> QED
      BY <1>0, <2>4, <2>12, <2>13, <2>14 DEF Whole
  <1> QED
    BY <1>8, <1>9

-----------------------------------------------------------------------------
(***************************************************************************)
(* Instances.                                                              *)
(***************************************************************************)
PlayersIn(v, i) == {p \in Player : v.at[p] \in Standing /\ v.at[p].inst = i}
NpcsIn(v, i) == {n \in Npc : v.at[n] \in Standing /\ v.at[n].inst = i}

LEMMA ThoseInMap ==
    ASSUME NEW v, Whole(v), NEW i
    PROVE  /\ In(v, ChunksInMap(v, i)) = PlayersIn(v, i) \cup NpcsIn(v, i)
           /\ In(v, ChunksInMap(v, i)) \cap Player = PlayersIn(v, i)
           /\ In(v, ChunksInMap(v, i)) \cap Npc = NpcsIn(v, i)
           /\ ChunksInMap(v, i) = {} <=> PlayersIn(v, i) = {} /\ NpcsIn(v, i) = {}
  <1> DEFINE cs == ChunksInMap(v, i)
             tr == Tr(v)
  <1>1. cs \in SUBSET DOMAIN v.chunks /\ \A d \in DOMAIN v.chunks : d \in cs <=> d.inst = i
    BY DEF ChunksInMap
  <1>2. Good(v, tr) /\ Filed(v, tr) /\ DOMAIN v.chunks = {v.at[x] : x \in tr}
    BY TrFacts DEF Good
  <1>3. In(v, cs) = {x \in tr : v.at[x] \in cs}
    BY <1>1, <1>2, InIsThere
  <1>4. \A x \in tr : v.at[x] \in cs <=> v.at[x].inst = i
    BY <1>1, <1>2
  <1>5. tr = {b \in Being : v.at[b] \in Standing}
    BY DEF Tr
  <1>6. Being = Player \cup Npc /\ Player \cap Npc = {}
    BY ChunkConstants DEF Being
  <1> HIDE DEF tr, cs
  <1>7. In(v, cs) = PlayersIn(v, i) \cup NpcsIn(v, i)
    BY <1>3, <1>4, <1>5, <1>6 DEF PlayersIn, NpcsIn
  <1>8. PlayersIn(v, i) \in SUBSET Player /\ NpcsIn(v, i) \in SUBSET Npc
    BY DEF PlayersIn, NpcsIn
  <1>9. cs = {} <=> In(v, cs) = {}
    <2>1. cs = {} => In(v, cs) = {}
      BY <1>3
    <2>2. ASSUME NEW d \in cs PROVE In(v, cs) # {}
      <3>1. PICK x \in tr : v.at[x] = d
        BY <1>1, <1>2
      <3> QED
        BY <1>3, <3>1
    <2> QED
      BY <2>1, <2>2
  <1> QED
    BY <1>6, <1>7, <1>8, <1>9 DEF cs

\* While the NPCs in T are destroyed.
Emptying(v, T, u) ==
    /\ Whole(u) /\ (\A x \in Being \ T : u.at[x] = v.at[x])
    /\ (\A n \in Npc \ T : u.of[n] = v.of[n]) /\ \A n \in T : u.at[n] = Nowhere

LEMMA EmptyingStep ==
    ASSUME NEW v, NEW T \in SUBSET Npc, NEW n \in T, v.at[n] \in Standing, NEW u, Emptying(v, T \ {n}, u)
    PROVE  Emptying(v, T, Destroyed(u, n))
  <1> DEFINE t == Destroyed(u, n)
  <1>1. n \in Being /\ n \in Npc /\ u.at[n] = v.at[n] /\ Whole(u)
    BY DEF Emptying, Being
  <1>2. n \in Tr(u)
    BY <1>1 DEF Tr
  <1>3. Whole(t) /\ Leaves(u, t, n)
    BY <1>1, <1>2, DestroyedOK
  <1> HIDE DEF t
  <1>4. Emptying(v, T, t)
    <2>1. /\ t.at[n] = Nowhere /\ (\A x \in Being \ {n} : t.at[x] = u.at[x])
          /\ \A m \in Npc \ {n} : t.of[m] = u.of[m]
      BY <1>3 DEF Leaves
    <2>2. /\ (\A x \in Being \ (T \ {n}) : u.at[x] = v.at[x])
          /\ (\A m \in Npc \ (T \ {n}) : u.of[m] = v.of[m]) /\ \A m \in T \ {n} : u.at[m] = Nowhere
      BY DEF Emptying
    <2>3. \A x \in Being \ T : t.at[x] = v.at[x]
      BY <2>1, <2>2
    <2>4. \A m \in Npc \ T : t.of[m] = v.of[m]
      BY <2>1, <2>2
    <2>5. \A m \in T : t.at[m] = Nowhere
      BY <2>1, <2>2 DEF Being
    <2> QED
      BY <1>3, <2>3, <2>4, <2>5 DEF Emptying
  <1> QED
    BY <1>4 DEF t

LEMMA EmptiedOK ==
    ASSUME NEW v, Whole(v), NEW D \in SUBSET Npc, \A n \in D : v.at[n] \in Standing
    PROVE  Emptying(v, D, FoldSet(LAMBDA n, u : Destroyed(u, n), v, D))
  <1> DEFINE I == {x \in (SUBSET D) \X World : Emptying(v, x[1], x[2])}
             next == [x \in D \X World |-> Destroyed(x[2], x[1])]
             Turn(it) == it = [T \in SUBSET D |-> IF T = {} THEN v
                                                  ELSE Destroyed(it[T \ {AnyOf(T)}], AnyOf(T))]
             all == CHOOSE it : Turn(it)
  <1>1. IsFiniteSet(D) /\ v \in World
    BY ChunkConstants, FS_Subset DEF Whole
  <1>2. \A T \in SUBSET D : \A u \in World : <<T, u>> \in I <=> Emptying(v, T, u)
    OBVIOUS
  <1>3. \A T \in SUBSET D : T # {} => AnyOf(T) \in T
    BY DEF AnyOf
  <1>4. ASSUME NEW T \in SUBSET D, NEW u \in World, T # {}, Emptying(v, T \ {AnyOf(T)}, u)
        PROVE  Emptying(v, T, Destroyed(u, AnyOf(T))) /\ Destroyed(u, AnyOf(T)) \in World
    <2>1. AnyOf(T) \in T /\ v.at[AnyOf(T)] \in Standing /\ T \in SUBSET Npc
      BY <1>3, <1>4
    <2>2. Emptying(v, T, Destroyed(u, AnyOf(T)))
      BY <1>4, <2>1, EmptyingStep
    <2> QED
      BY <2>2 DEF Emptying, Whole
  <1>5. Emptying(v, {}, v)
    BY DEF Emptying
  <1>6. <<{}, v>> \in I /\ I \in SUBSET ((SUBSET D) \X World)
    BY <1>1, <1>5
  <1>7. \A T \in SUBSET D : \A u \in World :
            T # {} => T \ {AnyOf(T)} \in SUBSET D /\ next[<<AnyOf(T), u>>] = Destroyed(u, AnyOf(T))
    BY <1>3
  <1>8. ASSUME NEW T \in SUBSET D, NEW u \in World, T # {}, <<T \ {AnyOf(T)}, u>> \in I
        PROVE  <<T, next[<<AnyOf(T), u>>]>> \in I
    <2>1. Emptying(v, T \ {AnyOf(T)}, u)
      BY <1>2, <1>7, <1>8
    <2>2. Emptying(v, T, Destroyed(u, AnyOf(T))) /\ Destroyed(u, AnyOf(T)) \in World
      BY <1>4, <1>8, <2>1
    <2> HIDE DEF I, next
    <2> QED
      BY <1>2, <1>7, <1>8, <2>2
  <1> HIDE DEF I, next
  <1>9. \E f \in [SUBSET D -> World] : Folded(f, D, v, next) /\ \A T \in SUBSET D : <<T, f[T]>> \in I
    <2>1. FoldKeeps(D, World, I, next)
      BY <1>8 DEF FoldKeeps
    <2>2. Foldable(D, World, I, v, next)
      BY <1>1, <1>6, <2>1, FoldedExists
    <2> QED
      BY <2>2 DEF Foldable
  <1>10. PICK it \in [SUBSET D -> World] : Folded(it, D, v, next) /\ \A T \in SUBSET D : <<T, it[T]>> \in I
    BY <1>9
  <1>11. Turn(it)
    BY <1>7, <1>10 DEF Folded
  <1>12. Turn(all)
    <2> HIDE DEF Turn
    <2> QED
      BY <1>11
  <1>13. FoldSet(LAMBDA n, u : Destroyed(u, n), v, D) = all[D]
    BY DEF FoldSet, MapThenFoldSet, AnyOf
  <1> HIDE DEF all
  <1>14. all[{}] = v /\ \A T \in SUBSET D : T # {} => all[T] = Destroyed(all[T \ {AnyOf(T)}], AnyOf(T))
    BY <1>12
  <1> HIDE DEF Turn
  <1>15. <<D, all[D]>> \in I
    <2>1. FoldKeeps(D, World, I, next)
      BY <1>8 DEF FoldKeeps
    <2>2. FoldTakes(D, World, v, next, all)
      BY <1>7, <1>14 DEF FoldTakes
    <2> QED
      BY <1>1, <1>6, <2>1, <2>2, FoldDone
  <1>16. Emptying(v, D, all[D])
    BY <1>15 DEF I
  <1> QED
    BY <1>13, <1>16

-----------------------------------------------------------------------------
(***************************************************************************)
(* Settled worlds: no NPC waits at the null chunk, and the NPCs of the     *)
(* templates are where they belong.  LivedIn: a private instance with an   *)
(* NPC has a player, all but perhaps one.                                  *)
(***************************************************************************)
Settled(v) ==
    /\ Whole(v) /\ \A n \in Npc : v.at[n] # NullChunk
    /\ \A n \in DOMAIN FirstNpcs : v.at[n] \in Standing /\ v.at[n].inst = FirstNpcs[n].inst
LivedIn(v, i) ==
    \A n \in Npc : v.at[n] \in Standing /\ PlayerId(v.at[n].inst) # None /\ v.at[n].inst # i =>
        PlayersIn(v, v.at[n].inst) # {}
Inhabited(v) ==
    \A n \in Npc : v.at[n] \in Standing /\ PlayerId(v.at[n].inst) # None =>
        PlayersIn(v, v.at[n].inst) # {}

LEMMA FirstFacts ==
    ASSUME NEW n \in DOMAIN FirstNpcs
    PROVE  n \in Npc /\ n \in Being /\ FirstNpcs[n].spot \in Spot /\ FirstNpcs[n].inst \in Instance
           /\ PlayerId(FirstNpcs[n].inst) = None
  BY ChunksAssumption DEF Being, Instance, PlayerId

LeftAs(v, u, i) ==
    /\ Settled(u) /\ (\A p \in Player : u.at[p] = v.at[p])
    /\ (\A n \in Npc : u.at[n] \in {v.at[n], Nowhere})
    /\ PlayerId(i) # None /\ NpcsIn(u, i) # {} => PlayersIn(v, i) # {}

LEMMA InstanceLeftOK ==
    ASSUME NEW v, Settled(v), NEW i
    PROVE  LeftAs(v, InstanceLeft(v, i), i)
  <1>0. Whole(v)
    BY DEF Settled
  <1>1. CASE PlayerId(i) = None \/ In(v, ChunksInMap(v, i)) \cap Player # {}
    <2>1. InstanceLeft(v, i) = v
      BY <1>1 DEF InstanceLeft
    <2>2. PlayerId(i) # None => PlayersIn(v, i) # {}
      BY <1>0, <1>1, ThoseInMap
    <2> QED
      BY <2>1, <2>2 DEF LeftAs
  <1>2. CASE ~(PlayerId(i) = None \/ In(v, ChunksInMap(v, i)) \cap Player # {})
    <2> DEFINE D == NpcsIn(v, i)
               u == InstanceLeft(v, i)
    <2>1. In(v, ChunksInMap(v, i)) = D
      BY <1>0, <1>2, ThoseInMap
    <2>2. u = FoldSet(LAMBDA n, x : Destroyed(x, n), v, D)
      BY <1>2, <2>1 DEF InstanceLeft
    <2>3. D \in SUBSET Npc /\ (\A n \in D : v.at[n] \in Standing /\ v.at[n].inst = i)
          /\ \A n \in Npc : v.at[n] \in Standing /\ v.at[n].inst = i => n \in D
      BY DEF NpcsIn
    <2> HIDE DEF D
    <2>4. Emptying(v, D, u)
      <3>1. Emptying(v, D, FoldSet(LAMBDA n, x : Destroyed(x, n), v, D))
        BY <1>0, <2>3, EmptiedOK
      <3> QED
        BY <2>2, <3>1
    <2> HIDE DEF u
    <2>5. /\ Whole(u) /\ (\A p \in Player : u.at[p] = v.at[p])
          /\ (\A n \in D : u.at[n] = Nowhere) /\ \A n \in Npc \ D : u.at[n] = v.at[n]
      BY <2>3, <2>4, ChunkConstants DEF Emptying, Being
    <2>6. \A n \in DOMAIN FirstNpcs : n \notin D /\ n \in Npc
      BY <1>2, <2>3, FirstFacts DEF Settled
    <2>7. Settled(u)
      <3>1. \A n \in Npc : u.at[n] # NullChunk
        BY <2>5, SpecialPositions DEF Settled
      <3> QED
        BY <2>5, <2>6, <3>1 DEF Settled
    <2>8. NpcsIn(u, i) = {}
      <3>1. Nowhere \notin Standing
        BY SpecialPositions
      <3> QED
        BY <2>3, <2>5, <3>1 DEF NpcsIn
    <2> QED
      BY <2>5, <2>7, <2>8 DEF LeftAs, u
  <1> QED
    BY <1>1, <1>2

\* sendPlayerTo.
SentAs(v, u, p, to) ==
    /\ Settled(u) /\ u.at[p] = to /\ (\A q \in Player \ {p} : u.at[q] = v.at[q])
    /\ (\A n \in Npc : u.at[n] \in {v.at[n], Nowhere})

LEMMA SettledAgain ==
    ASSUME NEW v, Settled(v), NEW p \in Player, NEW to, NEW u, Whole(u), GoesTo(v, u, p, to)
    PROVE  Settled(u) /\ (\A n \in Npc : u.at[n] = v.at[n]) /\ \A q \in Player \ {p} : u.at[q] = v.at[q]
  <1>1. \A n \in Npc : u.at[n] = v.at[n]
    BY ChunkConstants DEF GoesTo, Being
  <1> QED
    BY <1>1, FirstFacts DEF Settled, GoesTo, Being

LEMMA SentToOK ==
    ASSUME NEW v, Settled(v), NEW p \in Player, v.at[p] # Nowhere, NEW to \in Standing
    PROVE  /\ SentAs(v, SentTo(v, p, to), p, to)
           /\ LivedIn(v, to.inst) => LivedIn(SentTo(v, p, to), to.inst)
  <1> DEFINE j == v.at[p].inst
             r == Reloaded(v, p, to)
             u == InstanceLeft(r, j)
  <1>1. SentTo(v, p, to) = u
    BY DEF SentTo
  <1>2. Whole(r) /\ GoesTo(v, r, p, to)
    BY ReloadedOK DEF Settled
  <1>0. u = InstanceLeft(r, j) /\ j = v.at[p].inst
    OBVIOUS
  <1> HIDE DEF r, u, j
  <1>3. Settled(r) /\ (\A n \in Npc : r.at[n] = v.at[n]) /\ (\A q \in Player \ {p} : r.at[q] = v.at[q]) /\ r.at[p] = to
    BY <1>2, SettledAgain DEF GoesTo
  <1>4. LeftAs(r, u, j)
    BY <1>0, <1>3, InstanceLeftOK
  <1>5. SentAs(v, u, p, to)
    BY <1>3, <1>4 DEF LeftAs, SentAs
  <1>6. ASSUME LivedIn(v, to.inst)
        PROVE  LivedIn(u, to.inst)
    <2>1. ASSUME NEW n \in Npc, u.at[n] \in Standing, PlayerId(u.at[n].inst) # None, u.at[n].inst # to.inst
          PROVE  PlayersIn(u, u.at[n].inst) # {}
      <3>1. u.at[n] = v.at[n]
        BY <1>5, <2>1, SpecialPositions DEF SentAs
      <3>2. CASE u.at[n].inst = j
        <4>1. n \in NpcsIn(u, j)
          BY <2>1, <3>2 DEF NpcsIn
        <4>2. PlayersIn(r, j) # {}
          BY <1>4, <2>1, <3>2, <4>1 DEF LeftAs
        <4>3. PlayersIn(u, j) = PlayersIn(r, j)
          BY <1>4 DEF LeftAs, PlayersIn
        <4> QED
          BY <3>2, <4>2, <4>3
      <3>3. CASE u.at[n].inst # j
        <4>1. PICK q \in Player : q \in PlayersIn(v, v.at[n].inst)
          BY <1>6, <2>1, <3>1 DEF LivedIn, PlayersIn
        <4>2. q # p
          BY <1>0, <3>1, <3>3, <4>1 DEF PlayersIn
        <4>3. u.at[q] = v.at[q]
          BY <1>5, <4>2 DEF SentAs
        <4> QED
          BY <3>1, <4>1, <4>3 DEF PlayersIn
      <3> QED
        BY <3>2, <3>3
    <2> QED
      BY <2>1 DEF LivedIn
  <1> QED
    BY <1>1, <1>5, <1>6

\* Where somebody is, the instance is lived in.
LEMMA SomebodyIsThere ==
    ASSUME NEW v, NEW i, LivedIn(v, i), PlayersIn(v, i) # {}
    PROVE  Inhabited(v)
  BY DEF LivedIn, Inhabited

LEMMA InhabitedIsLivedIn ==
    ASSUME NEW v, NEW i, Inhabited(v)
    PROVE  LivedIn(v, i)
  BY DEF LivedIn, Inhabited

LEMMA SentStaysInhabited ==
    ASSUME NEW v, Settled(v), NEW p \in Player, v.at[p] # Nowhere, NEW to \in Standing, LivedIn(v, to.inst)
    PROVE  Inhabited(SentTo(v, p, to)) /\ SentAs(v, SentTo(v, p, to), p, to)
  <1> DEFINE u == SentTo(v, p, to)
  <1>1. SentAs(v, u, p, to) /\ LivedIn(u, to.inst)
    BY SentToOK
  <1> HIDE DEF u
  <1>2. PlayersIn(u, to.inst) # {}
    BY <1>1 DEF SentAs, PlayersIn
  <1>3. Inhabited(u)
    BY <1>1, <1>2, SomebodyIsThere
  <1> QED
    BY <1>1, <1>3 DEF u

-----------------------------------------------------------------------------
(***************************************************************************)
(* New NPCs.                                                               *)
(***************************************************************************)
Fresh(v, n, kind) == [v EXCEPT !.at[n] = NullChunk, !.of[n] = kind]
LEMMA FreshOK ==
    ASSUME NEW v, Whole(v), NEW n \in Npc, v.at[n] = Nowhere, NEW kind \in Npc \cup {None}
    PROVE  LET u == Fresh(v, n, kind)
           IN  Whole(u) /\ u.at[n] = NullChunk /\ \A x \in Being \ {n} : u.at[x] = v.at[x]
  <1> DEFINE a == [v.at EXCEPT ![n] = NullChunk]
             b == [v.of EXCEPT ![n] = kind]
             u == Fresh(v, n, kind)
             tr == Tr(v)
  <1>0. n \in Being /\ n \notin tr /\ NullChunk \in ChunkPos
    BY SpecialPositions DEF Being, Tr
  <1>1. v \in World /\ tr \in SUBSET Being /\ Good(v, tr)
    BY TrFacts
  <1>2. a \in [Being -> ChunkPos \cup {Nowhere}] /\ a[n] = NullChunk /\ \A x \in Being \ {n} : a[x] = v.at[x]
    BY <1>0, <1>1, WorldFields
  <1>3. b \in [Npc -> Npc \cup {None}]
    BY <1>1, WorldFields
  <1>4. u = [v EXCEPT !.at = a, !.of = b]
    BY <1>1 DEF World, Fresh
  <1> HIDE DEF a, b, u, tr
  <1>5. /\ u \in World /\ u.chunks = v.chunks /\ u.view = v.view /\ u.inView = v.inView /\ u.shown = v.shown
        /\ u.at = a
    BY <1>1, <1>2, <1>3, <1>4 DEF World
  <1>6. u.at[n] = NullChunk /\ (\A x \in Being \ {n} : u.at[x] = v.at[x]) /\ \A x \in tr : u.at[x] = v.at[x]
    BY <1>0, <1>1, <1>2, <1>5
  <1>7. Filed(u, tr) /\ Seen(u, tr) /\ DOMAIN u.chunks = {u.at[x] : x \in tr}
    BY <1>1, <1>5, <1>6 DEF Filed, Seen, Good
  <1>8. \A c : PlayersNear(u, tr, c) = PlayersNear(v, tr, c)
    BY <1>6 DEF PlayersNear
  <1>9. Counted(u, tr)
    BY <1>1, <1>5, <1>6, <1>8 DEF Good, Counted
  <1>10. Shown(u, tr)
    <2>1. ASSUME NEW q \in Player
          PROVE  u.shown[q] = IF q \in tr THEN PlayersNear(u, tr, u.at[q]) \ {q} ELSE {}
      <3>1. v.shown[q] = IF q \in tr THEN PlayersNear(v, tr, v.at[q]) \ {q} ELSE {}
        BY <1>1 DEF Good, Shown
      <3> QED
        BY <1>5, <1>6, <1>8, <3>1
    <2> QED
      BY <2>1 DEF Shown
  <1>11. Good(u, tr)
    BY <1>1, <1>5, <1>7, <1>9, <1>10 DEF Good
  <1>12. Tr(u) = tr
    <2>1. NullChunk \notin Standing /\ tr = Tr(v)
      BY SpecialPositions DEF tr
    <2>2. \A x \in Being : u.at[x] \in Standing <=> x \in tr
      BY <1>0, <1>6, <2>1 DEF Tr
    <2> QED
      BY <2>1, <2>2 DEF Tr
  <1>13. \A x \in Being : u.at[x] \in Standing \cup {NullChunk, Nowhere}
    BY <1>6 DEF Whole
  <1> QED
    BY <1>5, <1>6, <1>11, <1>12, <1>13 DEF Whole, u

LEMMA SpawnOK ==
    ASSUME NEW v, Whole(v), NEW n \in Npc, v.at[n] = Nowhere, NEW kind \in Npc \cup {None}, NEW to \in Standing
    PROVE  LET u == Placed(Fresh(v, n, kind), n, to)
           IN  Whole(u) /\ u.at[n] = to /\ \A x \in Being \ {n} : u.at[x] = v.at[x]
  <1> DEFINE t == Fresh(v, n, kind)
             u == Placed(t, n, to)
  <1>1. Whole(t) /\ t.at[n] = NullChunk /\ \A x \in Being \ {n} : t.at[x] = v.at[x]
    BY FreshOK
  <1>2. n \in Being /\ t.at[n] # Nowhere
    BY <1>1, SpecialPositions DEF Being
  <1>0. u = Placed(t, n, to) /\ u = Placed(Fresh(v, n, kind), n, to)
    OBVIOUS
  <1> HIDE DEF t, u
  <1>3. Whole(u) /\ GoesTo(t, u, n, to)
    BY <1>0, <1>1, <1>2, PlacedOK
  <1> QED
    BY <1>0, <1>1, <1>3 DEF GoesTo

\* new Mob or new BaseNPC.
SummonedAs(v, u, to) ==
    /\ Settled(u) /\ (\A p \in Player : u.at[p] = v.at[p])
    /\ \E n \in Unused(v) : u.at[n] = to /\ \A m \in Npc \ {n} : u.at[m] = v.at[m]
LEMMA SummonedOK ==
    ASSUME NEW v, Settled(v), Unused(v) # {}, NEW kind \in Npc \cup {None}, NEW to \in Standing
    PROVE  SummonedAs(v, Summoned(v, kind, to), to)
  <1> DEFINE n == Min(Unused(v))
             u == Summoned(v, kind, to)
  <1>1. n \in Unused(v)
    <2>1. Unused(v) \in SUBSET Nat
      BY ChunkConstants DEF Unused
    <2> QED
      BY <2>1, MinIsLeast
  <1>2. n \in Npc /\ v.at[n] = Nowhere /\ n \notin DOMAIN FirstNpcs
    BY <1>1 DEF Unused
  <1>3. u = Placed(Fresh(v, n, kind), n, to)
    BY DEF Summoned, Fresh
  <1>0. u = Summoned(v, kind, to)
    OBVIOUS
  <1> HIDE DEF n, u
  <1>4. Whole(u) /\ u.at[n] = to /\ \A x \in Being \ {n} : u.at[x] = v.at[x]
    BY <1>2, <1>3, SpawnOK DEF Settled
  <1>5. (\A p \in Player : u.at[p] = v.at[p]) /\ \A m \in Npc \ {n} : u.at[m] = v.at[m]
    BY <1>2, <1>4, ChunkConstants DEF Being
  <1>6. \A m \in Npc : u.at[m] # NullChunk
    BY <1>4, <1>5, SpecialPositions DEF Settled
  <1>7. \A m \in DOMAIN FirstNpcs : u.at[m] = v.at[m]
    BY <1>2, <1>5, FirstFacts
  <1>8. Settled(u)
    BY <1>4, <1>6, <1>7 DEF Settled
  <1> QED
    BY <1>0, <1>1, <1>4, <1>5, <1>8 DEF SummonedAs

\* While the NPCs in T are copied to the instance i.
Copying(v, i, T, u) ==
    /\ Settled(u) /\ (\A p \in Player : u.at[p] = v.at[p])
    /\ (\A n \in Npc : u.at[n] = v.at[n] \/ (u.at[n] \in Standing /\ u.at[n].inst = i))
    /\ Cardinality(Unused(u)) >= Cardinality(Unused(v)) - Cardinality(T)

LEMMA UnusedFinite ==
    ASSUME NEW v
    PROVE  IsFiniteSet(Unused(v)) /\ Cardinality(Unused(v)) \in Nat /\ (Cardinality(Unused(v)) > 0 => Unused(v) # {})
  <1>1. Unused(v) \in SUBSET Npc
    BY DEF Unused
  <1>2. IsFiniteSet(Unused(v)) /\ Cardinality(Unused(v)) \in Nat
    BY <1>1, ChunkConstants, FS_Subset, FS_CardinalityType
  <1> QED
    BY <1>2, FS_EmptySet

LEMMA CopyingStep ==
    ASSUME NEW v, NEW i \in Instance, NEW T, IsFiniteSet(T), NEW x \in T,
           Cardinality(Unused(v)) >= Cardinality(T), NEW u, Copying(v, i, T \ {x}, u),
           NEW kind \in Npc \cup {None}, NEW s \in Spot
    PROVE  Copying(v, i, T, Summoned(u, kind, At(s, i)))
  <1> DEFINE to == At(s, i)
             t == Summoned(u, kind, to)
  <1>1. Cardinality(T \ {x}) = Cardinality(T) - 1 /\ Cardinality(T) \in Nat
    BY FS_RemoveElement, FS_CardinalityType
  <1>2. Cardinality(Unused(u)) >= Cardinality(Unused(v)) - (Cardinality(T) - 1) /\ Settled(u)
    BY <1>1 DEF Copying
  <1>3. Unused(u) # {}
    BY <1>1, <1>2, UnusedFinite
  <1>4. to \in Standing /\ to.inst = i
    BY SpecialPositions
  <1>5. SummonedAs(u, t, to)
    BY <1>2, <1>3, <1>4, SummonedOK
  <1> HIDE DEF t, to
  <1>6. PICK n \in Unused(u) : t.at[n] = to /\ \A m \in Npc \ {n} : t.at[m] = u.at[m]
    BY <1>5 DEF SummonedAs
  <1>7. n \in Npc /\ Nowhere # to
    BY <1>4, <1>6, SpecialPositions DEF Unused
  <1>8. Unused(t) = Unused(u) \ {n}
    BY <1>6, <1>7 DEF Unused
  <1>9. Cardinality(Unused(t)) = Cardinality(Unused(u)) - 1
    BY <1>6, <1>8, UnusedFinite, FS_RemoveElement
  <1>10. Cardinality(Unused(t)) >= Cardinality(Unused(v)) - Cardinality(T)
    BY <1>1, <1>2, <1>9, UnusedFinite
  <1>11. \A m \in Npc : t.at[m] = v.at[m] \/ (t.at[m] \in Standing /\ t.at[m].inst = i)
    BY <1>4, <1>6 DEF Copying
  <1>12. \A p \in Player : t.at[p] = v.at[p]
    BY <1>5 DEF SummonedAs, Copying
  <1>13. Copying(v, i, T, t)
    BY <1>5, <1>10, <1>11, <1>12 DEF Copying, SummonedAs
  <1> QED
    BY <1>13 DEF t, to

CopyAll(v, i, D) == FoldSet(LAMBDA n, u : Summoned(u, v.of[n], At(v.at[n].at, i)), v, D)
LEMMA CopiesOK ==
    ASSUME NEW v, Settled(v), NEW i \in Instance, NEW D \in SUBSET Npc, \A n \in D : v.at[n] \in Standing,
           Cardinality(Unused(v)) >= Cardinality(D)
    PROVE  Copying(v, i, D, CopyAll(v, i, D))
  <1> DEFINE Op(n, u) == Summoned(u, v.of[n], At(v.at[n].at, i))
             I == {x \in (SUBSET D) \X World : Copying(v, i, x[1], x[2])}
             next == [x \in D \X World |-> Op(x[1], x[2])]
             Turn(it) == it = [T \in SUBSET D |-> IF T = {} THEN v
                                                  ELSE Op(AnyOf(T), it[T \ {AnyOf(T)}])]
             all == CHOOSE it : Turn(it)
  <1>1. IsFiniteSet(D) /\ v \in World
    BY ChunkConstants, FS_Subset DEF Settled, Whole
  <1>2. \A T \in SUBSET D : \A u \in World : <<T, u>> \in I <=> Copying(v, i, T, u)
    OBVIOUS
  <1>3. \A T \in SUBSET D : T # {} => AnyOf(T) \in T
    BY DEF AnyOf
  <1>4. ASSUME NEW T \in SUBSET D, NEW u \in World, T # {}, Copying(v, i, T \ {AnyOf(T)}, u)
        PROVE  Copying(v, i, T, Op(AnyOf(T), u)) /\ Op(AnyOf(T), u) \in World
    <2> DEFINE n == AnyOf(T)
    <2>1. n \in T /\ n \in Npc /\ v.at[n] \in Standing
      BY <1>3, <1>4
    <2>2. v.of[n] \in Npc \cup {None} /\ v.at[n].at \in Spot
      BY <1>1, <2>1, WorldFields DEF Standing
    <2>3. IsFiniteSet(T) /\ Cardinality(T) <= Cardinality(D) /\ Cardinality(T) \in Nat /\ Cardinality(D) \in Nat
      BY <1>1, FS_Subset, FS_CardinalityType
    <2>4. Cardinality(Unused(v)) >= Cardinality(T)
      BY <2>3, UnusedFinite
    <2> DEFINE kind == v.of[n]
               s == v.at[n].at
    <2>5. Op(n, u) = Summoned(u, kind, At(s, i)) /\ kind \in Npc \cup {None} /\ s \in Spot
      BY <2>2
    <2>6. Copying(v, i, T \ {n}, u)
      BY <1>4
    <2> HIDE DEF n, kind, s, Op
    <2>7. Copying(v, i, T, Op(n, u))
      <3>1. Copying(v, i, T, Summoned(u, kind, At(s, i)))
        BY <2>1, <2>3, <2>4, <2>5, <2>6, CopyingStep
      <3> QED
        BY <2>5, <3>1
    <2>8. Op(n, u) \in World
      BY <2>7 DEF Copying, Settled, Whole
    <2> QED
      BY <2>7, <2>8 DEF n
  <1>5. Copying(v, i, {}, v)
    <2> DEFINE k == Cardinality(Unused(v))
    <2>1. Cardinality({}) = 0
      BY FS_EmptySet
    <2>2. k \in Nat
      BY UnusedFinite
    <2> HIDE DEF k
    <2>3. k >= k - Cardinality({})
      BY <2>1, <2>2
    <2> QED
      <3>1. Cardinality(Unused(v)) >= Cardinality(Unused(v)) - Cardinality({})
        BY <2>3 DEF k
      <3> QED
        BY <3>1 DEF Copying
  <1>6. <<{}, v>> \in I /\ I \in SUBSET ((SUBSET D) \X World)
    BY <1>1, <1>5
  <1>7. \A T \in SUBSET D : \A u \in World :
            T # {} => T \ {AnyOf(T)} \in SUBSET D /\ next[<<AnyOf(T), u>>] = Op(AnyOf(T), u)
    BY <1>3
  <1> HIDE DEF Op
  <1>8. FoldKeeps(D, World, I, next)
    <2>1. ASSUME NEW T \in SUBSET D, NEW u \in World, T # {}, <<T \ {AnyOf(T)}, u>> \in I
          PROVE  <<T, next[<<AnyOf(T), u>>]>> \in I
      <3>1. Copying(v, i, T \ {AnyOf(T)}, u)
        BY <1>2, <1>7, <2>1
      <3>2. Copying(v, i, T, Op(AnyOf(T), u)) /\ Op(AnyOf(T), u) \in World
        BY <1>4, <2>1, <3>1
      <3> HIDE DEF I, next
      <3> QED
        BY <1>2, <1>7, <2>1, <3>2
    <2> HIDE DEF I, next
    <2> QED
      BY <2>1 DEF FoldKeeps
  <1> HIDE DEF I, next
  <1>9. Foldable(D, World, I, v, next)
    BY <1>1, <1>6, <1>8, FoldedExists
  <1>10. PICK it \in [SUBSET D -> World] : Folded(it, D, v, next) /\ \A T \in SUBSET D : <<T, it[T]>> \in I
    BY <1>9 DEF Foldable
  <1>11. Turn(it)
    BY <1>7, <1>10 DEF Folded
  <1>12. Turn(all)
    <2> HIDE DEF Turn
    <2> QED
      BY <1>11
  <1>13. CopyAll(v, i, D) = all[D]
    BY DEF CopyAll, FoldSet, MapThenFoldSet, AnyOf, Op
  <1> HIDE DEF all
  <1>14. FoldTakes(D, World, v, next, all)
    <2>1. all[{}] = v /\ \A T \in SUBSET D : T # {} => all[T] = Op(AnyOf(T), all[T \ {AnyOf(T)}])
      BY <1>12
    <2> HIDE DEF Turn
    <2> QED
      BY <1>7, <2>1 DEF FoldTakes
  <1> HIDE DEF Turn
  <1>15. <<D, all[D]>> \in I
    BY <1>1, <1>6, <1>8, <1>14, FoldDone
  <1>16. Copying(v, i, D, all[D])
    BY <1>15 DEF I
  <1> QED
    BY <1>13, <1>16

\* createInstance.
CreatedAs(v, u, i) ==
    /\ Settled(u) /\ (\A p \in Player : u.at[p] = v.at[p])
    /\ \A n \in Npc : u.at[n] = v.at[n] \/ (u.at[n] \in Standing /\ u.at[n].inst = i)
LEMMA InstanceCreatedOK ==
    ASSUME NEW v, Settled(v), NEW i \in Instance, Cardinality(Unused(v)) >= Cardinality(Copied(v, i))
    PROVE  CreatedAs(v, InstanceCreated(v, i), i)
  <1>1. CASE ChunksInMap(v, i) # {}
    <2>1. InstanceCreated(v, i) = v
      BY <1>1 DEF InstanceCreated
    <2> QED
      BY <2>1 DEF CreatedAs
  <1>2. CASE ChunksInMap(v, i) = {}
    <2> DEFINE D == Copied(v, i)
               u == InstanceCreated(v, i)
    <2>1. u = CopyAll(v, i, D)
      BY <1>2 DEF InstanceCreated, CopyAll
    <2>2. D \in SUBSET Npc /\ \A n \in D : v.at[n] \in Standing
      <3>1. Template(v, i) = NpcsIn(v, <<MapNum(i), None>>)
        BY ThoseInMap DEF Template, Settled
      <3>2. ASSUME NEW n \in D PROVE n \in Npc /\ v.at[n] \in Standing
        <4>1. PICK m \in Template(v, i) : n = m \/ n \in Following(m)
          BY DEF Copied
        <4> QED
          BY <3>1, <4>1, FirstFacts DEF NpcsIn, Following, Settled
      <3> QED
        BY <3>2
    <2>3. Cardinality(Unused(v)) >= Cardinality(D)
      OBVIOUS
    <2> HIDE DEF D, u
    <2>4. Copying(v, i, D, u)
      BY <2>1, <2>2, <2>3, CopiesOK
    <2> QED
      BY <2>4 DEF Copying, CreatedAs, u
  <1> QED
    BY <1>1, <1>2

LEMMA CreatedStaysLivedIn ==
    ASSUME NEW v, NEW u, NEW i, CreatedAs(v, u, i), Inhabited(v)
    PROVE  LivedIn(u, i)
  <1>1. \A j : PlayersIn(u, j) = PlayersIn(v, j)
    BY DEF CreatedAs, PlayersIn
  <1> QED
    BY <1>1 DEF CreatedAs, Inhabited, LivedIn

-----------------------------------------------------------------------------
(***************************************************************************)
(* A group is sent, the skyway carries everyone a step, the NPCs are       *)
(* loaded.                                                                 *)
(***************************************************************************)
\* The players in T have been sent.
Going(v, to, T, u) ==
    /\ Settled(u) /\ LivedIn(u, to.inst)
    /\ (\A p \in T : u.at[p] = to) /\ \A p \in Player \ T : u.at[p] = v.at[p]
SendAll(v, to, D) == FoldSet(LAMBDA q, u : SentTo(u, q, to), v, D)

LEMMA GoingStep ==
    ASSUME NEW v, NEW to \in Standing, NEW T \in SUBSET Player, NEW p \in T, v.at[p] # Nowhere,
           NEW u, Going(v, to, T \ {p}, u)
    PROVE  Going(v, to, T, SentTo(u, p, to))
  <1> DEFINE t == SentTo(u, p, to)
  <1>1. p \in Player /\ u.at[p] = v.at[p] /\ Settled(u) /\ LivedIn(u, to.inst)
    BY DEF Going
  <1>2. SentAs(u, t, p, to) /\ LivedIn(t, to.inst)
    BY <1>1, SentToOK
  <1> HIDE DEF t
  <1>3. (\A q \in T : t.at[q] = to) /\ \A q \in Player \ T : t.at[q] = v.at[q]
    BY <1>2 DEF SentAs, Going
  <1>4. Going(v, to, T, t)
    BY <1>2, <1>3 DEF Going, SentAs
  <1> QED
    BY <1>4 DEF t

LEMMA SendAllOK ==
    ASSUME NEW v, Settled(v), NEW to \in Standing, LivedIn(v, to.inst),
           NEW D \in SUBSET Player, \A p \in D : v.at[p] # Nowhere
    PROVE  Going(v, to, D, SendAll(v, to, D))
  <1> DEFINE Op(n, u) == SentTo(u, n, to)
             I == {x \in (SUBSET D) \X World : Going(v, to, x[1], x[2])}
             next == [x \in D \X World |-> Op(x[1], x[2])]
             Turn(it) == it = [T \in SUBSET D |-> IF T = {} THEN v
                                                  ELSE Op(AnyOf(T), it[T \ {AnyOf(T)}])]
             all == CHOOSE it : Turn(it)
  <1>1. IsFiniteSet(D) /\ v \in World
    BY ChunkConstants, FS_Subset DEF Settled, Whole
  <1>2. \A T \in SUBSET D : \A u \in World : <<T, u>> \in I <=> Going(v, to, T, u)
    OBVIOUS
  <1>3. \A T \in SUBSET D : T # {} => AnyOf(T) \in T
    BY DEF AnyOf
  <1>4. ASSUME NEW T \in SUBSET D, NEW u \in World, T # {}, Going(v, to, T \ {AnyOf(T)}, u)
        PROVE  Going(v, to, T, Op(AnyOf(T), u)) /\ Op(AnyOf(T), u) \in World
    <2>1. AnyOf(T) \in T /\ v.at[AnyOf(T)] # Nowhere /\ T \in SUBSET Player
      BY <1>3, <1>4
    <2>2. Going(v, to, T, Op(AnyOf(T), u))
      BY <1>4, <2>1, GoingStep
    <2> QED
      BY <2>2 DEF Going, Settled, Whole
  <1>5. Going(v, to, {}, v)
    BY DEF Going
  <1>6. <<{}, v>> \in I /\ I \in SUBSET ((SUBSET D) \X World)
    BY <1>1, <1>5
  <1>7. \A T \in SUBSET D : \A u \in World :
            T # {} => T \ {AnyOf(T)} \in SUBSET D /\ next[<<AnyOf(T), u>>] = Op(AnyOf(T), u)
    BY <1>3
  <1> HIDE DEF Op
  <1>8. FoldKeeps(D, World, I, next)
    <2>1. ASSUME NEW T \in SUBSET D, NEW u \in World, T # {}, <<T \ {AnyOf(T)}, u>> \in I
          PROVE  <<T, next[<<AnyOf(T), u>>]>> \in I
      <3>1. Going(v, to, T \ {AnyOf(T)}, u)
        BY <1>2, <1>7, <2>1
      <3>2. Going(v, to, T, Op(AnyOf(T), u)) /\ Op(AnyOf(T), u) \in World
        BY <1>4, <2>1, <3>1
      <3> HIDE DEF I, next
      <3> QED
        BY <1>2, <1>7, <2>1, <3>2
    <2> HIDE DEF I, next
    <2> QED
      BY <2>1 DEF FoldKeeps
  <1> HIDE DEF I, next
  <1>9. Foldable(D, World, I, v, next)
    BY <1>1, <1>6, <1>8, FoldedExists
  <1>10. PICK it \in [SUBSET D -> World] : Folded(it, D, v, next) /\ \A T \in SUBSET D : <<T, it[T]>> \in I
    BY <1>9 DEF Foldable
  <1>11. Turn(it)
    BY <1>7, <1>10 DEF Folded
  <1>12. Turn(all)
    <2> HIDE DEF Turn
    <2> QED
      BY <1>11
  <1>13. SendAll(v, to, D) = all[D]
    BY DEF SendAll, FoldSet, MapThenFoldSet, AnyOf, Op
  <1> HIDE DEF all
  <1>14. FoldTakes(D, World, v, next, all)
    <2>1. all[{}] = v /\ \A T \in SUBSET D : T # {} => all[T] = Op(AnyOf(T), all[T \ {AnyOf(T)}])
      BY <1>12
    <2> HIDE DEF Turn
    <2> QED
      BY <1>7, <2>1 DEF FoldTakes
  <1> HIDE DEF Turn
  <1>15. <<D, all[D]>> \in I
    BY <1>1, <1>6, <1>8, <1>14, FoldDone
  <1>16. Going(v, to, D, all[D])
    BY <1>15 DEF I
  <1> QED
    BY <1>13, <1>16

\* Those in T have gone a step.
RodeAs(v, T, u) ==
    /\ Settled(u) /\ (\A n \in Npc : u.at[n] = v.at[n])
    /\ (\A p \in Player : u.at[p].inst = v.at[p].inst)
    /\ (\A p \in T : u.at[p] \in Standing) /\ \A p \in Player \ T : u.at[p] = v.at[p]
RideAll(v, D) == FoldSet(LAMBDA p, u : Placed(u, p, At(Head(queue[p]), u.at[p].inst)), v, D)

LEMMA RodeStep ==
    ASSUME NEW v, NEW T \in SUBSET Player, NEW p \in T, v.at[p] # Nowhere, NEW s \in Spot,
           NEW u, RodeAs(v, T \ {p}, u)
    PROVE  RodeAs(v, T, Placed(u, p, At(s, u.at[p].inst)))
  <1> DEFINE to == At(s, u.at[p].inst)
             t == Placed(u, p, to)
  <1>1. p \in Player /\ p \in Being /\ u.at[p] = v.at[p] /\ Settled(u) /\ Whole(u)
    BY DEF RodeAs, Settled, Being
  <1>2. u.at[p].inst \in Instance
    <2>1. u.at[p] \in Standing \cup {NullChunk}
      BY <1>1 DEF Whole
    <2> QED
      BY <2>1, SpecialPositions DEF Standing
  <1>3. to \in Standing /\ to.inst = u.at[p].inst
    BY <1>2, SpecialPositions
  <1> HIDE DEF to
  <1>4. Whole(t) /\ GoesTo(u, t, p, to)
    BY <1>1, <1>3, PlacedOK
  <1> HIDE DEF t
  <1>5. Settled(t) /\ (\A n \in Npc : t.at[n] = u.at[n]) /\ (\A q \in Player \ {p} : t.at[q] = u.at[q])
    BY <1>1, <1>4, SettledAgain
  <1>6. t.at[p] = to
    BY <1>4 DEF GoesTo
  <1>7. RodeAs(v, T, t)
    BY <1>1, <1>3, <1>5, <1>6 DEF RodeAs
  <1> QED
    BY <1>7 DEF t, to

LEMMA RideAllOK ==
    ASSUME NEW v, Settled(v), NEW D \in SUBSET Player,
           \A p \in D : v.at[p] # Nowhere /\ Head(queue[p]) \in Spot
    PROVE  RodeAs(v, D, RideAll(v, D))
  <1> DEFINE Op(n, u) == Placed(u, n, At(Head(queue[n]), u.at[n].inst))
             I == {x \in (SUBSET D) \X World : RodeAs(v, x[1], x[2])}
             next == [x \in D \X World |-> Op(x[1], x[2])]
             Turn(it) == it = [T \in SUBSET D |-> IF T = {} THEN v
                                                  ELSE Op(AnyOf(T), it[T \ {AnyOf(T)}])]
             all == CHOOSE it : Turn(it)
  <1>1. IsFiniteSet(D) /\ v \in World
    BY ChunkConstants, FS_Subset DEF Settled, Whole
  <1>2. \A T \in SUBSET D : \A u \in World : <<T, u>> \in I <=> RodeAs(v, T, u)
    OBVIOUS
  <1>3. \A T \in SUBSET D : T # {} => AnyOf(T) \in T
    BY DEF AnyOf
  <1>4. ASSUME NEW T \in SUBSET D, NEW u \in World, T # {}, RodeAs(v, T \ {AnyOf(T)}, u)
        PROVE  RodeAs(v, T, Op(AnyOf(T), u)) /\ Op(AnyOf(T), u) \in World
    <2> DEFINE p == AnyOf(T)
               s == Head(queue[p])
    <2>1. p \in T /\ v.at[p] # Nowhere /\ T \in SUBSET Player /\ s \in Spot
      BY <1>3, <1>4
    <2>2. Op(p, u) = Placed(u, p, At(s, u.at[p].inst)) /\ RodeAs(v, T \ {p}, u)
      BY <1>4
    <2> HIDE DEF p, s, Op
    <2>3. RodeAs(v, T, Op(p, u))
      BY <2>1, <2>2, RodeStep
    <2> QED
      BY <2>3 DEF RodeAs, Settled, Whole, p
  <1>5. RodeAs(v, {}, v)
    BY DEF RodeAs
  <1>6. <<{}, v>> \in I /\ I \in SUBSET ((SUBSET D) \X World)
    BY <1>1, <1>5
  <1>7. \A T \in SUBSET D : \A u \in World :
            T # {} => T \ {AnyOf(T)} \in SUBSET D /\ next[<<AnyOf(T), u>>] = Op(AnyOf(T), u)
    BY <1>3
  <1> HIDE DEF Op
  <1>8. FoldKeeps(D, World, I, next)
    <2>1. ASSUME NEW T \in SUBSET D, NEW u \in World, T # {}, <<T \ {AnyOf(T)}, u>> \in I
          PROVE  <<T, next[<<AnyOf(T), u>>]>> \in I
      <3>1. RodeAs(v, T \ {AnyOf(T)}, u)
        BY <1>2, <1>7, <2>1
      <3>2. RodeAs(v, T, Op(AnyOf(T), u)) /\ Op(AnyOf(T), u) \in World
        BY <1>4, <2>1, <3>1
      <3> HIDE DEF I, next
      <3> QED
        BY <1>2, <1>7, <2>1, <3>2
    <2> HIDE DEF I, next
    <2> QED
      BY <2>1 DEF FoldKeeps
  <1> HIDE DEF I, next
  <1>9. Foldable(D, World, I, v, next)
    BY <1>1, <1>6, <1>8, FoldedExists
  <1>10. PICK it \in [SUBSET D -> World] : Folded(it, D, v, next) /\ \A T \in SUBSET D : <<T, it[T]>> \in I
    BY <1>9 DEF Foldable
  <1>11. Turn(it)
    BY <1>7, <1>10 DEF Folded
  <1>12. Turn(all)
    <2> HIDE DEF Turn
    <2> QED
      BY <1>11
  <1>13. RideAll(v, D) = all[D]
    BY DEF RideAll, FoldSet, MapThenFoldSet, AnyOf, Op
  <1> HIDE DEF all
  <1>14. FoldTakes(D, World, v, next, all)
    <2>1. all[{}] = v /\ \A T \in SUBSET D : T # {} => all[T] = Op(AnyOf(T), all[T \ {AnyOf(T)}])
      BY <1>12
    <2> HIDE DEF Turn
    <2> QED
      BY <1>7, <2>1 DEF FoldTakes
  <1> HIDE DEF Turn
  <1>15. <<D, all[D]>> \in I
    BY <1>1, <1>6, <1>8, <1>14, FoldDone
  <1>16. RodeAs(v, D, all[D])
    BY <1>15 DEF I
  <1> QED
    BY <1>13, <1>16

\* The NPCs in T are loaded.
First(n) == At(FirstNpcs[n].spot, FirstNpcs[n].inst)
Populating(T, u) ==
    /\ Whole(u) /\ (\A p \in Player : u.at[p] = Nowhere)
    /\ \A n \in Npc : u.at[n] = IF n \in T THEN First(n) ELSE Nowhere
SpawnAll(v, D) ==
    FoldSet(LAMBDA n, u : Placed([u EXCEPT !.at[n] = NullChunk, !.of[n] = n], n,
                                 At(FirstNpcs[n].spot, FirstNpcs[n].inst)), v, D)

LEMMA PopulatingStep ==
    ASSUME NEW T \in SUBSET DOMAIN FirstNpcs, NEW n \in T, NEW u, Populating(T \ {n}, u)
    PROVE  Populating(T, Placed(Fresh(u, n, n), n, First(n)))
  <1> DEFINE t == Placed(Fresh(u, n, n), n, First(n))
  <1>1. n \in Npc /\ n \in Npc \cup {None} /\ First(n) \in Standing
    BY FirstFacts, SpecialPositions DEF First
  <1>2. u.at[n] = Nowhere /\ Whole(u)
    BY <1>1 DEF Populating
  <1>3. Whole(t) /\ t.at[n] = First(n) /\ \A x \in Being \ {n} : t.at[x] = u.at[x]
    BY <1>1, <1>2, SpawnOK
  <1> HIDE DEF t
  <1>4. \A p \in Player : t.at[p] = Nowhere
    BY <1>1, <1>3, ChunkConstants DEF Populating, Being
  <1>5. \A m \in Npc : t.at[m] = IF m \in T THEN First(m) ELSE Nowhere
    BY <1>1, <1>3 DEF Populating, Being
  <1>6. Populating(T, t)
    BY <1>3, <1>4, <1>5 DEF Populating
  <1> QED
    BY <1>6 DEF t

LEMMA SpawnAllOK ==
    ASSUME NEW v, Populating({}, v), NEW D, D = DOMAIN FirstNpcs
    PROVE  Populating(D, SpawnAll(v, D))
  <1> DEFINE Op(n, u) == Placed(Fresh(u, n, n), n, First(n))
             I == {x \in (SUBSET D) \X World : Populating(x[1], x[2])}
             next == [x \in D \X World |-> Op(x[1], x[2])]
             Turn(it) == it = [T \in SUBSET D |-> IF T = {} THEN v
                                                  ELSE Op(AnyOf(T), it[T \ {AnyOf(T)}])]
             all == CHOOSE it : Turn(it)
  <1>1. IsFiniteSet(D) /\ v \in World
    BY ChunkConstants, FS_Subset DEF Populating, Whole
  <1>2. \A T \in SUBSET D : \A u \in World : <<T, u>> \in I <=> Populating(T, u)
    OBVIOUS
  <1>3. \A T \in SUBSET D : T # {} => AnyOf(T) \in T
    BY DEF AnyOf
  <1>4. ASSUME NEW T \in SUBSET D, NEW u \in World, T # {}, Populating(T \ {AnyOf(T)}, u)
        PROVE  Populating(T, Op(AnyOf(T), u)) /\ Op(AnyOf(T), u) \in World
    <2>1. AnyOf(T) \in T /\ T \in SUBSET DOMAIN FirstNpcs
      BY <1>3, <1>4
    <2>2. Populating(T, Op(AnyOf(T), u))
      BY <1>4, <2>1, PopulatingStep
    <2> QED
      BY <2>2 DEF Populating, Whole
  <1>5. Populating({}, v)
    OBVIOUS
  <1>6. <<{}, v>> \in I /\ I \in SUBSET ((SUBSET D) \X World)
    BY <1>1, <1>5
  <1>7. \A T \in SUBSET D : \A u \in World :
            T # {} => T \ {AnyOf(T)} \in SUBSET D /\ next[<<AnyOf(T), u>>] = Op(AnyOf(T), u)
    BY <1>3
  <1> HIDE DEF Op
  <1>8. FoldKeeps(D, World, I, next)
    <2>1. ASSUME NEW T \in SUBSET D, NEW u \in World, T # {}, <<T \ {AnyOf(T)}, u>> \in I
          PROVE  <<T, next[<<AnyOf(T), u>>]>> \in I
      <3>1. Populating(T \ {AnyOf(T)}, u)
        BY <1>2, <1>7, <2>1
      <3>2. Populating(T, Op(AnyOf(T), u)) /\ Op(AnyOf(T), u) \in World
        BY <1>4, <2>1, <3>1
      <3> HIDE DEF I, next
      <3> QED
        BY <1>2, <1>7, <2>1, <3>2
    <2> HIDE DEF I, next
    <2> QED
      BY <2>1 DEF FoldKeeps
  <1> HIDE DEF I, next
  <1>9. Foldable(D, World, I, v, next)
    BY <1>1, <1>6, <1>8, FoldedExists
  <1>10. PICK it \in [SUBSET D -> World] : Folded(it, D, v, next) /\ \A T \in SUBSET D : <<T, it[T]>> \in I
    BY <1>9 DEF Foldable
  <1>11. Turn(it)
    BY <1>7, <1>10 DEF Folded
  <1>12. Turn(all)
    <2> HIDE DEF Turn
    <2> QED
      BY <1>11
  <1>13. SpawnAll(v, D) = all[D]
    BY DEF SpawnAll, FoldSet, MapThenFoldSet, AnyOf, Op, Fresh, First
  <1> HIDE DEF all
  <1>14. FoldTakes(D, World, v, next, all)
    <2>1. all[{}] = v /\ \A T \in SUBSET D : T # {} => all[T] = Op(AnyOf(T), all[T \ {AnyOf(T)}])
      BY <1>12
    <2> HIDE DEF Turn
    <2> QED
      BY <1>7, <2>1 DEF FoldTakes
  <1> HIDE DEF Turn
  <1>15. <<D, all[D]>> \in I
    BY <1>1, <1>6, <1>8, <1>14, FoldDone
  <1>16. Populating(D, all[D])
    BY <1>15 DEF I
  <1> QED
    BY <1>13, <1>16

-----------------------------------------------------------------------------
(***************************************************************************)
(* Where everyone is, step by step.                                        *)
(***************************************************************************)
Right(v) == Settled(v) /\ Inhabited(v)

LEMMA RightFacts ==
    ASSUME NEW v, Right(v), NEW p \in Player
    PROVE  /\ v.at[p] \in Standing \cup {NullChunk, Nowhere} /\ p \in Being /\ Whole(v)
           /\ v.at[p] \in Standing => v.at[p].inst \in Instance /\ v.at[p].at \in Spot
           /\ MapNum(v.at[p].inst) \in Map
  <1>1. v.at[p] \in Standing \cup {NullChunk, Nowhere} /\ p \in Being /\ Whole(v)
    BY DEF Right, Settled, Whole, Being
  <1>2. v.at[p] \in Standing => v.at[p].inst \in Instance /\ v.at[p].at \in Spot
    BY DEF Standing
  <1>3. CASE v.at[p] \in Standing
    BY <1>1, <1>2, <1>3 DEF Instance, MapNum
  <1>4. CASE v.at[p] \in {NullChunk, Nowhere}
    BY <1>1, <1>2, <1>4 DEF NullChunk, Nowhere, At, Overworld, MapNum, Map
  <1> QED
    BY <1>1, <1>3, <1>4

\* A player who goes nowhere else, or was not there yet.
LEMMA PlayerStays ==
    ASSUME NEW v, Right(v), NEW p \in Player, NEW to, NEW u, Whole(u), GoesTo(v, u, p, to),
           v.at[p] \in Standing => to \in Standing /\ to.inst = v.at[p].inst
    PROVE  Right(u) /\ u.at[p] = to /\ \A q \in Player \ {p} : u.at[q] = v.at[q]
  <1>1. Settled(u) /\ (\A n \in Npc : u.at[n] = v.at[n]) /\ \A q \in Player \ {p} : u.at[q] = v.at[q]
    BY SettledAgain DEF Right
  <1>2. u.at[p] = to
    BY DEF GoesTo
  <1>3. \A i : \A q \in PlayersIn(v, i) : q \in PlayersIn(u, i)
    BY <1>1, <1>2 DEF PlayersIn
  <1>4. Inhabited(u)
    BY <1>1, <1>3 DEF Right, Inhabited
  <1> QED
    BY <1>1, <1>2, <1>4 DEF Right

\* removePlayer.
LEMMA PlayerGone ==
    ASSUME NEW v, Right(v), NEW p \in Player, v.at[p] # Nowhere
    PROVE  LET u == InstanceLeft(TakenOut(v, p), v.at[p].inst)
           IN  Right(u) /\ u.at[p] = Nowhere /\ \A q \in Player \ {p} : u.at[q] = v.at[q]
  <1> DEFINE t == TakenOut(v, p)
             i == v.at[p].inst
             u == InstanceLeft(t, i)
  <1>0. u = InstanceLeft(TakenOut(v, p), v.at[p].inst) /\ u = InstanceLeft(t, i) /\ i = v.at[p].inst
    OBVIOUS
  <1>1. Whole(t) /\ GoesTo(v, t, p, Nowhere)
    BY TakenOutOK DEF Right, Settled
  <1> HIDE DEF t, i, u
  <1>2. /\ Settled(t) /\ (\A n \in Npc : t.at[n] = v.at[n]) /\ (\A q \in Player \ {p} : t.at[q] = v.at[q])
        /\ t.at[p] = Nowhere
    BY <1>1, SettledAgain DEF Right, GoesTo
  <1>3. LeftAs(t, u, i)
    BY <1>0, <1>2, InstanceLeftOK
  <1>4. /\ Settled(u) /\ (\A q \in Player : u.at[q] = t.at[q])
        /\ (\A n \in Npc : u.at[n] \in {v.at[n], Nowhere})
    BY <1>2, <1>3 DEF LeftAs
  <1>5. ASSUME NEW n \in Npc, u.at[n] \in Standing, PlayerId(u.at[n].inst) # None
        PROVE  PlayersIn(u, u.at[n].inst) # {}
    <2>1. u.at[n] = v.at[n]
      BY <1>4, <1>5, SpecialPositions
    <2>2. \A j : PlayersIn(u, j) = PlayersIn(t, j)
      BY <1>4 DEF PlayersIn
    <2>3. CASE u.at[n].inst = i
      <3>1. n \in NpcsIn(u, i)
        BY <1>5, <2>3 DEF NpcsIn
      <3> QED
        BY <1>3, <1>5, <2>2, <2>3, <3>1 DEF LeftAs
    <2>4. CASE u.at[n].inst # i
      <3>1. PICK q \in Player : q \in PlayersIn(v, v.at[n].inst)
        BY <1>5, <2>1 DEF Right, Inhabited, PlayersIn
      <3>2. q # p
        BY <1>0, <2>1, <2>4, <3>1 DEF PlayersIn
      <3> QED
        BY <1>2, <2>1, <2>2, <3>1, <3>2 DEF PlayersIn
    <2> QED
      BY <2>3, <2>4
  <1>6. Right(u)
    BY <1>4, <1>5 DEF Right, Inhabited
  <1> QED
    BY <1>0, <1>2, <1>4, <1>6

\* sendPlayerTo.
LEMMA PlayerSent ==
    ASSUME NEW v, Right(v), NEW p \in Player, v.at[p] # Nowhere, NEW to \in Standing
    PROVE  LET u == SentTo(v, p, to)
           IN  Right(u) /\ u.at[p] = to /\ \A q \in Player \ {p} : u.at[q] = v.at[q]
  <1>1. LivedIn(v, to.inst)
    BY InhabitedIsLivedIn DEF Right
  <1>2. Inhabited(SentTo(v, p, to)) /\ SentAs(v, SentTo(v, p, to), p, to)
    BY <1>1, SentStaysInhabited DEF Right
  <1> QED
    BY <1>2 DEF Right, SentAs

\* To an instance that may have been made for it.
MadeFor(v, i, private) == IF private THEN InstanceCreated(v, i) ELSE v
LEMMA GroupSent ==
    ASSUME NEW v, Right(v), NEW i \in Instance, NEW private \in BOOLEAN,
           private => Cardinality(Unused(v)) >= Cardinality(Copied(v, i)),
           NEW s \in Spot, NEW D \in SUBSET Player, D # {}, \A p \in D : v.at[p] # Nowhere
    PROVE  LET u == SendAll(MadeFor(v, i, private), At(s, i), D)
           IN  Right(u) /\ (\A p \in D : u.at[p] = At(s, i)) /\ \A p \in Player \ D : u.at[p] = v.at[p]
  <1> DEFINE t == MadeFor(v, i, private)
             to == At(s, i)
             u == SendAll(t, to, D)
  <1>0. u = SendAll(MadeFor(v, i, private), At(s, i), D) /\ u = SendAll(t, to, D) /\ to = At(s, i)
    OBVIOUS
  <1>1. to \in Standing /\ to.inst = i
    BY SpecialPositions
  <1>2. Settled(t) /\ LivedIn(t, i) /\ \A p \in Player : t.at[p] = v.at[p]
    <2>1. CASE private
      <3>1. t = InstanceCreated(v, i)
        BY <2>1 DEF MadeFor
      <3>2. CreatedAs(v, t, i)
        BY <2>1, <3>1, InstanceCreatedOK DEF Right
      <3> HIDE DEF t
      <3> QED
        BY <3>2, CreatedStaysLivedIn DEF CreatedAs, Right
    <2>2. CASE ~private
      <3>1. t = v
        BY <2>2 DEF MadeFor
      <3> QED
        BY <3>1, InhabitedIsLivedIn DEF Right
    <2> QED
      BY <2>1, <2>2
  <1> HIDE DEF t, to, u
  <1>3. Going(t, to, D, u)
    BY <1>0, <1>1, <1>2, SendAllOK
  <1>4. PlayersIn(u, i) # {}
    BY <1>1, <1>3 DEF Going, PlayersIn
  <1>5. Right(u)
    BY <1>1, <1>3, <1>4, SomebodyIsThere DEF Going, Right
  <1> QED
    BY <1>0, <1>2, <1>3, <1>5 DEF Going

LEMMA NpcStays ==
    ASSUME NEW v, Right(v), NEW n \in Npc, v.at[n] \in Standing, NEW s \in Spot
    PROVE  LET u == Placed(v, n, At(s, v.at[n].inst))
           IN  Right(u) /\ \A p \in Player : u.at[p] = v.at[p]
  <1> DEFINE to == At(s, v.at[n].inst)
             u == Placed(v, n, to)
  <1>1. v.at[n].inst \in Instance /\ n \in Being /\ v.at[n] # Nowhere
    BY SpecialPositions DEF Standing, Being
  <1>2. to \in Standing /\ to.inst = v.at[n].inst
    BY <1>1, SpecialPositions
  <1>0. u = Placed(v, n, to) /\ u = Placed(v, n, At(s, v.at[n].inst))
    OBVIOUS
  <1> HIDE DEF to, u
  <1>3. Whole(u) /\ GoesTo(v, u, n, to)
    BY <1>0, <1>1, <1>2, PlacedOK DEF Right, Settled
  <1>4. u.at[n] = to /\ (\A m \in Npc \ {n} : u.at[m] = v.at[m]) /\ \A p \in Player : u.at[p] = v.at[p]
    BY <1>3, ChunkConstants DEF GoesTo, Being
  <1>5. Settled(u)
    <2>1. to # NullChunk
      BY <1>2, SpecialPositions
    <2>2. \A m \in DOMAIN FirstNpcs : u.at[m] \in Standing /\ u.at[m].inst = FirstNpcs[m].inst
      BY <1>2, <1>4, FirstFacts DEF Right, Settled
    <2> QED
      BY <1>3, <1>4, <2>1, <2>2 DEF Right, Settled
  <1>6. \A i : PlayersIn(u, i) = PlayersIn(v, i)
    BY <1>4 DEF PlayersIn
  <1>7. Inhabited(u)
    <2>1. ASSUME NEW m \in Npc, u.at[m] \in Standing, PlayerId(u.at[m].inst) # None
          PROVE  PlayersIn(u, u.at[m].inst) # {}
      <3>1. v.at[m] \in Standing /\ u.at[m].inst = v.at[m].inst
        BY <1>2, <1>4, <2>1
      <3> QED
        BY <1>6, <2>1, <3>1 DEF Right, Inhabited
    <2> QED
      BY <2>1 DEF Inhabited
  <1> QED
    BY <1>0, <1>4, <1>5, <1>7 DEF Right

LEMMA NpcComes ==
    ASSUME NEW v, Right(v), Unused(v) # {}, NEW kind \in Npc, NEW p \in Player, v.at[p] \in Standing
    PROVE  LET u == Summoned(v, kind, v.at[p])
           IN  Right(u) /\ \A q \in Player : u.at[q] = v.at[q]
  <1> DEFINE to == v.at[p]
             u == Summoned(v, kind, to)
  <1>0. u = Summoned(v, kind, v.at[p]) /\ to = v.at[p] /\ u = Summoned(v, kind, to)
    OBVIOUS
  <1> HIDE DEF u
  <1>1. SummonedAs(v, u, to)
    BY <1>0, SummonedOK DEF Right
  <1> HIDE DEF to
  <1>2. PICK n \in Unused(v) : u.at[n] = to /\ \A m \in Npc \ {n} : u.at[m] = v.at[m]
    BY <1>1 DEF SummonedAs
  <1>3. Settled(u) /\ \A q \in Player : u.at[q] = v.at[q]
    BY <1>1 DEF SummonedAs
  <1>4. \A i : PlayersIn(u, i) = PlayersIn(v, i)
    BY <1>3 DEF PlayersIn
  <1>5. Inhabited(u)
    <2>1. ASSUME NEW m \in Npc, u.at[m] \in Standing, PlayerId(u.at[m].inst) # None
          PROVE  PlayersIn(u, u.at[m].inst) # {}
      <3>1. CASE m = n
        BY <1>0, <1>2, <1>3, <3>1 DEF PlayersIn
      <3>2. CASE m # n
        BY <1>2, <1>4, <2>1, <3>2 DEF Right, Inhabited
      <3> QED
        BY <3>1, <3>2
    <2> QED
      BY <2>1 DEF Inhabited
  <1> QED
    BY <1>0, <1>3, <1>5 DEF Right

LEMMA NpcGone ==
    ASSUME NEW v, Right(v), NEW n \in Npc, v.at[n] # Nowhere, n \notin DOMAIN FirstNpcs
    PROVE  LET u == Destroyed(v, n)
           IN  Right(u) /\ \A p \in Player : u.at[p] = v.at[p]
  <1> DEFINE u == Destroyed(v, n)
  <1>1. n \in Tr(v) /\ Whole(v) /\ n \in Being
    BY DEF Right, Settled, Whole, Tr, Being
  <1>2. Whole(u) /\ Leaves(v, u, n)
    BY <1>1, DestroyedOK
  <1> HIDE DEF u
  <1>3. u.at[n] = Nowhere /\ (\A m \in Npc \ {n} : u.at[m] = v.at[m]) /\ \A p \in Player : u.at[p] = v.at[p]
    BY <1>2, ChunkConstants DEF Leaves, Being
  <1>4. Settled(u)
    <2>1. \A m \in Npc : u.at[m] # NullChunk
      BY <1>3, SpecialPositions DEF Right, Settled
    <2>2. \A m \in DOMAIN FirstNpcs : u.at[m] = v.at[m]
      BY <1>3, FirstFacts
    <2> QED
      BY <1>2, <2>1, <2>2 DEF Right, Settled
  <1>5. \A i : PlayersIn(u, i) = PlayersIn(v, i)
    BY <1>3 DEF PlayersIn
  <1>6. Inhabited(u)
    BY <1>3, <1>5, SpecialPositions DEF Right, Inhabited
  <1> QED
    BY <1>3, <1>4, <1>6 DEF Right, u

LEMMA AllRide ==
    ASSUME NEW v, Right(v), NEW D \in SUBSET Player,
           \A p \in D : v.at[p] # Nowhere /\ Head(queue[p]) \in Spot
    PROVE  LET u == RideAll(v, D)
           IN  /\ Right(u) /\ (\A p \in Player : u.at[p].inst = v.at[p].inst)
               /\ (\A p \in D : u.at[p] \in Standing) /\ \A p \in Player \ D : u.at[p] = v.at[p]
  <1> DEFINE u == RideAll(v, D)
  <1>1. RodeAs(v, D, u)
    BY RideAllOK DEF Right
  <1> HIDE DEF u
  <1>2. /\ Settled(u) /\ (\A n \in Npc : u.at[n] = v.at[n])
        /\ (\A p \in Player : u.at[p].inst = v.at[p].inst)
        /\ (\A p \in D : u.at[p] \in Standing) /\ \A p \in Player \ D : u.at[p] = v.at[p]
    BY <1>1 DEF RodeAs
  <1>3. \A i : \A q \in PlayersIn(v, i) : q \in PlayersIn(u, i)
    BY <1>2 DEF PlayersIn
  <1>4. Inhabited(u)
    BY <1>2, <1>3 DEF Right, Inhabited
  <1> QED
    BY <1>2, <1>4 DEF Right, u

-----------------------------------------------------------------------------
(***************************************************************************)
(* The invariant.                                                          *)
(***************************************************************************)
Owned ==
    /\ leader \in [Player -> Player]
    /\ recall \in [Player -> [spot : Spot, map : Map] \cup {None}]
Raced == race \in [Player -> Zone \cup {None}] /\ RacesInZone
Ridden == onMonkey \subseteq InGame /\ Riding \subseteq Player /\ queue \in [Riding -> Seq(Spot)]
ChunksInv == Right(w) /\ Owned /\ Raced /\ Ridden

LEMMA MapConstants ==
    /\ 0 \in Map /\ 0 \notin Zone /\ Lair \subseteq Map /\ Zone \subseteq Map /\ Path \in Seq(Spot)
    /\ ExitSpot \in Spot /\ (\A m \in Lair \cup Zone : Entrance[m] \in Spot)
    /\ (\A m \in Map : Spots[m] \subseteq Spot) /\ MapNum(Overworld) = 0 /\ Overworld \in Instance
    /\ \A m \in Map, o \in Player \cup {None} : <<m, o>> \in Instance /\ MapNum(<<m, o>>) = m
  BY ChunksAssumption DEF Map, Spot, Overworld, MapNum, Instance

LEMMA PlayerPlaces ==
    ASSUME Right(w), NEW p \in Player
    PROVE  /\ w.at[p] \in Standing \cup {NullChunk, Nowhere} /\ p \in Being /\ Whole(w) /\ Settled(w)
           /\ p \in Loaded <=> w.at[p] \in Standing
           /\ p \in InGame <=> w.at[p] # Nowhere
           /\ p \in Loaded => p \in InGame /\ InstanceOf(p) \in Instance /\ w.at[p].at \in Spot
           /\ MapNum(InstanceOf(p)) \in Map /\ Spots[MapNum(InstanceOf(p))] \subseteq Spot
  <1>1. /\ w.at[p] \in Standing \cup {NullChunk, Nowhere} /\ p \in Being /\ Whole(w)
        /\ w.at[p] \in Standing => w.at[p].inst \in Instance /\ w.at[p].at \in Spot
        /\ MapNum(w.at[p].inst) \in Map
    BY RightFacts
  <1> QED
    BY <1>1, SpecialPositions, MapConstants DEF Loaded, InGame, InstanceOf, Right

LEMMA ChunksStart == ChunksInit => ChunksInv
  <1> SUFFICES ASSUME ChunksInit PROVE ChunksInv
    OBVIOUS
  <1> DEFINE empty == [chunks |-> <<>>, at |-> [b \in Being |-> Nowhere],
                       view |-> [b \in Being |-> {}], inView |-> [n \in Npc |-> 0],
                       shown |-> [p \in Player |-> {}], of |-> [n \in Npc |-> None]]
             D == DOMAIN FirstNpcs
  <1>1. w = SpawnAll(empty, D)
    BY DEF ChunksInit, SpawnAll
  <1>2. /\ empty.chunks = <<>> /\ (\A b \in Being : empty.at[b] = Nowhere /\ empty.view[b] = {})
        /\ (\A n \in Npc : empty.inView[n] = 0) /\ (\A p \in Player : empty.shown[p] = {})
    OBVIOUS
  <1>3. DOMAIN empty.chunks = {}
    <2>1. DOMAIN <<>> = {}
      OBVIOUS
    <2> QED
      BY <1>2, <2>1
  <1>4. empty \in World
    <2> DEFINE a == [b \in Being |-> Nowhere]
               b1 == [b \in Being |-> {}]
               c == [n \in Npc |-> 0]
               d == [p \in Player |-> {}]
               e == [n \in Npc |-> None]
               f == <<>>
    <2>1. f \in Cells
      <3>1. f \in [{} -> SUBSET Being] /\ {} \in SUBSET ChunkPos
        OBVIOUS
      <3> HIDE DEF f
      <3> QED
        BY <3>1 DEF Cells
    <2>2. /\ a \in [Being -> ChunkPos \cup {Nowhere}] /\ b1 \in [Being -> SUBSET ChunkPos] /\ c \in [Npc -> Int]
          /\ d \in [Player -> SUBSET Player] /\ e \in [Npc -> Npc \cup {None}]
      OBVIOUS
    <2>3. empty = [chunks |-> f, at |-> a, view |-> b1, inView |-> c, shown |-> d, of |-> e]
      OBVIOUS
    <2> HIDE DEF a, b1, c, d, e, f, empty
    <2> QED
      BY <2>1, <2>2, <2>3 DEF World
  <1> HIDE DEF empty
  <1>5. Tr(empty) = {}
    BY <1>2, SpecialPositions DEF Tr
  <1>6. Good(empty, {})
    BY <1>2, <1>3 DEF Good, Filed, Seen, Counted, Shown
  <1>7. Populating({}, empty)
    BY <1>2, <1>4, <1>5, <1>6 DEF Populating, Whole, Being
  <1>8. Populating(D, w)
    <2> HIDE DEF D
    <2>1. \A v : Populating({}, v) => Populating(D, SpawnAll(v, D))
      BY SpawnAllOK DEF D
    <2> QED
      BY <1>1, <1>7, <2>1
  <1>9. /\ Whole(w) /\ (\A p \in Player : w.at[p] = Nowhere)
        /\ \A n \in Npc : w.at[n] = IF n \in D THEN First(n) ELSE Nowhere
    BY <1>8 DEF Populating
  <1>10. \A n \in D : n \in Npc /\ w.at[n] = First(n) /\ First(n) \in Standing /\ First(n).inst = FirstNpcs[n].inst
                      /\ PlayerId(First(n).inst) = None
    BY <1>9, FirstFacts, SpecialPositions DEF First
  <1>11. Settled(w)
    BY <1>9, <1>10, SpecialPositions DEF Settled
  <1>12. Inhabited(w)
    BY <1>9, <1>10, SpecialPositions DEF Inhabited
  <1>13. Owned /\ Raced
    BY DEF ChunksInit, Owned, Raced, RacesInZone
  <1>14. Ridden
    <2>1. queue = <<>> /\ onMonkey = {}
      BY DEF ChunksInit
    <2>2. Riding = {} /\ queue \in [Riding -> Seq(Spot)]
      BY <2>1 DEF Riding
    <2> QED
      BY <2>1, <2>2 DEF Ridden
  <1> QED
    BY <1>11, <1>12, <1>13, <1>14 DEF ChunksInv, Right

\* Races and riders while players come and go.
LEMMA RacesGoOn ==
    ASSUME ChunksInv, race' \in [Player -> Zone \cup {None}],
           \A q \in Player : race'[q] = None
               \/ (race'[q] = race[q] /\ MapNum(w'.at[q].inst) = MapNum(w.at[q].inst))
    PROVE  Raced'
  BY DEF ChunksInv, Raced, RacesInZone, InstanceOf

LEMMA RacesLeft ==
    ASSUME ChunksInv, NEW ps \in SUBSET Player, NEW i, RaceLeft(ps, i),
           \A q \in ps : w'.at[q].inst = i, \A q \in Player \ ps : w'.at[q] = w.at[q]
    PROVE  Raced'
  <1>1. race' \in [Player -> Zone \cup {None}]
    BY DEF RaceLeft, ChunksInv, Raced
  <1>2. ASSUME NEW q \in Player, race'[q] # None
        PROVE  race'[q] = race[q] /\ MapNum(w'.at[q].inst) = MapNum(w.at[q].inst)
    <2>1. race'[q] = race[q] /\ race[q] \in Zone /\ MapNum(w.at[q].inst) = race[q]
          /\ (q \in ps => w.at[q].inst \in {Overworld, i})
      BY <1>2 DEF RaceLeft, ChunksInv, Raced, RacesInZone, InstanceOf
    <2>2. w.at[q].inst # Overworld
      BY <2>1, MapConstants
    <2> QED
      BY <2>1, <2>2
  <1> QED
    BY <1>1, <1>2, RacesGoOn

LEMMA NobodyLeft ==
    ASSUME ChunksInv, UNCHANGED queue, onMonkey' \subseteq onMonkey,
           \A q \in onMonkey' : w'.at[q] # Nowhere
    PROVE  Ridden'
  BY DEF ChunksInv, Ridden, Riding, InGame

\* A step that takes nobody to another instance.
LEMMA OnlyPlaces ==
    ASSUME ChunksInv, Right(w'), UNCHANGED <<leader, recall, race, queue, onMonkey>>,
           \A q \in Player : w'.at[q].inst = w.at[q].inst,
           \A q \in InGame : w'.at[q] # Nowhere
    PROVE  ChunksInv'
  <1>1. Owned'
    BY DEF ChunksInv, Owned
  <1>2. Raced'
    BY RacesGoOn DEF ChunksInv, Raced
  <1>3. Ridden'
    BY NobodyLeft DEF ChunksInv, Ridden
  <1> QED
    BY <1>1, <1>2, <1>3 DEF ChunksInv

-----------------------------------------------------------------------------
(***************************************************************************)
(* The handlers.                                                           *)
(***************************************************************************)
LEMMA EnterOK == ASSUME ChunksInv, NEW p \in Player, Enter(p) PROVE ChunksInv'
  <1>1. Right(w) /\ w.at[p] = Nowhere /\ w' = Blank(w, p, NullChunk) /\ Whole(w)
    BY DEF ChunksInv, Enter, InGame, Blank, Right, Settled
  <1>2. Whole(w') /\ GoesTo(w, w', p, NullChunk)
    BY <1>1, EnteredOK
  <1>3. Right(w') /\ w'.at[p] = NullChunk /\ \A q \in Player \ {p} : w'.at[q] = w.at[q]
    BY <1>1, <1>2, PlayerStays, SpecialPositions
  <1>4. Raced'
    <2>1. MapNum(NullChunk.inst) = 0 /\ MapNum(Nowhere.inst) = 0
      BY DEF NullChunk, Nowhere, At, Overworld, MapNum
    <2> QED
      BY <1>1, <1>3, <2>1, RacesGoOn DEF Enter, ChunksInv, Raced
  <1>5. Ridden'
    BY <1>1, <1>3, NobodyLeft, SpecialPositions DEF Enter, ChunksInv, Ridden, InGame
  <1>6. Owned'
    BY DEF Enter, ChunksInv, Owned
  <1> QED
    BY <1>3, <1>4, <1>5, <1>6 DEF ChunksInv

LEMMA LoadPlayerOK == ASSUME ChunksInv, NEW p \in Player, LoadPlayer(p) PROVE ChunksInv'
  <1>1. PICK s \in Spots[0] : p \in InGame \ Loaded /\ w' = Placed(w, p, At(s, Overworld))
    BY DEF LoadPlayer
  <1>2. Right(w) /\ s \in Spot /\ w.at[p] = NullChunk
    BY <1>1, MapConstants, PlayerPlaces DEF ChunksInv, Loaded
  <1> DEFINE to == At(s, Overworld)
  <1>3. to \in Standing /\ to.inst = Overworld
    BY <1>2, MapConstants, SpecialPositions
  <1>4. Whole(w') /\ GoesTo(w, w', p, to)
    BY <1>1, <1>2, <1>3, PlacedOK, PlayerPlaces, SpecialPositions
  <1> HIDE DEF to
  <1>5. Right(w') /\ w'.at[p] = to /\ \A q \in Player \ {p} : w'.at[q] = w.at[q]
    BY <1>2, <1>4, PlayerStays, SpecialPositions
  <1> QED
    BY <1>2, <1>3, <1>5, OnlyPlaces, SpecialPositions DEF LoadPlayer, InGame

LEMMA RemovePlayerOK == ASSUME ChunksInv, NEW p \in Player, RemovePlayer(p) PROVE ChunksInv'
  <1>1. Right(w) /\ w.at[p] # Nowhere
    BY DEF ChunksInv, RemovePlayer, InGame
  <1>2. w' = InstanceLeft(TakenOut(w, p), w.at[p].inst)
    BY DEF RemovePlayer, TakenOut, Blank, InstanceOf
  <1>3. Right(w') /\ w'.at[p] = Nowhere /\ \A q \in Player \ {p} : w'.at[q] = w.at[q]
    BY <1>1, <1>2, PlayerGone
  <1>4. Raced'
    BY <1>3, RacesGoOn DEF RemovePlayer, ChunksInv, Raced
  <1>5. Ridden'
    BY <1>3, NobodyLeft DEF RemovePlayer, ChunksInv, Ridden, InGame
  <1>6. Owned'
    BY DEF RemovePlayer, ChunksInv, Owned
  <1> QED
    BY <1>3, <1>4, <1>5, <1>6 DEF ChunksInv

LEMMA GroupOK ==
    ASSUME ChunksInv, NEW p \in Player, LeaveGroup(p) \/ \E q \in Player : JoinGroup(p, q) PROVE ChunksInv'
  <1>1. UNCHANGED <<w, recall, race, queue, onMonkey>>
    BY DEF LeaveGroup, JoinGroup
  <1>2. Owned'
    BY DEF LeaveGroup, JoinGroup, ChunksInv, Owned
  <1> QED
    BY <1>1, <1>2 DEF ChunksInv, Right, Raced, RacesInZone, Ridden, Riding, InGame, InstanceOf

LEMMA MovedToOK ==
    ASSUME ChunksInv, NEW p \in Player, NEW s \in Spots[MapNum(InstanceOf(p))], MovedTo(p, s) PROVE ChunksInv'
  <1>1. Right(w) /\ p \in Loaded /\ w' = Placed(w, p, At(s, InstanceOf(p)))
    BY DEF ChunksInv, MovedTo
  <1>2. s \in Spot /\ w.at[p] \in Standing /\ InstanceOf(p) \in Instance /\ InstanceOf(p) = w.at[p].inst
    BY <1>1, PlayerPlaces DEF InstanceOf
  <1> DEFINE to == At(s, InstanceOf(p))
  <1>3. to \in Standing /\ to.inst = w.at[p].inst
    BY <1>2, SpecialPositions
  <1>4. Whole(w') /\ GoesTo(w, w', p, to)
    BY <1>1, <1>2, <1>3, PlacedOK, PlayerPlaces, SpecialPositions
  <1> HIDE DEF to
  <1>5. Right(w') /\ w'.at[p] = to /\ \A q \in Player \ {p} : w'.at[q] = w.at[q]
    BY <1>1, <1>3, <1>4, PlayerStays
  <1> QED
    BY <1>3, <1>5, OnlyPlaces, SpecialPositions DEF MovedTo, InGame

LEMMA MoveOK == ASSUME ChunksInv, NEW p \in Player, Move(p) \/ Glide(p) PROVE ChunksInv'
  BY MovedToOK DEF Move, Glide

LEMMA RoamOK == ASSUME ChunksInv, NEW n \in Roamer, Roam(n) PROVE ChunksInv'
  <1>1. PICK s \in Spots[MapNum(w.at[n].inst)] :
            Adjacent(s, w.at[n].at) /\ w' = Placed(w, n, At(s, w.at[n].inst))
    BY DEF Roam
  <1>2. Right(w) /\ n \in Npc /\ n \in Being /\ Whole(w)
    BY ChunksAssumption DEF ChunksInv, Right, Settled, Being
  <1>3. w.at[n] \in Standing /\ s \in Spot
    <2>1. w.at[n] \in Standing \cup {Nowhere}
      BY <1>2 DEF Whole, Right, Settled
    <2>2. MapNum(w.at[n].inst) \in Map
      BY <2>1, MapConstants DEF Standing, Instance, Nowhere, At, MapNum
    <2>3. s \in Spot
      BY <1>1, <2>2, MapConstants
    <2>4. w.at[n].at # Origin
      BY <1>1, <2>3, ChunkConstants
    <2> QED
      BY <2>1, <2>3, <2>4 DEF Nowhere, At
  <1>4. Right(w') /\ \A p \in Player : w'.at[p] = w.at[p]
    BY <1>1, <1>2, <1>3, NpcStays
  <1> QED
    BY <1>4, OnlyPlaces DEF Roam, InGame

LEMMA WarpInsideOK ==
    ASSUME ChunksInv, NEW p \in Player, NEW map \in Lair \cup Zone, WarpInside(p, map) PROVE ChunksInv'
  <1> DEFINE i == <<map, IF map \in Lair THEN leader[p] ELSE None>>
             group == Members(p)
             private == map \in Lair
             s == Entrance[map]
  <1>1. Right(w) /\ leader[p] \in Player /\ map \in Map
    BY MapConstants DEF ChunksInv, Owned
  <1>2. i \in Instance /\ private \in BOOLEAN /\ s \in Spot
    BY <1>1, MapConstants
  <1>3. p \in Loaded /\ (private => Cardinality(Unused(w)) >= Cardinality(Copied(w, i)))
    BY DEF WarpInside
  <1>4. w' = SendAll(MadeFor(w, i, private), At(s, i), group)
    BY DEF WarpInside, SendAll, MadeFor
  <1>5. group \in SUBSET Player /\ group # {} /\ \A q \in group : w.at[q] # Nowhere
    <2>1. p \in group
      BY <1>1, <1>3, PlayerPlaces DEF Members
    <2> QED
      BY <2>1 DEF Members, InGame
  <1>6. Afoot(group) /\ RaceLeft(group, i) /\ UNCHANGED <<leader, queue>>
    BY DEF WarpInside
  <1>7. Owned'
    <2> DEFINE there == [spot |-> s, map |-> map]
    <2>1. there \in [spot : Spot, map : Map]
      BY <1>1, <1>2
    <2>2. \A q \in Player : recall'[q] \in {there, recall[q]}
      BY DEF WarpInside
    <2>3. recall' = [q \in Player |-> recall'[q]]
      BY DEF WarpInside
    <2> HIDE DEF there
    <2> QED
      BY <1>6, <2>1, <2>2, <2>3 DEF ChunksInv, Owned
  <1> HIDE DEF i, group, private, s
  <1>8. /\ Right(w') /\ (\A q \in group : w'.at[q] = At(s, i))
        /\ \A q \in Player \ group : w'.at[q] = w.at[q]
    BY <1>1, <1>2, <1>3, <1>4, <1>5, GroupSent
  <1>9. At(s, i).inst = i /\ At(s, i) # Nowhere
    BY <1>2, SpecialPositions
  <1>10. Raced'
    BY <1>5, <1>6, <1>8, <1>9, RacesLeft
  <1>11. Ridden'
    <2>1. onMonkey' \subseteq onMonkey /\ \A q \in onMonkey' : q \notin group
      BY <1>6 DEF Afoot
    <2>2. \A q \in onMonkey : q \in Player /\ w.at[q] # Nowhere
      BY DEF ChunksInv, Ridden, InGame
    <2> QED
      BY <1>6, <1>8, <2>1, <2>2, NobodyLeft
  <1> QED
    BY <1>7, <1>8, <1>10, <1>11 DEF ChunksInv

LEMMA WarpOutOK == ASSUME ChunksInv, NEW p \in Player, WarpOut(p) PROVE ChunksInv'
  <1>1. Right(w) /\ w.at[p] # Nowhere /\ w' = SentTo(w, p, At(ExitSpot, Overworld))
    BY PlayerPlaces DEF ChunksInv, WarpOut, Loaded, InGame
  <1> DEFINE to == At(ExitSpot, Overworld)
  <1>2. to \in Standing /\ to # Nowhere
    BY MapConstants, SpecialPositions
  <1> HIDE DEF to
  <1>3. Right(w') /\ w'.at[p] = to /\ \A q \in Player \ {p} : w'.at[q] = w.at[q]
    <2>1. w' = SentTo(w, p, to)
      BY <1>1 DEF to
    <2> QED
      BY <1>1, <1>2, <2>1, PlayerSent
  <1>4. Raced'
    BY <1>3, RacesGoOn DEF WarpOut, ChunksInv, Raced
  <1>5. Ridden'
    BY <1>2, <1>3, NobodyLeft DEF WarpOut, ChunksInv, Ridden, InGame
  <1>6. Owned'
    BY DEF WarpOut, ChunksInv, Owned
  <1> QED
    BY <1>3, <1>4, <1>5, <1>6 DEF ChunksInv

LEMMA SendPlayerToOK ==
    ASSUME ChunksInv, NEW p \in Player, p \in InGame, NEW to \in Standing, SendPlayerTo(p, to) PROVE ChunksInv'
  <1>1. Right(w) /\ w.at[p] # Nowhere /\ w' = SentTo(w, p, to) /\ to # Nowhere
    BY SpecialPositions DEF ChunksInv, SendPlayerTo, InGame
  <1>2. Right(w') /\ w'.at[p] = to /\ \A q \in Player \ {p} : w'.at[q] = w.at[q]
    BY <1>1, PlayerSent
  <1>3. Raced'
    <2> DEFINE ps == {p}
               i == to.inst
    <2>1. ps \in SUBSET Player /\ RaceLeft(ps, i) /\ (\A q \in ps : w'.at[q].inst = i)
          /\ \A q \in Player \ ps : w'.at[q] = w.at[q]
      BY <1>2 DEF SendPlayerTo
    <2> HIDE DEF ps, i
    <2> QED
      BY <2>1, RacesLeft
  <1>4. Ridden'
    BY <1>1, <1>2, NobodyLeft DEF SendPlayerTo, Afoot, ChunksInv, Ridden, InGame
  <1>5. Owned'
    BY DEF SendPlayerTo, ChunksInv, Owned
  <1> QED
    BY <1>2, <1>3, <1>4, <1>5 DEF ChunksInv

LEMMA RecallsOK ==
    ASSUME ChunksInv, NEW p \in Player, NEW q \in Player, Recall(p) \/ RecallTo(p, q)
    PROVE  ChunksInv'
  <1>1. PICK o \in Player : /\ recall[o] # None
                            /\ SendPlayerTo(p, At(recall[o].spot, <<recall[o].map, None>>))
    BY DEF Recall, RecallTo
  <1>2. recall[o] \in [spot : Spot, map : Map]
    BY <1>1 DEF ChunksInv, Owned
  <1>3. recall[o].spot \in Spot /\ <<recall[o].map, None>> \in Instance
    BY <1>2, MapConstants
  <1>4. At(recall[o].spot, <<recall[o].map, None>>) \in Standing
    BY <1>3, SpecialPositions
  <1>5. p \in InGame
    BY DEF Recall, RecallTo, Loaded
  <1> QED
    BY <1>1, <1>4, <1>5, SendPlayerToOK

LEMMA TeleportsOK ==
    ASSUME ChunksInv, NEW p \in Player, NEW q \in Player, BuddyWarp(p, q) \/ Teleport(p, q)
    PROVE  ChunksInv'
  <1>1. p \in InGame /\ q \in InGame /\ w.at[q] # NullChunk /\ SendPlayerTo(p, w.at[q])
    BY DEF BuddyWarp, Teleport, Loaded
  <1>2. w.at[q] \in Standing
    BY <1>1, PlayerPlaces DEF ChunksInv, InGame
  <1> QED
    BY <1>1, <1>2, SendPlayerToOK

LEMMA RegisterRecallOK ==
    ASSUME ChunksInv, NEW p \in Player, NEW n \in RegisterAt, RegisterRecall(p, n)
    PROVE  ChunksInv'
  <1>1. n \in Npc /\ n \in Being /\ Right(w)
    BY ChunksAssumption DEF ChunksInv, Being
  <1>2. w.at[n].inst \in Instance
    <2>1. w.at[n].inst = InstanceOf(p) /\ p \in Loaded
      BY DEF RegisterRecall
    <2> QED
      BY <1>1, <2>1, PlayerPlaces
  <1>3. w.at[n] \in Standing
    BY <1>1, <1>2, SpecialPositions DEF Right, Settled, Whole
  <1>4. w.at[n].at \in Spot /\ MapNum(w.at[n].inst) \in Map
    BY <1>3 DEF Standing, Instance, MapNum
  <1>5. [spot |-> w.at[n].at, map |-> MapNum(w.at[n].inst)] \in [spot : Spot, map : Map]
    BY <1>4
  <1>6. Owned'
    BY <1>5 DEF RegisterRecall, ChunksInv, Owned
  <1>7. UNCHANGED <<w, race, queue, onMonkey>>
    BY DEF RegisterRecall
  <1> QED
    BY <1>6, <1>7 DEF ChunksInv, Right, Raced, RacesInZone, Ridden, Riding, InGame, InstanceOf

LEMMA SwitchInstanceOK ==
    ASSUME ChunksInv, NEW p \in Player, NEW l \in Lair, SwitchInstance(p, l)
    PROVE  ChunksInv'
  <1> DEFINE i == <<l, p>>
             to == At(w.at[p].at, i)
             t == InstanceCreated(w, i)
  <1>1. Right(w) /\ p \in Loaded /\ w.at[p] # Nowhere /\ w.at[p].at \in Spot
    BY PlayerPlaces DEF ChunksInv, SwitchInstance
  <1>2. i \in Instance
    BY MapConstants
  <1>3. to \in Standing /\ to.inst = i /\ to # Nowhere
    BY <1>1, <1>2, SpecialPositions
  <1>4. w' = SentTo(t, p, to) /\ Cardinality(Unused(w)) >= Cardinality(Copied(w, i))
        /\ Afoot({p}) /\ RaceLeft({p}, i) /\ UNCHANGED <<leader, queue>>
    BY DEF SwitchInstance
  <1>5. t = InstanceCreated(w, i)
    OBVIOUS
  <1> HIDE DEF t, to, i
  <1>6. CreatedAs(w, t, i)
    BY <1>1, <1>2, <1>4, <1>5, InstanceCreatedOK DEF Right
  <1>7. Settled(t) /\ LivedIn(t, i) /\ \A q \in Player : t.at[q] = w.at[q]
    BY <1>1, <1>6, CreatedStaysLivedIn DEF CreatedAs, Right
  <1>8. t.at[p] # Nowhere /\ LivedIn(t, to.inst)
    BY <1>1, <1>3, <1>7
  <1>9. Inhabited(w') /\ SentAs(t, w', p, to)
    BY <1>3, <1>4, <1>7, <1>8, SentStaysInhabited
  <1>10. Right(w') /\ w'.at[p] = to /\ \A q \in Player \ {p} : w'.at[q] = w.at[q]
    BY <1>7, <1>9 DEF SentAs, Right
  <1>11. Owned'
    <2>1. ASSUME NEW q \in Player
          PROVE  recall'[q] \in [spot : Spot, map : Map] \cup {None}
      <3>2. recall'[q] = IF q = p THEN (IF recall[p] = None THEN None ELSE [recall[p] EXCEPT !.map = 0])
                                  ELSE recall[q]
        BY DEF SwitchInstance, ChunksInv, Owned
      <3>3. recall[q] \in [spot : Spot, map : Map] \cup {None}
        BY DEF ChunksInv, Owned
      <3>4. CASE q = p /\ recall[p] # None
        <4>1. recall[p] \in [spot : Spot, map : Map]
          BY <3>3, <3>4
        <4>2. [recall[p] EXCEPT !.map = 0] \in [spot : Spot, map : Map]
          BY <4>1, MapConstants
        <4> QED
          BY <3>2, <3>4, <4>2
      <3> QED
        BY <3>2, <3>3, <3>4
    <2>2. recall' = [q \in Player |-> recall'[q]]
      BY DEF SwitchInstance, ChunksInv, Owned
    <2> QED
      BY <1>4, <2>1, <2>2 DEF ChunksInv, Owned
  <1>12. Raced'
    <2> DEFINE ps == {p}
    <2>1. ps \in SUBSET Player /\ RaceLeft(ps, i) /\ (\A q \in ps : w'.at[q].inst = i)
          /\ \A q \in Player \ ps : w'.at[q] = w.at[q]
      BY <1>3, <1>4, <1>10
    <2> HIDE DEF ps
    <2> QED
      BY <2>1, RacesLeft
  <1>13. Ridden'
    BY <1>3, <1>4, <1>10, NobodyLeft DEF Afoot, ChunksInv, Ridden, InGame
  <1> QED
    BY <1>10, <1>11, <1>12, <1>13 DEF ChunksInv

\* Refresh, Revive and Scamper: out and in again, in the same instance.
LEMMA StaysInside ==
    ASSUME ChunksInv, NEW p \in Loaded, NEW to \in Standing, to.inst = w.at[p].inst,
           Whole(w'), GoesTo(w, w', p, to), UNCHANGED <<leader, recall, race, queue, onMonkey>>
    PROVE  ChunksInv'
  <1>1. Right(w) /\ p \in Player
    BY DEF ChunksInv, Loaded, InGame
  <1>2. Right(w') /\ w'.at[p] = to /\ \A q \in Player \ {p} : w'.at[q] = w.at[q]
    BY <1>1, PlayerStays
  <1> QED
    BY <1>1, <1>2, OnlyPlaces, SpecialPositions DEF InGame

LEMMA RefreshOK == ASSUME ChunksInv, NEW p \in Player, Refresh(p) PROVE ChunksInv'
  <1>1. p \in Loaded /\ w.at[p] \in Standing /\ Whole(w) /\ UNCHANGED <<leader, recall, race, queue, onMonkey>>
    BY PlayerPlaces DEF ChunksInv, Refresh
  <1>2. w' = Moved(Moved(w, p, w.at[p], NullChunk), p, NullChunk, w.at[p])
    BY DEF Refresh
  <1>3. Whole(w') /\ GoesTo(w, w', p, w.at[p])
    BY <1>1, <1>2, ThereAndBack
  <1> QED
    BY <1>1, <1>3, StaysInside

LEMMA ReviveOK == ASSUME ChunksInv, NEW p \in Player, Revive(p) \/ Scamper(p) PROVE ChunksInv'
  <1>1. PICK s \in Spots[MapNum(InstanceOf(p))] :
            p \in Loaded /\ w' = Reloaded(w, p, At(s, InstanceOf(p)))
    BY MapConstants DEF Revive, Scamper
  <1>2. /\ s \in Spot /\ w.at[p] # Nowhere /\ Whole(w) /\ InstanceOf(p) \in Instance
        /\ InstanceOf(p) = w.at[p].inst
    BY <1>1, PlayerPlaces DEF ChunksInv, InstanceOf
  <1> DEFINE to == At(s, InstanceOf(p))
  <1>3. to \in Standing /\ to.inst = w.at[p].inst
    BY <1>2, SpecialPositions
  <1>4. Whole(w') /\ GoesTo(w, w', p, to)
    BY <1>1, <1>2, <1>3, ReloadedOK
  <1> HIDE DEF to
  <1>5. UNCHANGED <<leader, recall, race, queue, onMonkey>>
    BY DEF Revive, Scamper
  <1> QED
    BY <1>1, <1>3, <1>4, <1>5, StaysInside

LEMMA MountOK == ASSUME ChunksInv, NEW p \in Player, Mount(p) PROVE ChunksInv'
  <1>1. p \in InGame /\ UNCHANGED <<w, leader, recall, race>>
    BY DEF Mount, Loaded
  <1>2. /\ queue' = [q \in Riding \cup {p} |-> IF q = p THEN Path ELSE queue[q]]
        /\ onMonkey' = onMonkey \cup {p}
    BY DEF Mount
  <1>3. Riding' = Riding \cup {p} /\ queue' \in [Riding' -> Seq(Spot)]
    <2>1. Riding' = Riding \cup {p}
      BY <1>2 DEF Riding
    <2> QED
      BY <1>2, <2>1, MapConstants DEF ChunksInv, Ridden
  <1>4. Ridden'
    BY <1>1, <1>2, <1>3 DEF ChunksInv, Ridden, InGame
  <1> QED
    BY <1>1, <1>4 DEF ChunksInv, Right, Owned, Raced, RacesInZone, InstanceOf

LEMMA RaceOK == ASSUME ChunksInv, NEW p \in Player, StartRace(p) \/ EndRace(p) PROVE ChunksInv'
  <1>1. UNCHANGED <<w, leader, recall, queue, onMonkey>>
    BY DEF StartRace, EndRace
  <1>2. Raced'
    BY DEF StartRace, EndRace, ChunksInv, Raced, RacesInZone, InstanceOf
  <1> QED
    BY <1>1, <1>2 DEF ChunksInv, Right, Owned, Ridden, Riding, InGame

LEMMA StepSkywaySystemOK == ASSUME ChunksInv, StepSkywaySystem PROVE ChunksInv'
  <1> DEFINE D == Keeps \cap InGame
  <1>1. D = Keeps /\ D \in SUBSET Player /\ D \subseteq Riding /\ D \subseteq InGame
    BY DEF Keeps, InGame
  <1>2. \A p \in D : queue[p] \in Seq(Spot) /\ queue[p] # <<>>
    BY <1>1 DEF Keeps, Arrived, ChunksInv, Ridden
  <1>3. ASSUME NEW p \in D PROVE w.at[p] # Nowhere /\ Head(queue[p]) \in Spot /\ Tail(queue[p]) \in Seq(Spot)
    <2>1. w.at[p] # Nowhere
      BY <1>1 DEF InGame
    <2> DEFINE q == queue[p]
    <2>2. q \in Seq(Spot) /\ q # <<>>
      BY <1>2
    <2> HIDE DEF q
    <2>3. Head(q) \in Spot /\ Tail(q) \in Seq(Spot)
      BY <2>2
    <2> QED
      BY <2>1, <2>3 DEF q
  <1>4. w' = RideAll(w, D) /\ Right(w)
    BY DEF StepSkywaySystem, RideAll, ChunksInv
  <1>5. queue' = [p \in D |-> Tail(queue[p])] /\ onMonkey' \subseteq onMonkey /\ UNCHANGED <<leader, recall, race>>
    BY <1>1 DEF StepSkywaySystem
  <1> HIDE DEF D
  <1>6. /\ Right(w') /\ (\A p \in Player : w'.at[p].inst = w.at[p].inst)
        /\ (\A p \in D : w'.at[p] \in Standing) /\ \A p \in Player \ D : w'.at[p] = w.at[p]
    BY <1>1, <1>3, <1>4, AllRide
  <1>7. Ridden'
    <2>1. Riding' = D /\ queue' \in [Riding' -> Seq(Spot)]
      <3>1. Riding' = D
        BY <1>5 DEF Riding
      <3> QED
        BY <1>3, <1>5, <3>1
    <2>2. \A p \in InGame : w'.at[p] # Nowhere
      BY <1>6, SpecialPositions DEF InGame
    <2> QED
      BY <1>1, <1>5, <2>1, <2>2 DEF ChunksInv, Ridden, InGame
  <1>8. Raced'
    BY <1>5, <1>6, RacesGoOn DEF ChunksInv, Raced
  <1>9. Owned'
    BY <1>5 DEF ChunksInv, Owned
  <1> QED
    BY <1>6, <1>7, <1>8, <1>9 DEF ChunksInv

LEMMA SummonNpcOK == ASSUME ChunksInv, NEW p \in Player, SummonNpc(p) PROVE ChunksInv'
  <1> DEFINE kind == Min(Unused(w))
  <1>1. Unused(w) # {} /\ w' = Summoned(w, kind, w.at[p]) /\ Right(w) /\ p \in Loaded
    BY DEF SummonNpc, ChunksInv
  <1>2. Unused(w) \subseteq Npc /\ Unused(w) \subseteq Nat
    BY ChunkConstants DEF Unused
  <1>3. kind \in Npc
    <2> DEFINE T == Unused(w)
    <2>1. T \subseteq Nat /\ T # {} /\ T \subseteq Npc
      BY <1>1, <1>2
    <2> HIDE DEF T
    <2>2. Min(T) \in T
      BY <2>1, MinIsLeast
    <2> QED
      BY <2>1, <2>2 DEF T
  <1>4. w.at[p] \in Standing
    BY <1>1, PlayerPlaces
  <1> HIDE DEF kind
  <1>5. Right(w') /\ \A q \in Player : w'.at[q] = w.at[q]
    BY <1>1, <1>3, <1>4, NpcComes
  <1>6. UNCHANGED <<leader, recall, race, queue, onMonkey>>
    BY DEF SummonNpc
  <1> QED
    BY <1>5, <1>6, OnlyPlaces DEF InGame

LEMMA DestroyNpcOK == ASSUME ChunksInv, NEW n \in Npc, DestroyNpc(n) PROVE ChunksInv'
  <1>1. Right(w') /\ \A q \in Player : w'.at[q] = w.at[q]
    BY NpcGone DEF DestroyNpc, ChunksInv
  <1>2. UNCHANGED <<leader, recall, race, queue, onMonkey>>
    BY DEF DestroyNpc
  <1> QED
    BY <1>1, <1>2, OnlyPlaces DEF InGame

LEMMA ChunksGoOn == ChunksInv /\ [ChunksNext]_chunkVars => ChunksInv'
  <1> SUFFICES ASSUME ChunksInv, [ChunksNext]_chunkVars PROVE ChunksInv'
    OBVIOUS
  <1>1. CASE Walks
    BY <1>1, EnterOK, LoadPlayerOK, RemovePlayerOK, MoveOK, WarpOutOK, GroupOK, WarpInsideOK DEF Walks
  <1>2. CASE Rides
    BY <1>2, StepSkywaySystemOK, MountOK, ReviveOK DEF Rides
  <1>3. CASE Races
    BY <1>3, RaceOK, RefreshOK DEF Races
  <1>4. CASE Recalls
    BY <1>4, RecallsOK, RegisterRecallOK DEF Recalls
  <1>5. CASE Teleports
    BY <1>5, TeleportsOK, SwitchInstanceOK DEF Teleports
  <1>6. CASE Roams
    BY <1>6, RoamOK DEF Roams
  <1>7. CASE Npcs
    BY <1>7, SummonNpcOK, DestroyNpcOK DEF Npcs
  <1>8. CASE UNCHANGED chunkVars
    BY <1>8 DEF chunkVars, ChunksInv, Right, Owned, Raced, RacesInZone, Ridden, Riding, InGame, InstanceOf
  <1> QED
    BY <1>1, <1>2, <1>3, <1>4, <1>5, <1>6, <1>7, <1>8 DEF ChunksNext

-----------------------------------------------------------------------------
(***************************************************************************)
(* What follows from the invariant.                                        *)
(***************************************************************************)
LEMMA WhoIsThere ==
    ASSUME ChunksInv
    PROVE  /\ w \in World /\ Good(w, Tr(w)) /\ Tr(w) \in SUBSET Being
           /\ Loaded = Tr(w) \cap Player /\ Alive = Tr(w) \cap Npc
  <1>1. Right(w) /\ Whole(w)
    BY DEF ChunksInv, Right, Settled
  <1>2. w \in World /\ Good(w, Tr(w)) /\ Tr(w) \in SUBSET Being
    BY <1>1, TrFacts
  <1>3. \A p \in Player : p \in Loaded <=> p \in Tr(w)
    BY <1>1, PlayerPlaces DEF Tr
  <1>4. \A n \in Npc : n \in Alive <=> n \in Tr(w)
    BY <1>1, SpecialPositions DEF Alive, Tr, Right, Settled, Whole, Being
  <1> QED
    BY <1>2, <1>3, <1>4 DEF Loaded, InGame, Alive

LEMMA ChunksAreTyped == ChunksInv => ChunksTypeOK
  <1> SUFFICES ASSUME ChunksInv PROVE ChunksTypeOK
    OBVIOUS
  <1> DEFINE tr == Tr(w)
  <1>1. w \in World /\ Good(w, tr) /\ tr \in SUBSET Being
    BY WhoIsThere
  <1> HIDE DEF tr
  <1>2. w.inView \in [Npc -> Nat]
    <2>1. \A n \in Npc : w.inView[n] \in Nat
      <3> TAKE n \in Npc
      <3>1. IsFiniteSet(PlayersNear(w, tr, w.at[n]))
        BY PlayersNearFinite
      <3>2. Cardinality(PlayersNear(w, tr, w.at[n])) \in Nat
        BY <3>1, FS_CardinalityType
      <3> QED
        BY <1>1, <3>2 DEF Good, Counted
    <2> QED
      BY <1>1, <2>1, WorldFields
  <1>3. DOMAIN w.chunks \subseteq ChunkPos /\ \A c \in DOMAIN w.chunks : w.chunks[c] \subseteq Being
    BY <1>1, WorldFields, CellsType
  <1>4. /\ w.at \in [Being -> ChunkPos \cup {Nowhere}] /\ w.view \in [Being -> SUBSET ChunkPos]
        /\ w.shown \in [Player -> SUBSET Player]
    BY <1>1, WorldFields
  <1> QED
    BY <1>2, <1>3, <1>4 DEF ChunksTypeOK, ChunksInv, Owned, Raced, Ridden

LEMMA ViewsFollow == ChunksInv => ViewsAgree
  <1> SUFFICES ASSUME ChunksInv PROVE ViewsAgree
    OBVIOUS
  <1> DEFINE tr == Tr(w)
  <1>1. w \in World /\ Good(w, tr) /\ tr \in SUBSET Being /\ Loaded = tr \cap Player /\ Alive = tr \cap Npc
    BY WhoIsThere
  <1> HIDE DEF tr
  <1>2. \A p, b : Sees(p, b) <=> Beside(w.at[p], w.at[b])
    BY DEF Sees, Beside
  <1>3. PlayersCounted
    <2> SUFFICES ASSUME NEW n \in Alive
                 PROVE  w.inView[n] = Cardinality({p \in Loaded : Sees(p, n)})
      BY DEF PlayersCounted
    <2>1. {p \in Loaded : Sees(p, n)} = PlayersNear(w, tr, w.at[n])
      BY <1>1, <1>2 DEF PlayersNear
    <2> QED
      BY <1>1, <2>1 DEF Good, Counted
  <1>4. ChunksCurrent
    <2>1. \A c \in DOMAIN w.chunks : w.chunks[c] # {}
      BY <1>1 DEF Good, Filed
    <2>2. ASSUME NEW b \in Loaded \cup Alive
          PROVE  {c \in DOMAIN w.chunks : b \in w.chunks[c]} = {w.at[b]} /\ w.view[b] = Viewable(w, w.at[b])
      <3>1. b \in tr
        BY <1>1
      <3>2. {c \in DOMAIN w.chunks : b \in w.chunks[c]} = {w.at[b]}
        BY <1>1, <3>1 DEF Good, Filed
      <3>3. w.view[b] = Viewable(w, w.at[b])
        BY <1>1, <3>1, ViewableIsNear DEF Good, Seen
      <3> QED
        BY <3>2, <3>3
    <2> QED
      BY <2>1, <2>2 DEF ChunksCurrent
  <1>5. NeighboursShown
    <2> SUFFICES ASSUME NEW p \in Loaded
                 PROVE  w.shown[p] = {q \in Loaded \ {p} : Sees(p, q)}
      BY DEF NeighboursShown
    <2>1. w.shown[p] = PlayersNear(w, tr, w.at[p]) \ {p}
      BY <1>1 DEF Good, Shown
    <2>2. \A q \in Loaded : Sees(p, q) <=> Beside(w.at[q], w.at[p])
      <3>1. \A x \in Loaded : w.at[x] \in ChunkPos
        BY <1>1, SpecialPositions DEF Tr, tr
      <3> QED
        BY <1>2, <3>1, PositionFacts
    <2> QED
      BY <1>1, <2>1, <2>2 DEF PlayersNear
  <1> QED
    BY <1>3, <1>4, <1>5 DEF ViewsAgree

LEMMA InstancesFollow == ChunksInv => InstancesLast
  <1> SUFFICES ASSUME ChunksInv PROVE InstancesLast
    OBVIOUS
  <1>1. Loaded = Tr(w) \cap Player /\ Alive = Tr(w) \cap Npc
    BY WhoIsThere
  <1>2. NoLostInstance
    <2> SUFFICES ASSUME NEW n \in Alive, PlayerId(w.at[n].inst) # None
                 PROVE  \E p \in Loaded : InstanceOf(p) = w.at[n].inst
      BY DEF NoLostInstance
    <2>1. PlayersIn(w, w.at[n].inst) # {}
      BY <1>1 DEF ChunksInv, Right, Inhabited, Tr
    <2> QED
      BY <1>1, <2>1 DEF PlayersIn, InstanceOf, Tr, Being
  <1> QED
    BY <1>2 DEF InstancesLast, ChunksInv, Raced

LEMMA ChunksInvariance == ChunksInit /\ [][ChunksNext]_chunkVars => []ChunksInv
  BY ChunksStart, ChunksGoOn, PTL

THEOREM ChunksTyping == ChunksInit /\ [][ChunksNext]_chunkVars => []ChunksTypeOK
  BY ChunksInvariance, ChunksAreTyped, PTL

THEOREM ViewsStayAgreed == ChunksInit /\ [][ChunksNext]_chunkVars => []ViewsAgree
  BY ChunksInvariance, ViewsFollow, PTL

THEOREM InstancesStay == ChunksInit /\ [][ChunksNext]_chunkVars => []InstancesLast
  BY ChunksInvariance, InstancesFollow, PTL

-----------------------------------------------------------------------------
(***************************************************************************)
(* All three together, as they are checked.                                *)
(***************************************************************************)
LEMMA WorldStarts == Init => ChunksInv /\ MobsInv /\ EffectsInv
  <1> SUFFICES ASSUME Init PROVE ChunksInv /\ MobsInv /\ EffectsInv
    OBVIOUS
  <1>1. PICK ms \in SUBSET DOMAIN FirstMobs : MobsInit(ms)
    BY WorldAssumption DEF Init
  <1>2. MobsInv
    BY <1>1, MobsInvInit
  <1> QED
    BY <1>2, ChunksStart, EffectsInvInit DEF Init

\* A step of one is a step of it, and none for the others.
LEMMA WorldSteps ==
    [Next]_vars => [ChunksNext]_chunkVars /\ [MobsNext]_arena /\ [EffectsNext]_effectVars
  <1> SUFFICES ASSUME [Next]_vars
               PROVE  [ChunksNext]_chunkVars /\ [MobsNext]_arena /\ [EffectsNext]_effectVars
    OBVIOUS
  <1>1. CASE UNCHANGED vars
    BY <1>1 DEF vars
  <1>2. CASE UNCHANGED <<arena, effectVars>> /\ ChunksNext
    BY <1>2
  <1>3. CASE UNCHANGED <<chunkVars, effectVars>> /\ MobsNext
    BY <1>3
  <1>4. CASE UNCHANGED <<chunkVars, arena>> /\ (Comes(ann) \/ Nanos(ann) \/ Goo(ann) \/ Buffs(ann) \/ Wears(ann) \/ Hurt(ann))
    BY <1>4, WorldAssumption DEF EffectsNext
  <1>5. Next => \/ UNCHANGED <<arena, effectVars>> /\ ChunksNext
                \/ UNCHANGED <<chunkVars, effectVars>> /\ MobsNext
                \/ /\ UNCHANGED <<chunkVars, arena>>
                   /\ Comes(ann) \/ Nanos(ann) \/ Goo(ann) \/ Buffs(ann) \/ Wears(ann) \/ Hurt(ann)
    BY DEF Next, ChunksNext, MobsNext
  <1> QED
    BY <1>1, <1>2, <1>3, <1>4, <1>5

LEMMA WorldInvariance == Spec => [](ChunksInv /\ MobsInv /\ EffectsInv)
  <1>1. ChunksInv /\ MobsInv /\ EffectsInv /\ [Next]_vars => (ChunksInv /\ MobsInv /\ EffectsInv)'
    <2> SUFFICES ASSUME ChunksInv, MobsInv, EffectsInv, [Next]_vars
                 PROVE  ChunksInv' /\ MobsInv' /\ EffectsInv'
      OBVIOUS
    <2> QED
      BY WorldSteps, ChunksGoOn, MobsInvStep, EffectsInvStep
  <1> QED
    BY <1>1, WorldStarts, PTL DEF Spec

\* The type invariants of chunks, mobs and bodies hold where the three are run
\* side by side.
THEOREM WorldTyping == Spec => []TypesOK
  <1>1. ChunksInv /\ MobsInv /\ EffectsInv => TypesOK
    <2>1. EffectsInv => EffectsTypeOK
      BY DEF EffectsInv, Bodies, Body, EffectsTypeOK
    <2> QED
      BY <2>1, ChunksAreTyped, MobsInvTyping DEF TypesOK
  <1> QED
    BY <1>1, WorldInvariance, PTL

\* And so does what is shown of each: views that agree, instances that last as long
\* as they are used, mobs that are consistent, buffs that end.
THEOREM WorldHolds ==
    Spec => [](ViewsAgree /\ InstancesLast /\ MobsConsistent /\ TimersHavePlayers /\ NoInfiniteBuffs)
  <1>1. ChunksInv /\ MobsInv /\ EffectsInv =>
            ViewsAgree /\ InstancesLast /\ MobsConsistent /\ TimersHavePlayers /\ NoInfiniteBuffs
    <2>1. EffectsInv => TimersHavePlayers /\ NoInfiniteBuffs
      BY DEF EffectsInv, Ends, Sound, Timely, NoInfiniteBuffs
    <2> QED
      BY <2>1, ViewsFollow, InstancesFollow, MobsInvTyping
  <1> QED
    BY <1>1, WorldInvariance, PTL
=============================================================================
