------------------------------ MODULE MCWorld ------------------------------
(***************************************************************************)
(* Where players and NPCs are, what mobs do, and what wears off a body.    *)
(* The three modules share no variable, and a behaviour explores the part  *)
(* of one of them that "focus" names, so that their states add up instead  *)
(* of multiplying: chunks with one kind of traveller at a time, a mob or a *)
(* pack under fire with one kind of attack, one player's nanos and eggs.   *)
(***************************************************************************)
EXTENDS Chunks, Mobs, Effects
CONSTANTS ann, bob
Three == {<<4, 4>>, <<5, 5>>, <<6, 5>>}
Walkable == 0 :> Three @@ 1 :> {<<4, 4>>, <<5, 4>>} @@ 2 :> {<<5, 4>>}
Inside == 1 :> <<4, 4>> @@ 2 :> <<5, 4>>
Way == <<6, 5>>
Loadout ==
    (1 :> [spot |-> <<5, 5>>, inst |-> <<0, None>>, leader |-> None])
    @@ (2 :> [spot |-> <<4, 4>>, inst |-> <<1, None>>, leader |-> 2])
    @@ (3 :> [spot |-> <<5, 4>>, inst |-> <<1, None>>, leader |-> 2])
Ride == <<<<5, 5>>>>
\* A pack of two, one with a passive buff, and a mob that splits.
Pack == {1, 2}
Herd == 1 :> [kind |-> "plain", leader |-> 1] @@ 2 :> [kind |-> "free", leader |-> 1]
        @@ 3 :> [kind |-> "echo", leader |-> None]
Breeds ==
    "plain" :> [hp |-> 2, passive |-> {}, splits |-> <<>>]
    @@ "free" :> [hp |-> 1, passive |-> {"FREEDOM"}, splits |-> <<>>]
    @@ "echo" :> [hp |-> 1, passive |-> {}, splits |-> <<"free", "free">>]
\* An egg with a buff and one that heals.
Eggs == 11 :> FREEDOM @@ 12 :> "heal"
VARIABLE focus
vars == <<chunkVars, arena, effectVars, focus>>
InChunks == {"rides", "races", "recalls", "teleports", "npcs"}
OnBodies == {"buffs", "wear"}
Fought == "pack" :> Pack @@ "split" :> {3} @@ "powers" :> {1} @@ "freedom" :> {2} @@ "shots" :> {1}
ASSUME WorldAssumption ==
    ann \in Player /\ \A f \in DOMAIN Fought : Fought[f] \subseteq DOMAIN FirstMobs
Init ==
    /\ ChunksInit /\ EffectsInit
    /\ \/ focus \in InChunks \cup OnBodies /\ MobsInit({})
       \/ focus \in DOMAIN Fought /\ MobsInit(Fought[focus])
Next ==
    /\ UNCHANGED focus
    /\ \/ /\ UNCHANGED <<arena, effectVars>> /\ focus \in InChunks
          /\ \/ Walks
             \/ focus = "rides" /\ Rides
             \/ focus = "races" /\ (Races \/ Roams)
             \/ focus = "recalls" /\ Recalls
             \/ focus = "teleports" /\ Teleports
             \/ focus = "npcs" /\ Npcs
       \/ /\ UNCHANGED <<chunkVars, effectVars>> /\ focus \in DOMAIN Fought
          /\ \/ Fights
             \/ focus \in {"powers", "freedom"} /\ Powers
             \/ focus \in {"split", "freedom"} /\ Falls
             \/ focus = "shots" /\ Shots
             \/ focus = "split" /\ Spawns
       \/ /\ UNCHANGED <<chunkVars, arena>> /\ focus \in OnBodies
          /\ \/ Comes(ann) \/ Nanos(ann) \/ Goo(ann)
             \/ focus = "buffs" /\ Buffs(ann)
             \/ focus = "wear" /\ (Wears(ann) \/ Hurt(ann))
          /\ focus = "wear" => body'[ann].owned \subseteq {1}
          /\ focus = "buffs" =>
                \A n \in Nano : body'[ann].skill[n] \notin {PHOENIX, ACTIVE}
\* The timer comes back to every mob.
Timer(m) ==
    /\ ~arena.failed /\ m \in DOMAIN arena.mobs /\ arena.mobs[m].state = "COMBAT"
    /\ Near(arena) # {} /\ LoseAggro(m) /\ UNCHANGED <<chunkVars, effectVars, focus>>
Spec == Init /\ [][Next]_vars /\ \A m \in Mob : WF_vars(Timer(m))
\* The type invariants of the three.
TypesOK == ChunksTypeOK /\ MobsTypeOK /\ EffectsTypeOK
=============================================================================
