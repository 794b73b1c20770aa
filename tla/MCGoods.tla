------------------------------ MODULE MCGoods ------------------------------
(***************************************************************************)
(* A player's belongings, the mail, the missions, the buddies and the      *)
(* characters in the database, which share no variable: a behaviour is one *)
(* of the component that "focus" names, so that their states add up        *)
(* instead of multiplying.                                                 *)
(***************************************************************************)
EXTENDS Belongings, Mail, Missions, Buddies, Characters

CONSTANTS sword, gum, car, oldcar, crate, card, alice, bob,
          hunt, walk, back, make, rat, tail, letter, penny, quinn

With(things) ==
    [pos \in Position |-> IF pos \in DOMAIN things THEN Of(things[pos], 1) ELSE NoItem]

VARIABLE focus
vars == <<goodsVars, mailVars, missionVars, buddyVars, charVars, focus>>

Init ==
    /\ GoodsInit /\ MailInit /\ MissionsInit /\ BuddiesInit /\ CharactersInit
    /\ focus \in {"goods", "mail", "missions", "buddies", "characters"}
    /\ focus # "goods" => items = With(Carried(1) :> car)
Next ==
    /\ UNCHANGED focus
    /\ \/ /\ focus = "goods" /\ GoodsNext
          /\ UNCHANGED <<mailVars, missionVars, buddyVars, charVars>>
       \/ /\ focus = "mail" /\ MailNext
          /\ UNCHANGED <<goodsVars, missionVars, buddyVars, charVars>>
       \/ /\ focus = "missions" /\ MissionsNext
          /\ UNCHANGED <<goodsVars, mailVars, buddyVars, charVars>>
       \/ /\ focus = "buddies" /\ BuddiesNext
          /\ UNCHANGED <<goodsVars, mailVars, missionVars, charVars>>
       \/ /\ focus = "characters" /\ CharactersNext
          /\ UNCHANGED <<goodsVars, mailVars, missionVars, buddyVars>>
Spec == Init /\ [][Next]_vars

Entry(id, type, buy, sell, stack) ==
    [id |-> id, type |-> type, buyPrice |-> buy, sellPrice |-> sell, stackSize |-> stack,
     sellable |-> sell > 0]
AllData ==
    (sword :> Entry(1, 0, 2, 1, 1)) @@ (gum :> Entry(2, 7, 1, 1, 3))
    @@ (car :> Entry(3, 10, 0, 0, 1)) @@ (oldcar :> Entry(3, 10, 0, 0, 1))
    @@ (crate :> Entry(4, 9, 0, 0, 0)) @@ (card :> Entry(5, 7, 1, 0, 2))
    @@ (tail :> Entry(6, 8, 0, 0, 0)) @@ (letter :> Entry(7, 8, 0, 0, 0))
TimeOut == car :> oldcar
Inside == crate :> {gum, sword}
Opens == card :> 1
Chews == gum :> 0
Styles == 1 :> 0
Pots == {<<sword, sword>>}

\* Someone with two stacks of the same, someone with a vehicle, someone with a card and two swords.
Kits ==
    {[pos \in Position |-> IF pos \in {Carried(1), <<"BANK", 1>>} THEN Of(gum, 2) ELSE NoItem],
     With(Carried(1) :> car),
     With(Carried(1) :> card @@ <<"EQUIP", 0>> :> sword @@ Carried(2) :> sword)}

Zones == [p \in Player |-> TRUE]
Purse == alice :> 1 @@ bob :> 0
FirstBags ==
    [p \in Player |-> [s \in Place |-> IF s = 2 /\ p = alice THEN Of(gum, 2) ELSE NoItem]]

None3 == [j \in Objective |-> None]
Plain ==
    [nano |-> 0, enemy |-> None3, toKill |-> Idle, csuItem |-> None3, csuNeeded |-> Idle,
     suItem |-> None3, suCount |-> Idle, stItem |-> None3, stNeeded |-> Idle,
     outgoing |-> 0, mission |-> 0, timed |-> FALSE, hunt |-> FALSE, escort |-> FALSE,
     failTo |-> None, instanced |-> FALSE]
\* A timed hunt for rats' tails, a letter that is taken back, an escort, a nano mission.
AllTasks ==
    (hunt :> [Plain EXCEPT !.enemy[1] = rat, !.toKill[1] = 2, !.csuItem[1] = tail,
                !.csuNeeded[1] = 2, !.suItem[1] = tail, !.suCount[1] = -2, !.outgoing = 1,
                !.mission = 1, !.timed = TRUE, !.hunt = TRUE, !.failTo = back])
    @@ (back :> [Plain EXCEPT !.mission = 1, !.stItem[1] = letter, !.stNeeded[1] = 1,
                   !.suItem[1] = letter, !.suCount[1] = -1, !.instanced = TRUE, !.failTo = hunt])
    @@ (walk :> [Plain EXCEPT !.mission = 2, !.escort = TRUE])
    @@ (make :> [Plain EXCEPT !.mission = 3, !.nano = 2])
Prizes == hunt :> [items |-> 1, fm |-> 1] @@ walk :> [items |-> 0, fm |-> 1]
Growth ==
    0 :> [cap |-> 0, need |-> 0, task |-> None]
    @@ 1 :> [cap |-> 1, need |-> 1, task |-> make]
    @@ 2 :> [cap |-> 1, need |-> 1, task |-> None]

\* The names of characters are only compared.
NameSymmetry == Permutations(Name)

\* The type invariants of the five.
TypesOK == GoodsTypeOK /\ MailTypeOK /\ MissionsTypeOK /\ BuddiesTypeOK /\ CharactersTypeOK
=============================================================================
