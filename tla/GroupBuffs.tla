----------------------------- MODULE GroupBuffs -----------------------------
(***************************************************************************)
(* The passive nano buffs a group shares: joinGroup, groupKickPlayer and   *)
(* summonNano keep three sets of bits per player, what it shows            *)
(* (iConditionBitFlag), what its own nano gives it and what its nano gives *)
(* its group.  The group a buff reaches is the one of module Groups.       *)
(*                                                                         *)
(* A skill is the bit it sets and whom it targets.  Timed skills (drain    *)
(* type 1), gumballs and eggs set bits of their own and are left out, and  *)
(* so is death: doBuff passes over the dead.                               *)
(* An operator marked "mutant" is a slip in the definition that follows    *)
(* it, for the runs that must notice it.                                   *)
(***************************************************************************)
EXTENDS Groups

CONSTANTS
    Nano,     \* nano ids
    Bit,      \* condition bits
    Tuned     \* the skill of each player's nanos

NoSkill == [bit |-> None, target |-> "none"]
Skill == [bit : Bit, target : {"self", "group"}] \cup {NoSkill}

ASSUME BuffAssumption ==
    /\ None \notin Bit /\ None \notin Nano
    /\ Tuned \in [Player -> [Nano -> Skill]]

VARIABLES
    activeNano,               \* the nano each player has summoned
    iConditionBitFlag,        \* the bits each player shows
    iSelfConditionBitFlag,    \* the bits its own nano gives it
    iGroupConditionBitFlag    \* the bits its own nano gives its group

buffVars == <<activeNano, iConditionBitFlag, iSelfConditionBitFlag, iGroupConditionBitFlag>>
allVars == <<groupVars, buffVars>>

SkillOf(p, n) == IF n = None THEN NoSkill ELSE Tuned[p][n]
ActiveSkill(p) == SkillOf(p, activeNano[p])

GroupFlags(flags, l) == UNION {flags[m] : m \in Members(l) \cap inGame}

\* applyBuff with eTBU 1 and with eTBU 2: the bit is added, or removed unless
\* something in flags or the player's own nano still gives it.
Buffed(p, skill, flags) ==
    IF skill = NoSkill THEN iConditionBitFlag[p]
    ELSE iConditionBitFlag[p] \cup {skill.bit} \cup flags \cup iSelfConditionBitFlag[p]

ForcedOff(p, bits, flags) ==  \* mutant
    iConditionBitFlag[p] \ bits
Unbuffed(p, bits, flags) ==
    LET kept == flags \cup iSelfConditionBitFlag[p]
    IN  IF bits \subseteq kept THEN iConditionBitFlag[p]
        ELSE (iConditionBitFlag[p] \ (bits \ kept)) \cup kept

BitsOf(skills) == {s.bit : s \in skills \ {NoSkill}}

BuffInit ==
    /\ Init
    /\ activeNano = [p \in Player |-> None]
    /\ iConditionBitFlag = [p \in Player |-> {}]
    /\ iSelfConditionBitFlag = [p \in Player |-> {}]
    /\ iGroupConditionBitFlag = [p \in Player |-> {}]

-----------------------------------------------------------------------------

\* A character is loaded without nanos summoned and without buffs.
BuffEnter(p) ==
    /\ EnterAlone(p)
    /\ activeNano' = [activeNano EXCEPT ![p] = None]
    /\ iConditionBitFlag' = [iConditionBitFlag EXCEPT ![p] = {}]
    /\ iSelfConditionBitFlag' = [iSelfConditionBitFlag EXCEPT ![p] = {}]
    /\ iGroupConditionBitFlag' = [iGroupConditionBitFlag EXCEPT ![p] = {}]

\* joinGroup applies the new member's group buff to the others and theirs to it.
BuffJoin(p, q) ==
    /\ Join(p, q)
    /\ LET l == iIDGroup[p]
           flags == GroupFlags(iGroupConditionBitFlag, l) \cup iGroupConditionBitFlag[q]
           givers == {m \in Members(l) : ActiveSkill(m).target = "group"}
       IN  iConditionBitFlag' =
             [m \in Player |->
                IF m = q /\ givers # {}
                THEN UNION {Buffed(q, ActiveSkill(g), flags) : g \in givers}
                ELSE IF m \in Members(l) /\ m # q /\ ActiveSkill(q).target = "group"
                THEN Buffed(m, ActiveSkill(q), flags)
                ELSE iConditionBitFlag[m]]
    /\ UNCHANGED <<activeNano, iSelfConditionBitFlag, iGroupConditionBitFlag>>

\* groupUnbuff: every member loses what the nanos of the others give.
LeaderUnbuff(p) ==
    iConditionBitFlag' =
        [m \in Player |->
            IF m \in Members(p)
            THEN Unbuffed(m, BitsOf({ActiveSkill(g) : g \in Members(p) \ {m}}), {})
            ELSE iConditionBitFlag[m]]

\* groupKickPlayer for a member.  The leaver loses the group buffs of the
\* others; another member loses the leaver's if the leaver's own copy of the
\* nano THAT MEMBER has summoned has a group skill (Groups.cpp:301).
GivesGroupBuff(p, m) == SkillOf(p, activeNano[m]).target = "group"
MemberUnbuff(p) ==
    LET l == iIDGroup[p]
        flags == GroupFlags(iGroupConditionBitFlag, l) \ iGroupConditionBitFlag[p]
        givers == {g \in Members(l) \ {p} : ActiveSkill(g).target = "group"}
    IN  iConditionBitFlag' =
          [m \in Player |->
             IF m = p
             THEN Unbuffed(p, BitsOf({ActiveSkill(g) : g \in givers}), {})
             ELSE IF m \in Members(l) /\ GivesGroupBuff(p, m)
             THEN Unbuffed(m, BitsOf({ActiveSkill(p)}), flags)
             ELSE iConditionBitFlag[m]]

NoUnbuff(p) == UNCHANGED iConditionBitFlag  \* mutant
KickUnbuff(p) ==
    \/ iIDGroup[p] = p /\ LeaderUnbuff(p)
    \/ iIDGroup[p] # p /\ iIDGroup[p] \in inGame /\ MemberUnbuff(p)
    \/ iIDGroup[p] # p /\ iIDGroup[p] \notin inGame /\ UNCHANGED iConditionBitFlag

BuffLeave(p) ==
    /\ Leave(p)
    /\ KickUnbuff(p)
    /\ UNCHANGED <<activeNano, iSelfConditionBitFlag, iGroupConditionBitFlag>>

BuffExit(p) ==
    /\ Exit(p)
    /\ KickUnbuff(p)
    /\ UNCHANGED <<activeNano, iSelfConditionBitFlag, iGroupConditionBitFlag>>

\* findTargets for a passive skill.
Targets(p, skill) ==
    IF skill.target = "self" THEN {p}
    ELSE IF skill.target = "group" /\ iIDGroup[p] \in inGame THEN Members(iIDGroup[p])
    ELSE {}

\* summonNano: the nano that is out takes its buff back (nanoUnbuff), then the
\* new one, unless it only is put away, gives its own (NanoPower::handle, doBuff).
SummonNano(p, n) ==
    /\ p \in inGame
    /\ n # None => Tuned[p][n] # NoSkill
    /\ LET old == ActiveSkill(p)
           new == SkillOf(p, n)
           gone == BitsOf({old})
           given == BitsOf({new})
           self1 == [iSelfConditionBitFlag EXCEPT ![p] = @ \ gone]
           group1 == IF old.target = "group"
                     THEN [iGroupConditionBitFlag EXCEPT ![p] = @ \ gone]
                     ELSE iGroupConditionBitFlag
           flags == IF old.target = "group" /\ iIDGroup[p] \in inGame
                    THEN GroupFlags(group1, iIDGroup[p]) ELSE {}
           cond1 == [m \in Player |->
                       IF m \in Targets(p, old) /\ gone \cap (flags \cup self1[m]) = {}
                       THEN (iConditionBitFlag[m] \ gone) \cup flags \cup self1[m]
                       ELSE iConditionBitFlag[m]]
       IN  /\ iSelfConditionBitFlag' = [self1 EXCEPT ![p] = @ \cup given]
           /\ iGroupConditionBitFlag' = IF new.target = "group"
                                        THEN [group1 EXCEPT ![p] = @ \cup given] ELSE group1
           /\ iConditionBitFlag' = [m \in Player |-> IF m \in Targets(p, new)
                                                     THEN cond1[m] \cup given ELSE cond1[m]]
    /\ activeNano' = [activeNano EXCEPT ![p] = n]
    /\ UNCHANGED groupVars

BuffNext ==
    \/ \E p \in Player : BuffEnter(p) \/ BuffLeave(p) \/ BuffExit(p)
    \/ \E p \in Player, n \in Nano \cup {None} : SummonNano(p, n)
    \/ \E p, q \in Player : BuffJoin(p, q)
    \/ /\ \E p, q \in Player : Invite(p, q) \/ Refuse(p, q) \/ JoinFail(p, q)
       /\ UNCHANGED buffVars

BuffSpec == BuffInit /\ [][BuffNext]_allVars

-----------------------------------------------------------------------------

\* The types of the variables.
BuffTypeOK ==
    /\ GroupsTypeOK
    /\ activeNano \in [Player -> Nano \cup {None}]
    /\ iConditionBitFlag \in [Player -> SUBSET Bit]
    /\ iSelfConditionBitFlag \in [Player -> SUBSET Bit]
    /\ iGroupConditionBitFlag \in [Player -> SUBSET Bit]

\* A player always shows the buff of its own nano, whoever joins, leaves or
\* changes nanos around it (applyBuff and nanoUnbuff spare what is in
\* iSelfConditionBitFlag).
OwnBuffKept == \A p \in inGame : BitsOf({ActiveSkill(p)}) \subseteq iConditionBitFlag[p]

\* Whoever leaves a group, or sees it dissolved, loses what the nanos of the
\* others gave it and its own nano does not give (Groups.cpp:233, 299-300).
LeavingDropsGroupBuffs ==
    [][\A p \in inGame \cap inGame' :
         iIDGroup[p] # p /\ iIDGroup'[p] = p =>
            \A g \in Members(iIDGroup[p]) \ {p} :
                iConditionBitFlag'[p] \cap iGroupConditionBitFlag[g]
                    \subseteq iSelfConditionBitFlag'[p]]_allVars

\* A player shows no buff that neither its own nano nor one of its group gives:
\* "remove the leaving member's buffs from the group and remove the group buffs
\* from the leaving member" (Groups.cpp:298).
NoStrayBuff ==
    \A p \in inGame :
        iConditionBitFlag[p] \subseteq
            iSelfConditionBitFlag[p] \cup GroupFlags(iGroupConditionBitFlag, iIDGroup[p])

=============================================================================
