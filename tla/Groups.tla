------------------------------- MODULE Groups -------------------------------
(***************************************************************************)
(* Groups.cpp: who is grouped with whom.  A group is only known through    *)
(* its members: each player names a leader (iIDGroup), and the leader's    *)
(* array groupIDs[0 .. groupCnt-1] lists the members.  Every player has    *)
(* such an array, of itself alone unless it leads.  The handlers run on    *)
(* the shard thread one after the other; an invitation lives in the        *)
(* client that was asked, and may be answered long after it was sent.      *)
(* An operator marked "mutant" is a slip in the definition that follows    *)
(* it, for the runs that must notice it.                                   *)
(***************************************************************************)
EXTENDS Online, Integers, Sequences, FiniteSets

CONSTANTS
    GroupLimit,  \* 4 in the code: the length of groupIDs
    MaxInvites   \* bound on the invitations that wait for an answer

ASSUME GroupsAssumption ==
    /\ GroupLimit \in Nat \ {0}
    /\ MaxInvites \in Nat

VARIABLES
    iIDGroup,  \* each player's leader
    group,     \* each player's groupIDs, groupCnt long
    invites    \* <<inviter, invited>>: what the invited client can still answer

groupVars == <<inGame, iIDGroup, group, invites>>

Members(l) == {group[l][i] : i \in 1 .. Len(group[l])}

Init ==
    /\ inGame = {}
    /\ iIDGroup = [p \in Player |-> p]
    /\ group = [p \in Player |-> <<p>>]
    /\ invites = {}

\* enterPlayer: a group of one.
EnterAlone(p) ==
    /\ p \notin inGame
    /\ inGame' = inGame \cup {p}
    /\ iIDGroup' = [iIDGroup EXCEPT ![p] = p]
    /\ group' = [group EXCEPT ![p] = <<p>>]
    /\ UNCHANGED invites

\* requestGroup.  A player that is asked while it is in a group of its own or of
\* another is never shown the invitation.  The client lets nobody invite itself.
CanInvite(p, l) == Len(group[p]) < GroupLimit /\ iIDGroup[l] = l /\ Len(group[l]) <= 1
Invite(p, q) ==
    /\ p \in inGame /\ q \in inGame /\ p # q
    /\ iIDGroup[q] \in inGame
    /\ CanInvite(p, iIDGroup[q])
    /\ Cardinality(invites) < MaxInvites
    /\ invites' = invites \cup {<<p, q>>}
    /\ UNCHANGED <<inGame, iIDGroup, group>>

\* refuseGroup, or the window is closed.
Refuse(p, q) ==
    /\ q \in inGame
    /\ <<p, q>> \in invites
    /\ invites' = invites \ {<<p, q>>}
    /\ UNCHANGED <<inGame, iIDGroup, group>>

\* joinGroup's checks are made again, on the group the inviter is in by now.
CanJoinMember(q, l) == Len(group[q]) <= 1 /\ Len(group[l]) < GroupLimit  \* mutant
CanJoin(q, l) == Len(group[q]) <= 1 /\ iIDGroup[q] = q /\ Len(group[l]) < GroupLimit

Answered(p, q) ==
    /\ q \in inGame
    /\ <<p, q>> \in invites
    /\ invites' = invites \ {<<p, q>>}
    /\ UNCHANGED inGame

Join(p, q) ==
    /\ Answered(p, q)
    /\ p \in inGame /\ iIDGroup[p] \in inGame
    /\ LET l == iIDGroup[p]
       IN  /\ CanJoin(q, l)
           /\ iIDGroup' = [iIDGroup EXCEPT ![q] = l]
           /\ group' = [group EXCEPT ![l] = Append(@, q)]

JoinFail(p, q) ==
    /\ Answered(p, q)
    /\ p \in inGame /\ iIDGroup[p] \in inGame => ~CanJoin(q, iIDGroup[p])
    /\ UNCHANGED <<iIDGroup, group>>

\* The loop of groupKickPlayer: what follows p moves down, the count drops.
Truncated(s, p) == SubSeq(s, 1, Len(s) - 1)  \* mutant
Shifted(s, p) ==
    [i \in 1 .. Len(s) - 1 |-> IF \E j \in 1 .. i : s[j] = p THEN s[i + 1] ELSE s[i]]

\* groupKickPlayer: a leader sends everybody back to itself, a member is taken
\* out of its leader's array.
Dissolve(p) ==
    /\ iIDGroup' = [q \in Player |-> IF q \in Members(p) \cap inGame THEN q ELSE iIDGroup[q]]
    /\ group' = [group EXCEPT ![p] = SubSeq(@, 1, 1)]

TakeOut(p) ==
    IF iIDGroup[p] \in inGame
    THEN /\ iIDGroup' = [iIDGroup EXCEPT ![p] = p]
         /\ group' = [group EXCEPT ![iIDGroup[p]] = Shifted(@, p)]
    ELSE UNCHANGED <<iIDGroup, group>>

Kick(p) == (iIDGroup[p] = p /\ Dissolve(p)) \/ (iIDGroup[p] # p /\ TakeOut(p))

\* leaveGroup.
Leave(p) ==
    /\ p \in inGame
    /\ Kick(p)
    /\ UNCHANGED <<inGame, invites>>

\* removePlayer: out of the group first, then out of the game.
LastKick(p) == Kick(p)
Exit(p) ==
    /\ p \in inGame
    /\ LastKick(p)
    /\ inGame' = inGame \ {p}
    /\ invites' = {i \in invites : i[2] # p}

Next ==
    \/ \E p \in Player : EnterAlone(p) \/ Leave(p) \/ Exit(p)
    \/ \E p, q \in Player : Invite(p, q) \/ Refuse(p, q) \/ Join(p, q) \/ JoinFail(p, q)

Spec == Init /\ [][Next]_groupVars

-----------------------------------------------------------------------------

\* The types of the variables.
GroupsTypeOK ==
    /\ inGame \subseteq Player
    /\ iIDGroup \in [Player -> Player]
    /\ group \in [Player -> Seq(Player)]
    /\ invites \subseteq Player \X Player

\* The two ways to tell a group agree: whoever names a leader is in the leader's
\* array, whoever is in a leader's array names it, and only leaders list others.
\* Everything that resolves a group (chat, buffs, mission drops, lairs) starts
\* from iIDGroup and walks over groupIDs.
GroupsAgree ==
    \A p \in inGame :
        /\ iIDGroup[p] \in inGame /\ iIDGroup[iIDGroup[p]] = iIDGroup[p]
        /\ p \in Members(iIDGroup[p])
        /\ iIDGroup[p] = p => \A q \in Members(p) : iIDGroup[q] = p
        /\ iIDGroup[p] # p => group[p] = <<p>>

\* groupUnbuff, nanoUnbuff and the lair entrance look every member up without a
\* check for nullptr (Groups.cpp:225, Abilities.cpp:84): nobody who has left the
\* game is in an array.
MembersInGame == \A p \in inGame : Members(p) \subseteq inGame

\* groupIDs has four entries, and nobody fills two of them, whatever invitations
\* are answered late.
GroupFits ==
    \A p \in inGame :
        /\ Len(group[p]) \in 1 .. GroupLimit /\ group[p][1] = p
        /\ \A i, j \in 1 .. Len(group[p]) : group[p][i] = group[p][j] => i = j

\* What everything that walks over a group relies on, whatever invitations are
\* answered late and whoever disconnects.
GroupsConsistent == GroupsAgree /\ MembersInGame /\ GroupFits

\* Nobody is moved from one group into another: in one step a player joins from
\* being alone or is left alone.
NoSwitch ==
    [][\A p \in inGame \cap inGame' : iIDGroup[p] = p \/ iIDGroup'[p] = p
                                      \/ iIDGroup'[p] = iIDGroup[p]]_groupVars

=============================================================================
