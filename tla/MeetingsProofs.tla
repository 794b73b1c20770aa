--------------------------- MODULE MeetingsProofs ---------------------------
(***************************************************************************)
(* Groups, their shared nano buffs, and trades, for any number of players, *)
(* group size, nanos, trade slots and inventory places, and whatever late  *)
(* answers arrive.                                                         *)
(***************************************************************************)
EXTENDS MCMeetings, DataLemmas

-----------------------------------------------------------------------------
(***************************************************************************)
(* The leaders' arrays and the members' iIDGroup describe the same groups, *)
(* the arrays never overflow and list only players that are in the game.   *)
(* The groups of GroupBuffs are those of Groups, what a player's nano gives *)
(* is recorded exactly, nobody loses the buff of its own nano, and whoever *)
(* leaves a group loses what the nanos of the others gave it.              *)
(***************************************************************************)

ElementsOf(s) == {s[i] : i \in 1 .. Len(s)}
Distinct(s) == \A i, j \in 1 .. Len(s) : s[i] = s[j] => i = j

\* joinGroup's append: one more member, at the end, and nobody twice.
LEMMA Appended ==
    ASSUME NEW s \in Seq(Player), NEW q \in Player, Distinct(s), q \notin ElementsOf(s)
    PROVE  /\ Append(s, q) \in Seq(Player)
           /\ Len(Append(s, q)) = Len(s) + 1
           /\ Distinct(Append(s, q))
           /\ ElementsOf(Append(s, q)) = ElementsOf(s) \cup {q}
           /\ Len(s) > 0 => Append(s, q)[1] = s[1]
  <1> DEFINE t == Append(s, q)
  <1>1. /\ t \in Seq(Player) /\ Len(s) \in Nat /\ Len(t) = Len(s) + 1
        /\ \A i \in 1 .. Len(s) : t[i] = s[i]
        /\ t[Len(s) + 1] = q
    OBVIOUS
  <1> HIDE DEF t
  <1>2. Distinct(t)
    BY <1>1 DEF Distinct, ElementsOf
  <1>3. ElementsOf(t) = ElementsOf(s) \cup {q}
    BY <1>1 DEF ElementsOf
  <1>4. Len(s) > 0 => t[1] = s[1]
    BY <1>1
  <1> QED
    BY <1>1, <1>2, <1>3, <1>4 DEF t

\* groupKickPlayer's loop: the leaver is gone, the others keep their order and
\* the leader its place.
LEMMA ShiftedDown ==
    ASSUME NEW s \in Seq(Player), NEW p \in ElementsOf(s), Distinct(s), p # s[1]
    PROVE  /\ Shifted(s, p) \in Seq(Player)
           /\ Len(Shifted(s, p)) = Len(s) - 1
           /\ Len(s) > 1
           /\ Distinct(Shifted(s, p))
           /\ ElementsOf(Shifted(s, p)) = ElementsOf(s) \ {p}
           /\ Shifted(s, p)[1] = s[1]
  <1> DEFINE t == Shifted(s, p)
  <1>1. PICK k \in 1 .. Len(s) : s[k] = p
    BY DEF ElementsOf
  <1>2. Len(s) \in Nat /\ k \in Nat /\ k > 1 /\ Len(s) > 1
    BY <1>1
  <1>3. \A i \in 1 .. Len(s) - 1 : t[i] = IF i < k THEN s[i] ELSE s[i + 1]
    <2> TAKE i \in 1 .. Len(s) - 1
    <2>1. (\E j \in 1 .. i : s[j] = p) <=> ~(i < k)
      BY <1>1, <1>2 DEF Distinct
    <2> QED
      BY <2>1 DEF Shifted
  <1>4. \A i \in 1 .. Len(s) - 1 : t[i] \in Player
    BY <1>2, <1>3
  <1>5. t \in [1 .. Len(s) - 1 -> Player]
    BY <1>4 DEF Shifted
  <1>6. t \in Seq(Player) /\ Len(t) = Len(s) - 1
    <2>1. Len(s) - 1 \in Nat
      BY <1>2
    <2>2. t \in Seq(Player)
      BY <1>5, <2>1, SeqDef
    <2>3. DOMAIN t = 1 .. Len(s) - 1 /\ DOMAIN t = 1 .. Len(t) /\ Len(t) \in Nat
      BY <1>5, <2>2, LenProperties
    <2> QED
      BY <2>1, <2>2, <2>3
  <1> HIDE DEF t
  <1>7. Distinct(t)
    BY <1>2, <1>3, <1>6 DEF Distinct
  <1>8. ElementsOf(t) = ElementsOf(s) \ {p}
    <2>1. ElementsOf(t) \subseteq ElementsOf(s) \ {p}
      BY <1>1, <1>2, <1>3, <1>6 DEF ElementsOf, Distinct
    <2>2. ASSUME NEW q \in ElementsOf(s) \ {p} PROVE q \in ElementsOf(t)
      <3>1. PICK n \in 1 .. Len(s) : s[n] = q
        BY DEF ElementsOf
      <3>2. CASE n < k
        <4>1. n \in 1 .. Len(t) /\ t[n] = q
          BY <1>2, <1>3, <1>6, <3>1, <3>2
        <4> QED
          BY <4>1 DEF ElementsOf
      <3>3. CASE n > k
        <4>1. n - 1 \in 1 .. Len(t) /\ t[n - 1] = q
          BY <1>2, <1>3, <1>6, <3>1, <3>3
        <4> QED
          BY <4>1 DEF ElementsOf
      <3> QED
        BY <1>1, <1>2, <3>1, <3>2, <3>3
    <2> QED
      BY <2>1, <2>2
  <1>9. t[1] = s[1]
    BY <1>2, <1>3
  <1> QED
    BY <1>2, <1>6, <1>7, <1>8, <1>9 DEF t

\* A group that is dissolved keeps its leader.
LEMMA FirstOnly ==
    ASSUME NEW s \in Seq(Player), Len(s) > 0
    PROVE  SubSeq(s, 1, 1) = <<s[1]>>
  <1>1. s[1] \in Player /\ Len(s) \in Nat
    BY ElementOfSeq, LenProperties
  <1>2. \A i \in 1 .. 1 : s[i] \in Player
    BY <1>1
  <1>3. /\ SubSeq(s, 1, 1) \in Seq(Player) /\ Len(SubSeq(s, 1, 1)) = 1
        /\ SubSeq(s, 1, 1)[1] = s[1]
    BY <1>2, SubSeqProperties
  <1>4. <<s[1]>> \in Seq(Player) /\ Len(<<s[1]>>) = 1 /\ <<s[1]>>[1] = s[1]
    BY <1>1
  <1>5. \A i \in 1 .. Len(SubSeq(s, 1, 1)) : SubSeq(s, 1, 1)[i] = <<s[1]>>[i]
    BY <1>3, <1>4
  <1> QED
    BY <1>3, <1>4, <1>5, SeqEqual

\* A player alone in its group.
LEMMA Alone ==
    ASSUME NEW p \in Player
    PROVE  /\ <<p>> \in Seq(Player) /\ Len(<<p>>) = 1 /\ <<p>>[1] = p
           /\ ElementsOf(<<p>>) = {p} /\ Distinct(<<p>>)
  BY DEF ElementsOf, Distinct

-----------------------------------------------------------------------------
(***************************************************************************)
(* The invariant, of a set G of players, their leaders and their arrays.   *)
(***************************************************************************)
Sound(G, id, grp, p) ==
    /\ id[p] \in G /\ id[id[p]] = id[p]
    /\ p \in ElementsOf(grp[id[p]])
    /\ id[p] = p => \A q \in ElementsOf(grp[p]) : id[q] = p
    /\ id[p] # p => grp[p] = <<p>>
    /\ ElementsOf(grp[p]) \subseteq G
    /\ Len(grp[p]) \in 1 .. GroupLimit /\ grp[p][1] = p
    /\ Distinct(grp[p])

Grouped(G, id, grp) ==
    /\ G \subseteq Player
    /\ id \in [Player -> Player]
    /\ grp \in [Player -> Seq(Player)]
    /\ \A p \in G : Sound(G, id, grp, p)

\* The client lets nobody invite itself.
NoSelfInvite == \A p, q \in Player : <<p, q>> \in invites => p # q

GroupInv == GroupsTypeOK /\ NoSelfInvite /\ Grouped(inGame, iIDGroup, group)

LEMMA GroupInvParts == GroupInv => GroupsAgree /\ MembersInGame /\ GroupFits
  BY DEF GroupInv, Grouped, Sound, GroupsAgree, MembersInGame, GroupFits, Members,
         ElementsOf, Distinct

\* A player that is in nobody else's array enters alone ...
LEMMA AddAlone ==
    ASSUME NEW G, NEW id, NEW grp, Grouped(G, id, grp), NEW p \in Player \ G
    PROVE  Grouped(G \cup {p}, [id EXCEPT ![p] = p], [grp EXCEPT ![p] = <<p>>])
  <1> DEFINE id2 == [id EXCEPT ![p] = p]
             grp2 == [grp EXCEPT ![p] = <<p>>]
  <1>1. id2 \in [Player -> Player] /\ grp2 \in [Player -> Seq(Player)]
    BY Alone DEF Grouped
  <1>2. /\ id2[p] = p /\ grp2[p] = <<p>>
        /\ \A q \in G : q \in Player /\ q # p /\ id2[q] = id[q] /\ grp2[q] = grp[q]
    BY DEF Grouped
  <1> HIDE DEF id2, grp2
  <1>3. Sound(G \cup {p}, id2, grp2, p)
    BY <1>2, Alone, GroupsAssumption DEF Sound
  <1>4. ASSUME NEW q \in G PROVE Sound(G \cup {p}, id2, grp2, q)
    BY <1>2 DEF Grouped, Sound
  <1> QED
    BY <1>1, <1>3, <1>4 DEF Grouped, id2, grp2

\* ... and one that is alone leaves without a trace.
LEMMA DropAlone ==
    ASSUME NEW G, NEW id, NEW grp, Grouped(G, id, grp), NEW p \in G,
           id[p] = p, grp[p] = <<p>>
    PROVE  Grouped(G \ {p}, id, grp)
  <1>1. ElementsOf(grp[p]) = {p}
    BY Alone DEF Grouped
  <1>2. ASSUME NEW q \in G, q # p PROVE Sound(G \ {p}, id, grp, q)
    <2>1. Sound(G, id, grp, q)
      BY DEF Grouped
    <2>2. id[q] # p
      BY <1>1, <1>2, <2>1 DEF Sound
    <2>3. p \notin ElementsOf(grp[q])
      <3>1. CASE id[q] = q
        BY <1>2, <2>1, <3>1 DEF Sound
      <3>2. CASE id[q] # q
        <4>1. grp[q] = <<q>> /\ q \in Player
          BY <2>1, <3>2 DEF Sound, Grouped
        <4>2. ElementsOf(grp[q]) = {q}
          BY <4>1, Alone
        <4> QED
          BY <1>2, <4>2
      <3> QED
        BY <3>1, <3>2
    <2> QED
      BY <2>1, <2>2, <2>3 DEF Sound
  <1> QED
    BY <1>2 DEF Grouped

\* joinGroup: a player that is alone is added to the array of its new leader.
LEMMA JoinGrouped ==
    ASSUME NEW G, NEW id, NEW grp, Grouped(G, id, grp),
           NEW l \in G, NEW q \in G, id[l] = l, id[q] = q,
           Len(grp[q]) <= 1, Len(grp[l]) < GroupLimit, l # q
    PROVE  Grouped(G, [id EXCEPT ![q] = l], [grp EXCEPT ![l] = Append(@, q)])
  <1> DEFINE id2 == [id EXCEPT ![q] = l]
             grp2 == [grp EXCEPT ![l] = Append(@, q)]
  <1>1. /\ l \in Player /\ q \in Player /\ G \subseteq Player
        /\ grp[l] \in Seq(Player) /\ grp[q] \in Seq(Player)
        /\ Sound(G, id, grp, l) /\ Sound(G, id, grp, q)
    BY DEF Grouped
  <1>2. q \notin ElementsOf(grp[l]) /\ Distinct(grp[l])
    BY <1>1 DEF Sound
  <1>3. /\ Append(grp[l], q) \in Seq(Player)
        /\ Len(Append(grp[l], q)) = Len(grp[l]) + 1
        /\ Distinct(Append(grp[l], q))
        /\ ElementsOf(Append(grp[l], q)) = ElementsOf(grp[l]) \cup {q}
        /\ Append(grp[l], q)[1] = grp[l][1]
    BY <1>1, <1>2, Appended DEF Sound
  <1>4. ElementsOf(grp[q]) = {q} /\ grp[q] = <<q>>
    <2>0. Len(grp[q]) \in 1 .. GroupLimit /\ grp[q][1] = q
      BY <1>1 DEF Sound
    <2>1. Len(grp[q]) = 1 /\ grp[q][1] = q
      <3> HIDE DEF id2, grp2
      <3> DEFINE n == Len(grp[q])
      <3>1. n \in 1 .. GroupLimit /\ n <= 1
        BY <2>0
      <3> HIDE DEF n
      <3>2. n = 1
        BY <3>1, GroupsAssumption
      <3> QED
        BY <2>0, <3>2 DEF n
    <2>2. grp[q] = <<q>>
      BY <1>1, <2>1, Alone, SeqEqual
    <2> QED
      BY <1>1, <2>2, Alone
  <1>5. id2 \in [Player -> Player] /\ grp2 \in [Player -> Seq(Player)]
    BY <1>1, <1>3 DEF Grouped
  <1>6. /\ id2[q] = l /\ grp2[l] = Append(grp[l], q)
        /\ \A p \in G : p # q => id2[p] = id[p]
        /\ \A p \in G : p # l => grp2[p] = grp[p]
    BY <1>1 DEF Grouped
  <1> HIDE DEF id2, grp2
  <1>7. ASSUME NEW p \in G PROVE Sound(G, id2, grp2, p)
    <2>1. Sound(G, id, grp, p)
      BY DEF Grouped
    <2>2. id[p] = q => p = q
      BY <1>4, <2>1 DEF Sound
    <2>3. CASE p = q
      BY <1>1, <1>3, <1>4, <1>6, <2>1, <2>3 DEF Sound
    <2>4. CASE p = l
      <3>1. Len(grp2[l]) \in 1 .. GroupLimit
        BY <1>1, <1>3, <1>6, GroupsAssumption DEF Sound
      <3>2. \A m \in ElementsOf(grp2[l]) : id2[m] = l
        BY <1>1, <1>3, <1>6 DEF Sound
      <3>3. ElementsOf(grp2[l]) \subseteq G
        BY <1>1, <1>3, <1>6 DEF Sound
      <3>4. id2[l] = l /\ l \in ElementsOf(grp2[l]) /\ grp2[l][1] = l /\ Distinct(grp2[l])
        BY <1>1, <1>3, <1>6 DEF Sound
      <3> QED
        BY <2>4, <3>1, <3>2, <3>3, <3>4 DEF Sound
    <2>5. CASE p # q /\ p # l
      <3>1. id2[p] = id[p] /\ grp2[p] = grp[p]
        BY <1>6, <2>5
      <3>2. id[p] # q /\ id2[id[p]] = id[p]
        BY <1>6, <2>1, <2>2, <2>5 DEF Sound
      <3>3. p \in ElementsOf(grp2[id[p]])
        BY <1>3, <1>6, <2>1 DEF Sound
      <3>4. id[p] = p => q \notin ElementsOf(grp[p])
        BY <2>1, <2>5 DEF Sound
      <3>5. id[p] = p => \A m \in ElementsOf(grp2[p]) : id2[m] = p
        BY <1>6, <2>1, <3>1, <3>4 DEF Sound
      <3> QED
        BY <2>1, <3>1, <3>2, <3>3, <3>5 DEF Sound
    <2> QED
      BY <2>3, <2>4, <2>5
  <1> QED
    BY <1>5, <1>7 DEF Grouped, id2, grp2

\* groupKickPlayer for a leader: everybody is alone.
LEMMA DissolveGrouped ==
    ASSUME GroupInv, NEW p \in inGame, iIDGroup[p] = p, Dissolve(p)
    PROVE  Grouped(inGame, iIDGroup', group') /\ iIDGroup'[p] = p /\ group'[p] = <<p>>
  <1> DEFINE G == inGame
             id == iIDGroup
             grp == group
  <1>1. /\ G \subseteq Player /\ id \in [Player -> Player] /\ grp \in [Player -> Seq(Player)]
        /\ \A q \in G : Sound(G, id, grp, q)
    BY DEF GroupInv, Grouped
  <1>2. ElementsOf(grp[p]) \subseteq G /\ Members(p) = ElementsOf(grp[p])
    BY <1>1 DEF Sound, Members, ElementsOf
  <1>3. group' = [grp EXCEPT ![p] = <<p>>]
    <2>1. SubSeq(grp[p], 1, 1) = <<p>>
      BY <1>1, FirstOnly DEF Sound
    <2> QED
      BY <2>1 DEF Dissolve
  <1>4. \A q \in Player : iIDGroup'[q] = IF q \in ElementsOf(grp[p]) THEN q ELSE id[q]
    BY <1>2 DEF Dissolve
  <1>5. iIDGroup' \in [Player -> Player] /\ group' \in [Player -> Seq(Player)]
    BY <1>1, <1>3, Alone DEF Dissolve
  <1>6. iIDGroup'[p] = p /\ group'[p] = <<p>> /\ \A q \in Player : q # p => group'[q] = grp[q]
    BY <1>1, <1>3, <1>4
  <1>7. ASSUME NEW q \in G PROVE Sound(G, iIDGroup', group', q)
    <2>1. Sound(G, id, grp, q) /\ q \in Player
      BY <1>1
    <2>2. CASE q = p
      <3>1. /\ iIDGroup'[q] = q /\ group'[q] = <<q>> /\ ElementsOf(<<q>>) = {q}
            /\ Len(<<q>>) \in 1 .. GroupLimit /\ <<q>>[1] = q /\ Distinct(<<q>>)
        BY <1>6, <2>1, <2>2, Alone, GroupsAssumption
      <3> QED
        BY <3>1 DEF Sound
    <2>3. CASE q # p /\ q \in ElementsOf(grp[p])
      <3>1. id[q] = p
        BY <1>1, <2>3 DEF Sound
      <3>2. iIDGroup'[q] = q /\ group'[q] = <<q>>
        BY <1>4, <1>6, <2>1, <2>3, <3>1 DEF Sound
      <3> QED
        BY <2>1, <3>2, Alone, GroupsAssumption DEF Sound
    <2>4. CASE q \notin ElementsOf(grp[p])
      <3>1. q # p /\ id[q] # p
        BY <1>1, <2>1, <2>4 DEF Sound
      <3>2. id[q] \notin ElementsOf(grp[p])
        BY <1>1, <2>1, <3>1 DEF Sound
      <3>3. /\ iIDGroup'[q] = id[q] /\ iIDGroup'[id[q]] = id[id[q]]
            /\ group'[q] = grp[q] /\ group'[id[q]] = grp[id[q]]
        BY <1>1, <1>4, <1>6, <2>1, <2>4, <3>1, <3>2
      <3>4. id[q] = q => \A m \in ElementsOf(grp[q]) : m \in Player /\ m \notin ElementsOf(grp[p])
        BY <1>1, <2>1, <3>1 DEF Sound
      <3>5. id[q] = q => \A m \in ElementsOf(grp[q]) : iIDGroup'[m] = q
        BY <1>4, <2>1, <3>4 DEF Sound
      <3> QED
        BY <2>1, <3>3, <3>5 DEF Sound
    <2> QED
      BY <2>2, <2>3, <2>4
  <1> QED
    BY <1>1, <1>5, <1>6, <1>7 DEF Grouped

\* groupKickPlayer for a member: its leader's array closes over it.
LEMMA TakeOutGrouped ==
    ASSUME GroupInv, NEW p \in inGame, iIDGroup[p] # p, TakeOut(p)
    PROVE  Grouped(inGame, iIDGroup', group') /\ iIDGroup'[p] = p /\ group'[p] = <<p>>
  <1> DEFINE G == inGame
             id == iIDGroup
             grp == group
             l == iIDGroup[p]
  <1>1. /\ G \subseteq Player /\ id \in [Player -> Player] /\ grp \in [Player -> Seq(Player)]
        /\ \A q \in G : Sound(G, id, grp, q)
    BY DEF GroupInv, Grouped
  <1>2. /\ l \in G /\ l # p /\ id[l] = l /\ p \in ElementsOf(grp[l]) /\ grp[p] = <<p>>
        /\ grp[l][1] = l /\ Distinct(grp[l])
    BY <1>1 DEF Sound
  <1>3. /\ Shifted(grp[l], p) \in Seq(Player)
        /\ Len(Shifted(grp[l], p)) = Len(grp[l]) - 1 /\ Len(grp[l]) > 1
        /\ Distinct(Shifted(grp[l], p))
        /\ ElementsOf(Shifted(grp[l], p)) = ElementsOf(grp[l]) \ {p}
        /\ Shifted(grp[l], p)[1] = l
    BY <1>1, <1>2, ShiftedDown
  <1>4. /\ iIDGroup' = [id EXCEPT ![p] = p]
        /\ group' = [grp EXCEPT ![l] = Shifted(grp[l], p)]
    BY <1>2 DEF TakeOut
  <1>5. iIDGroup' \in [Player -> Player] /\ group' \in [Player -> Seq(Player)]
    BY <1>1, <1>3, <1>4
  <1>6. /\ iIDGroup'[p] = p /\ group'[p] = <<p>> /\ group'[l] = Shifted(grp[l], p)
        /\ \A q \in G : q # p => iIDGroup'[q] = id[q]
        /\ \A q \in G : q # l => group'[q] = grp[q]
    BY <1>1, <1>2, <1>4
  <1>7. ASSUME NEW q \in G PROVE Sound(G, iIDGroup', group', q)
    <2>1. Sound(G, id, grp, q) /\ q \in Player /\ id[q] # p
      <3>1. Sound(G, id, grp, q) /\ q \in Player
        BY <1>1
      <3>2. id[q] # p
        BY <1>2, <3>1 DEF Sound
      <3> QED
        BY <3>1, <3>2
    <2>2. CASE q = p
      <3>1. /\ iIDGroup'[q] = q /\ group'[q] = <<q>> /\ ElementsOf(<<q>>) = {q}
            /\ Len(<<q>>) \in 1 .. GroupLimit /\ <<q>>[1] = q /\ Distinct(<<q>>)
        BY <1>6, <2>1, <2>2, Alone, GroupsAssumption
      <3> QED
        BY <3>1 DEF Sound
    <2>3. CASE q = l
      <3>1. Len(group'[l]) \in 1 .. GroupLimit
        <4>1. Len(grp[l]) \in 1 .. GroupLimit
          BY <2>1, <2>3 DEF Sound
        <4> QED
          BY <1>3, <1>6, <4>1, GroupsAssumption
      <3>2. \A m \in ElementsOf(group'[l]) : m \in G /\ iIDGroup'[m] = l
        BY <1>3, <1>6, <2>1, <2>3 DEF Sound
      <3>3. l \in ElementsOf(group'[l])
        BY <1>2, <1>3, <1>6, <2>1, <2>3 DEF Sound
      <3> QED
        BY <1>2, <1>3, <1>6, <2>3, <3>1, <3>2, <3>3 DEF Sound
    <2>4. CASE q # p /\ q # l
      <3>1. iIDGroup'[q] = id[q] /\ group'[q] = grp[q] /\ iIDGroup'[id[q]] = id[q]
        BY <1>6, <2>1, <2>4 DEF Sound
      <3>2. q \in ElementsOf(group'[id[q]])
        BY <1>3, <1>6, <2>1, <2>4 DEF Sound
      <3>3. id[q] = q => p \notin ElementsOf(grp[q])
        BY <2>1, <2>4 DEF Sound
      <3>4. id[q] = q => \A m \in ElementsOf(grp[q]) : iIDGroup'[m] = q
        BY <1>6, <2>1, <3>3 DEF Sound
      <3> QED
        BY <2>1, <3>1, <3>2, <3>4 DEF Sound
    <2> QED
      BY <2>2, <2>3, <2>4
  <1> QED
    BY <1>1, <1>5, <1>6, <1>7 DEF Grouped

LEMMA KickGrouped ==
    ASSUME GroupInv, NEW p \in inGame, Kick(p)
    PROVE  Grouped(inGame, iIDGroup', group') /\ iIDGroup'[p] = p /\ group'[p] = <<p>>
  BY DissolveGrouped, TakeOutGrouped DEF Kick

-----------------------------------------------------------------------------

LEMMA GroupInvInit == Init => GroupInv
  BY Alone DEF Init, GroupInv, Grouped, GroupsTypeOK, NoSelfInvite

\* Whatever Grouped says of the primed variables makes up GroupInv'.
LEMMA Regrouped ==
    ASSUME Grouped(inGame', iIDGroup', group'), invites' \subseteq Player \X Player,
           NoSelfInvite'
    PROVE  GroupInv'
  BY DEF GroupInv, Grouped, Sound, GroupsTypeOK, ElementsOf, Distinct

LEMMA GroupInvStep == GroupInv /\ [Next]_groupVars => GroupInv'
  <1> SUFFICES ASSUME GroupInv, [Next]_groupVars PROVE GroupInv'
    OBVIOUS
  <1>0. Grouped(inGame, iIDGroup, group) /\ invites \subseteq Player \X Player
    BY DEF GroupInv, GroupsTypeOK
  <1> USE DEF NoSelfInvite
  <1>1. ASSUME NEW p \in Player, EnterAlone(p) PROVE GroupInv'
    BY <1>0, <1>1, AddAlone, Regrouped DEF EnterAlone, GroupInv
  <1>2. ASSUME NEW p \in Player, Leave(p) PROVE GroupInv'
    BY <1>0, <1>2, KickGrouped, Regrouped DEF Leave, GroupInv
  <1>3. ASSUME NEW p \in Player, Exit(p) PROVE GroupInv'
    <2>1. p \in inGame /\ Kick(p) /\ inGame' = inGame \ {p} /\ invites' \subseteq invites
      BY <1>3 DEF Exit, LastKick
    <2>2. Grouped(inGame, iIDGroup', group') /\ iIDGroup'[p] = p /\ group'[p] = <<p>>
      BY <2>1, KickGrouped
    <2>3. Grouped(inGame \ {p}, iIDGroup', group')
      BY <2>1, <2>2, DropAlone
    <2> QED
      BY <1>0, <2>1, <2>3, Regrouped DEF GroupInv
  <1>4. ASSUME NEW p \in Player, NEW q \in Player, Invite(p, q) \/ Refuse(p, q) \/ JoinFail(p, q)
        PROVE  GroupInv'
    <2>1. /\ UNCHANGED <<inGame, iIDGroup, group>>
          /\ invites' \subseteq Player \X Player /\ NoSelfInvite'
      BY <1>0, <1>4 DEF Invite, Refuse, JoinFail, Answered, GroupInv
    <2> QED
      BY <1>0, <2>1, Regrouped
  <1>5. ASSUME NEW p \in Player, NEW q \in Player, Join(p, q) PROVE GroupInv'
    <2> DEFINE l == iIDGroup[p]
    <2>1. /\ p \in inGame /\ q \in inGame /\ l \in inGame /\ inGame' = inGame
          /\ iIDGroup[q] = q /\ Len(group[q]) <= 1 /\ Len(group[l]) < GroupLimit
          /\ iIDGroup' = [iIDGroup EXCEPT ![q] = l]
          /\ group' = [group EXCEPT ![l] = Append(@, q)]
          /\ invites' \subseteq invites /\ p # q
      BY <1>5 DEF Join, Answered, CanJoin, GroupInv
    <2>2. iIDGroup[l] = l
      BY <1>0, <2>1 DEF Grouped, Sound
    <2>3. l # q
      <3>2. SUFFICES ASSUME l = q PROVE FALSE
        OBVIOUS
      <3>3. p \in ElementsOf(group[q]) /\ group[q][1] = q /\ group[q] \in Seq(Player)
        BY <1>0, <2>1, <3>2 DEF Grouped, Sound
      <3>4. Len(group[q]) \in Nat /\ \A i \in 1 .. Len(group[q]) : i = 1
        BY <2>1, <3>3, LenProperties
      <3> QED
        BY <2>1, <3>3, <3>4 DEF ElementsOf
    <2>4. Grouped(inGame, iIDGroup', group')
      BY <1>0, <2>1, <2>2, <2>3, JoinGrouped
    <2> QED
      BY <1>0, <2>1, <2>4, Regrouped DEF GroupInv
  <1>6. CASE UNCHANGED groupVars
    BY <1>0, <1>6, Regrouped DEF groupVars, GroupInv
  <1> QED
    BY <1>1, <1>2, <1>3, <1>4, <1>5, <1>6 DEF Next

LEMMA GroupInvariance == Spec => []GroupInv
  BY GroupInvInit, GroupInvStep, PTL DEF Spec

\* Types: every variable keeps its type, also the arrays.
THEOREM GroupsTyping == Spec => []GroupsTypeOK
  <1>1. GroupInv => GroupsTypeOK
    BY DEF GroupInv
  <1> QED
    BY <1>1, GroupInvariance, PTL

\* iIDGroup and groupIDs describe the same groups (Groups.cpp:98-100, 230-313).
THEOREM Agreement == Spec => []GroupsAgree
  BY GroupInvParts, GroupInvariance, PTL

\* No array lists a player that has left the game (Groups.cpp:222-225).
THEOREM NoAbsentMember == Spec => []MembersInGame
  BY GroupInvParts, GroupInvariance, PTL

\* groupIDs never overflows and lists nobody twice (Groups.cpp:87-100).
THEOREM ArraysFit == Spec => []GroupFits
  BY GroupInvParts, GroupInvariance, PTL

\* What walks over a group relies on all three at once (Groups.cpp:222-225, 301).
THEOREM GroupsHold == Spec => []GroupsConsistent
  <1>1. GroupInv => GroupsConsistent
    BY GroupInvParts DEF GroupsConsistent
  <1> QED
    BY <1>1, GroupInvariance, PTL

\* A step changes a player's leader only from itself, by joinGroup, or to itself,
\* by groupKickPlayer: late answers move nobody from one group to another.
THEOREM NobodySwitches == Spec => NoSwitch
  <1> DEFINE Kept == \A p \in inGame \cap inGame' :
        iIDGroup[p] = p \/ iIDGroup'[p] = p \/ iIDGroup'[p] = iIDGroup[p]
  <1>1. GroupInv /\ [Next]_groupVars => Kept
    <2> SUFFICES ASSUME GroupInv, [Next]_groupVars, NEW r \in inGame, r \in inGame'
                 PROVE  iIDGroup[r] = r \/ iIDGroup'[r] = r \/ iIDGroup'[r] = iIDGroup[r]
      OBVIOUS
    <2>0. iIDGroup \in [Player -> Player] /\ r \in Player
      BY DEF GroupInv, GroupsTypeOK
    <2>1. ASSUME NEW p \in Player, EnterAlone(p) PROVE iIDGroup'[r] = iIDGroup[r]
      BY <2>0, <2>1 DEF EnterAlone
    <2>2. ASSUME NEW p \in Player, Kick(p) PROVE iIDGroup'[r] = r \/ iIDGroup'[r] = iIDGroup[r]
      BY <2>0, <2>2 DEF Kick, Dissolve, TakeOut
    <2>3. ASSUME NEW p \in Player, NEW q \in Player, Join(p, q)
          PROVE  iIDGroup[r] = r \/ iIDGroup'[r] = iIDGroup[r]
      BY <2>0, <2>3 DEF Join, CanJoin
    <2>4. ASSUME NEW p \in Player, NEW q \in Player, Invite(p, q) \/ Refuse(p, q) \/ JoinFail(p, q)
          PROVE  iIDGroup' = iIDGroup
      BY <2>4 DEF Invite, Refuse, JoinFail
    <2>5. CASE UNCHANGED groupVars
      BY <2>5 DEF groupVars
    <2> QED
      BY <2>1, <2>2, <2>3, <2>4, <2>5 DEF Next, Leave, Exit, LastKick
  <1>2. []GroupInv /\ [][Next]_groupVars => [][Kept]_groupVars
    BY <1>1, PTL
  <1> QED
    BY <1>2, GroupInvariance, PTL DEF Spec, NoSwitch


-----------------------------------------------------------------------------
(***************************************************************************)
(* The passive nano buffs of a group.                                      *)
(***************************************************************************)

\* What the nano that is out gives its player, and its group.
OwnBits(p) == BitsOf({ActiveSkill(p)})
SharedBits(p) == IF ActiveSkill(p).target = "group" THEN OwnBits(p) ELSE {}

Recorded(p) == iSelfConditionBitFlag[p] = OwnBits(p) /\ iGroupConditionBitFlag[p] = SharedBits(p)
Shown(p) == iSelfConditionBitFlag[p] \subseteq iConditionBitFlag[p]
FlagTypes ==
    /\ activeNano \in [Player -> Nano \cup {None}]
    /\ iConditionBitFlag \in [Player -> SUBSET Bit]
    /\ iSelfConditionBitFlag \in [Player -> SUBSET Bit]
    /\ iGroupConditionBitFlag \in [Player -> SUBSET Bit]

BuffInv ==
    /\ GroupInv
    /\ FlagTypes
    /\ \A p \in Player : Recorded(p) /\ Shown(p)

-----------------------------------------------------------------------------

LEMMA SkillBits ==
    ASSUME NEW skills, skills \subseteq Skill
    PROVE  BitsOf(skills) \subseteq Bit
  BY DEF BitsOf, Skill

LEMMA SkillOfType ==
    ASSUME NEW p \in Player, NEW n \in Nano \cup {None}
    PROVE  SkillOf(p, n) \in Skill
  <1>1. CASE n = None
    BY <1>1 DEF SkillOf, Skill
  <1>2. CASE n # None
    BY <1>2, BuffAssumption DEF SkillOf
  <1> QED
    BY <1>1, <1>2

\* applyBuff with eTBU 1 only adds.
LEMMA BuffedAdds ==
    ASSUME FlagTypes, NEW p \in Player, NEW s \in Skill, NEW mask \in SUBSET Bit
    PROVE  Buffed(p, s, mask) \subseteq Bit /\ iConditionBitFlag[p] \subseteq Buffed(p, s, mask)
  BY DEF Buffed, FlagTypes, Skill

\* applyBuff with eTBU 2 spares the bits of the own nano, and of the others those
\* that stay are in mask.
LEMMA UnbuffedSpares ==
    ASSUME FlagTypes, NEW p \in Player, NEW bits \in SUBSET Bit, NEW mask \in SUBSET Bit, Shown(p)
    PROVE  /\ Unbuffed(p, bits, mask) \subseteq Bit
           /\ iSelfConditionBitFlag[p] \subseteq Unbuffed(p, bits, mask)
           /\ Unbuffed(p, bits, mask) \cap bits \subseteq mask \cup iSelfConditionBitFlag[p]
  BY DEF Unbuffed, FlagTypes, Shown

LEMMA GroupFlagsType ==
    ASSUME NEW mask \in [Player -> SUBSET Bit], inGame \subseteq Player, NEW l
    PROVE  GroupFlags(mask, l) \subseteq Bit
  BY DEF GroupFlags

\* Every step of GroupBuffs is one of Groups or leaves the groups alone.
LEMMA BuffStepIsGroupStep == [BuffNext]_allVars => [Next]_groupVars
  <1> SUFFICES ASSUME [BuffNext]_allVars PROVE [Next]_groupVars
    OBVIOUS
  <1>1. CASE \E p \in Player : BuffEnter(p) \/ BuffLeave(p) \/ BuffExit(p)
    BY <1>1 DEF BuffEnter, BuffLeave, BuffExit, Next
  <1>2. CASE \E p \in Player, n \in Nano \cup {None} : SummonNano(p, n)
    BY <1>2 DEF SummonNano
  <1>3. CASE \E p, q \in Player : BuffJoin(p, q)
    BY <1>3 DEF BuffJoin, Next
  <1>4. CASE \E p, q \in Player : Invite(p, q) \/ Refuse(p, q) \/ JoinFail(p, q)
    BY <1>4 DEF Next
  <1>5. CASE UNCHANGED allVars
    BY <1>5 DEF allVars
  <1> QED
    BY <1>1, <1>2, <1>3, <1>4, <1>5 DEF BuffNext

-----------------------------------------------------------------------------
(***************************************************************************)
(* The invariant.                                                          *)
(***************************************************************************)

LEMMA BuffInvInit == BuffInit => BuffInv
  <1> SUFFICES ASSUME BuffInit PROVE BuffInv
    OBVIOUS
  <1>1. GroupInv
    BY GroupInvInit DEF BuffInit
  <1>2. FlagTypes
    BY DEF BuffInit, FlagTypes
  <1>3. ASSUME NEW p \in Player PROVE Recorded(p) /\ Shown(p)
    <2>1. ActiveSkill(p) = NoSkill
      BY DEF BuffInit, ActiveSkill, SkillOf
    <2>2. OwnBits(p) = {} /\ SharedBits(p) = {}
      BY <2>1 DEF OwnBits, SharedBits, BitsOf
    <2> QED
      BY <2>2 DEF BuffInit, Recorded, Shown
  <1> QED
    BY <1>1, <1>2, <1>3 DEF BuffInv

\* Which bits the members' nanos give.
LEMMA MembersBits ==
    ASSUME BuffInv, NEW ms, ms \subseteq Player
    PROVE  BitsOf({ActiveSkill(g) : g \in ms}) \in SUBSET Bit
  <1>1. \A g \in ms : ActiveSkill(g) \in Skill
    BY SkillOfType DEF BuffInv, FlagTypes, ActiveSkill
  <1> QED
    BY <1>1, SkillBits

LEMMA MembersArePlayers ==
    ASSUME BuffInv, NEW l \in Player
    PROVE  Members(l) \subseteq Player /\ inGame \subseteq Player
  BY DEF BuffInv, GroupInv, GroupsTypeOK, Members

\* groupUnbuff and the loop of groupKickPlayer keep types and own buffs.
LEMMA KickKeepsShown ==
    ASSUME BuffInv, NEW p \in inGame, KickUnbuff(p)
    PROVE  /\ iConditionBitFlag' \in [Player -> SUBSET Bit]
           /\ \A m \in Player : iSelfConditionBitFlag[m] \subseteq iConditionBitFlag'[m]
  <1>0. /\ FlagTypes /\ p \in Player /\ iIDGroup[p] \in Player
        /\ \A m \in Player : Shown(m)
    BY DEF BuffInv, GroupInv, GroupsTypeOK
  <1> DEFINE Fine(m, c) == c \subseteq Bit /\ iSelfConditionBitFlag[m] \subseteq c
  <1>1. \A m \in Player : Fine(m, iConditionBitFlag[m])
    BY <1>0 DEF FlagTypes, Shown
  <1>2. ASSUME NEW m \in Player, NEW bits \in SUBSET Bit, NEW mask \in SUBSET Bit
        PROVE  Fine(m, Unbuffed(m, bits, mask))
    BY <1>0, <1>2, UnbuffedSpares
  <1>3. CASE LeaderUnbuff(p)
    <2>1. \A m \in Player : BitsOf({ActiveSkill(g) : g \in Members(p) \ {m}}) \in SUBSET Bit
      BY <1>0, MembersBits, MembersArePlayers
    <2> DEFINE new(m) == Unbuffed(m, BitsOf({ActiveSkill(g) : g \in Members(p) \ {m}}), {})
    <2>2. \A m \in Player : Fine(m, new(m))
      BY <1>2, <2>1
    <2>3. iConditionBitFlag' = [m \in Player |-> IF m \in Members(p) THEN new(m)
                                                ELSE iConditionBitFlag[m]]
      BY <1>3 DEF LeaderUnbuff
    <2> HIDE DEF new
    <2> QED
      BY <1>1, <2>2, <2>3
  <1>4. CASE MemberUnbuff(p)
    <2> DEFINE l == iIDGroup[p]
               mask == GroupFlags(iGroupConditionBitFlag, l) \ iGroupConditionBitFlag[p]
               givers == {g \in Members(l) \ {p} : ActiveSkill(g).target = "group"}
               mine == Unbuffed(p, BitsOf({ActiveSkill(g) : g \in givers}), {})
               others(m) == Unbuffed(m, BitsOf({ActiveSkill(p)}), mask)
    <2>1. mask \in SUBSET Bit
      BY <1>0, GroupFlagsType, MembersArePlayers DEF FlagTypes
    <2>2. /\ BitsOf({ActiveSkill(g) : g \in givers}) \in SUBSET Bit
          /\ BitsOf({ActiveSkill(p)}) \in SUBSET Bit
      <3>1. givers \subseteq Player
        BY <1>0, MembersArePlayers
      <3>2. BitsOf({ActiveSkill(g) : g \in givers}) \in SUBSET Bit
        BY <3>1, MembersBits
      <3>3. ActiveSkill(p) \in Skill
        BY <1>0, SkillOfType DEF FlagTypes, ActiveSkill
      <3> QED
        BY <3>2, <3>3, SkillBits
    <2>3. Fine(p, mine) /\ \A m \in Player : Fine(m, others(m))
      BY <1>0, <1>2, <2>1, <2>2
    <2>4. iConditionBitFlag' =
            [m \in Player |-> IF m = p THEN mine
                              ELSE IF m \in Members(l) /\ GivesGroupBuff(p, m) THEN others(m)
                              ELSE iConditionBitFlag[m]]
      BY <1>4 DEF MemberUnbuff
    <2> HIDE DEF mine, others
    <2> QED
      BY <1>1, <2>3, <2>4
  <1>5. CASE UNCHANGED iConditionBitFlag
    BY <1>0, <1>1, <1>5 DEF FlagTypes
  <1> QED
    BY <1>3, <1>4, <1>5 DEF KickUnbuff

\* Where no nano comes or goes, what is recorded stays true.
LEMMA RecordedStays ==
    ASSUME BuffInv, UNCHANGED <<activeNano, iSelfConditionBitFlag, iGroupConditionBitFlag>>
    PROVE  \A p \in Player : Recorded(p)'
  BY DEF BuffInv, Recorded, OwnBits, SharedBits, ActiveSkill, SkillOf

LEMMA BuffEnterStep ==
    ASSUME BuffInv, NEW p \in Player, BuffEnter(p)
    PROVE  FlagTypes' /\ \A m \in Player : Recorded(m)' /\ Shown(m)'
  <1>1. FlagTypes'
    BY DEF BuffInv, FlagTypes, BuffEnter
  <1>2. ASSUME NEW m \in Player, m # p PROVE Recorded(m)' /\ Shown(m)'
    BY <1>2 DEF BuffInv, FlagTypes, BuffEnter, Recorded, Shown, OwnBits, SharedBits, ActiveSkill
  <1>3. Recorded(p)' /\ Shown(p)'
    <2>1. activeNano'[p] = None /\ iSelfConditionBitFlag'[p] = {} /\ iGroupConditionBitFlag'[p] = {}
      BY DEF BuffInv, FlagTypes, BuffEnter
    <2>2. BitsOf({NoSkill}) = {}
      BY DEF BitsOf
    <2> QED
      BY <2>1, <2>2 DEF Recorded, Shown, OwnBits, SharedBits, ActiveSkill, SkillOf
  <1> QED
    BY <1>1, <1>2, <1>3

LEMMA BuffJoinStep ==
    ASSUME BuffInv, NEW p \in Player, NEW q \in Player, BuffJoin(p, q)
    PROVE  FlagTypes' /\ \A m \in Player : Recorded(m)' /\ Shown(m)'
  <1> DEFINE l == iIDGroup[p]
             mask == GroupFlags(iGroupConditionBitFlag, l) \cup iGroupConditionBitFlag[q]
             givers == {m \in Members(l) : ActiveSkill(m).target = "group"}
             taken == UNION {Buffed(q, ActiveSkill(g), mask) : g \in givers}
             given(m) == Buffed(m, ActiveSkill(q), mask)
             Fine(m, c) == c \subseteq Bit /\ iSelfConditionBitFlag[m] \subseteq c
  <1>0. /\ FlagTypes /\ l \in Player /\ \A m \in Player : Shown(m)
        /\ Members(l) \subseteq Player
    BY MembersArePlayers DEF BuffInv, GroupInv, GroupsTypeOK
  <1>1. mask \in SUBSET Bit
    BY <1>0, GroupFlagsType, MembersArePlayers DEF FlagTypes
  <1>2. \A m \in Player : ActiveSkill(m) \in Skill
    BY <1>0, SkillOfType DEF FlagTypes, ActiveSkill
  <1>3. ASSUME NEW m \in Player, NEW skill \in Skill PROVE Fine(m, Buffed(m, skill, mask))
    BY <1>0, <1>1, BuffedAdds DEF Shown
  <1>4. givers # {} => Fine(q, taken)
    <2>1. \A g \in givers : Fine(q, Buffed(q, ActiveSkill(g), mask))
      BY <1>0, <1>2, <1>3
    <2> HIDE DEF mask, givers
    <2> QED
      BY <2>1
  <1>5. \A m \in Player : Fine(m, given(m)) /\ Fine(m, iConditionBitFlag[m])
    BY <1>0, <1>2, <1>3 DEF FlagTypes, Shown
  <1>6. iConditionBitFlag' =
          [m \in Player |-> IF m = q /\ givers # {} THEN taken
                            ELSE IF m \in Members(l) /\ m # q /\ ActiveSkill(q).target = "group"
                            THEN given(m) ELSE iConditionBitFlag[m]]
    BY DEF BuffJoin
  <1>7. UNCHANGED <<activeNano, iSelfConditionBitFlag, iGroupConditionBitFlag>>
    BY DEF BuffJoin
  <1> HIDE DEF taken, given, givers, mask
  <1>8. \A m \in Player : Fine(m, iConditionBitFlag'[m])
    BY <1>4, <1>5, <1>6
  <1>9. FlagTypes' /\ \A m \in Player : Shown(m)'
    BY <1>0, <1>6, <1>7, <1>8 DEF FlagTypes, Shown
  <1> QED
    BY <1>7, <1>9, RecordedStays

\* summonNano: the old nano takes back what it gave, the new one gives its own to
\* targets its player is one of.
LEMMA SummonStep ==
    ASSUME BuffInv, NEW p \in Player, NEW n \in Nano \cup {None}, SummonNano(p, n)
    PROVE  FlagTypes' /\ \A m \in Player : Recorded(m)' /\ Shown(m)'
  <1> DEFINE old == ActiveSkill(p)
             new == SkillOf(p, n)
             gone == BitsOf({old})
             given == BitsOf({new})
             self1 == [iSelfConditionBitFlag EXCEPT ![p] = @ \ gone]
             group1 == IF old.target = "group"
                       THEN [iGroupConditionBitFlag EXCEPT ![p] = @ \ gone]
                       ELSE iGroupConditionBitFlag
             mask == IF old.target = "group" /\ iIDGroup[p] \in inGame
                      THEN GroupFlags(group1, iIDGroup[p]) ELSE {}
             cond1 == [m \in Player |->
                         IF m \in Targets(p, old) /\ gone \cap (mask \cup self1[m]) = {}
                         THEN (iConditionBitFlag[m] \ gone) \cup mask \cup self1[m]
                         ELSE iConditionBitFlag[m]]
  <1>0. /\ FlagTypes /\ \A m \in Player : Recorded(m) /\ Shown(m)
        /\ p \in inGame /\ inGame \subseteq Player
    BY DEF BuffInv, GroupInv, GroupsTypeOK, SummonNano
  <1>1. old \in Skill /\ new \in Skill
    BY <1>0, SkillOfType DEF FlagTypes, ActiveSkill
  <1>2. gone \in SUBSET Bit /\ given \in SUBSET Bit
    BY <1>1, SkillBits
  <1>3. self1 \in [Player -> SUBSET Bit] /\ group1 \in [Player -> SUBSET Bit]
    BY <1>0 DEF FlagTypes
  <1>4. mask \in SUBSET Bit
    BY <1>0, <1>3, GroupFlagsType
  <1>5. /\ iSelfConditionBitFlag' = [self1 EXCEPT ![p] = @ \cup given]
        /\ iGroupConditionBitFlag' = IF new.target = "group"
                                     THEN [group1 EXCEPT ![p] = @ \cup given] ELSE group1
        /\ iConditionBitFlag' = [m \in Player |-> IF m \in Targets(p, new)
                                                  THEN cond1[m] \cup given ELSE cond1[m]]
        /\ activeNano' = [activeNano EXCEPT ![p] = n]
    BY DEF SummonNano
  \* The nano's player is among its targets, unless it gives nothing.
  <1>6. new # NoSkill => p \in Targets(p, new)
    <2>1. iIDGroup[p] \in inGame /\ p \in Members(iIDGroup[p])
      BY <1>0, GroupInvParts DEF BuffInv, GroupsAgree
    <2>2. new # NoSkill => new.target \in {"self", "group"}
      BY <1>1 DEF Skill
    <2> QED
      BY <2>1, <2>2 DEF Targets
  <1>7. new = NoSkill => given = {}
    BY DEF BitsOf
  \* What p's nano gave was all there was to take back.
  <1>8. self1[p] = {} /\ group1[p] = {}
    <2>1. iSelfConditionBitFlag[p] = gone
      BY <1>0 DEF Recorded, OwnBits
    <2>2. iGroupConditionBitFlag[p] = IF old.target = "group" THEN gone ELSE {}
      BY <1>0 DEF Recorded, SharedBits, OwnBits
    <2> QED
      BY <1>0, <2>1, <2>2 DEF FlagTypes
  <1> HIDE DEF gone, given, mask
  <1>9. ASSUME NEW m \in Player
        PROVE  cond1[m] \subseteq Bit /\ (m # p => iSelfConditionBitFlag[m] \subseteq cond1[m])
    <2>1. m # p => self1[m] = iSelfConditionBitFlag[m]
      BY <1>0 DEF FlagTypes
    <2>2. iConditionBitFlag[m] \subseteq Bit /\ self1[m] \subseteq Bit
          /\ iSelfConditionBitFlag[m] \subseteq iConditionBitFlag[m]
      BY <1>0, <1>3 DEF FlagTypes, Shown
    <2> HIDE DEF self1
    <2> QED
      BY <1>4, <2>1, <2>2
  <1>10. /\ iSelfConditionBitFlag'[p] = given
         /\ iGroupConditionBitFlag'[p] = IF new.target = "group" THEN given ELSE {}
         /\ \A m \in Player : m # p => /\ iSelfConditionBitFlag'[m] = iSelfConditionBitFlag[m]
                                       /\ iGroupConditionBitFlag'[m] = iGroupConditionBitFlag[m]
    BY <1>0, <1>3, <1>5, <1>8 DEF FlagTypes
  <1>11. FlagTypes'
    <2>1. /\ iSelfConditionBitFlag' \in [Player -> SUBSET Bit]
          /\ iGroupConditionBitFlag' \in [Player -> SUBSET Bit]
      BY <1>2, <1>3, <1>5
    <2>2. iConditionBitFlag' \in [Player -> SUBSET Bit]
      <3> HIDE DEF cond1
      <3> QED
        BY <1>2, <1>5, <1>9
    <2> QED
      BY <1>0, <1>5, <2>1, <2>2 DEF FlagTypes
  <1>12. ASSUME NEW m \in Player PROVE Shown(m)'
    <2> HIDE DEF cond1
    <2>1. CASE m = p
      BY <1>5, <1>6, <1>7, <1>10, <2>1 DEF Shown
    <2>2. CASE m # p
      BY <1>5, <1>9, <1>10, <2>2 DEF Shown
    <2> QED
      BY <2>1, <2>2
  <1>13. ASSUME NEW m \in Player PROVE Recorded(m)'
    <2>1. CASE m = p
      <3>1. ActiveSkill(p)' = new
        BY <1>0, <1>5 DEF FlagTypes, ActiveSkill, SkillOf
      <3>2. OwnBits(p)' = given /\ SharedBits(p)' = IF new.target = "group" THEN given ELSE {}
        BY <3>1 DEF OwnBits, SharedBits, BitsOf, given
      <3> QED
        BY <1>10, <2>1, <3>2 DEF Recorded
    <2>2. CASE m # p
      <3>1. ActiveSkill(m)' = ActiveSkill(m)
        BY <1>0, <1>5, <2>2 DEF FlagTypes, ActiveSkill, SkillOf
      <3>2. OwnBits(m)' = OwnBits(m) /\ SharedBits(m)' = SharedBits(m)
        BY <3>1 DEF OwnBits, SharedBits, BitsOf
      <3> QED
        BY <1>0, <1>10, <2>2, <3>2 DEF Recorded
    <2> QED
      BY <2>1, <2>2
  <1> QED
    BY <1>11, <1>12, <1>13

LEMMA BuffInvStep == BuffInv /\ [BuffNext]_allVars => BuffInv'
  <1> SUFFICES ASSUME BuffInv, [BuffNext]_allVars PROVE BuffInv'
    OBVIOUS
  <1> DEFINE Goal == FlagTypes' /\ \A m \in Player : Recorded(m)' /\ Shown(m)'
  <1>1. GroupInv'
    BY BuffStepIsGroupStep, GroupInvStep DEF BuffInv
  <1>2. ASSUME NEW p \in Player, BuffLeave(p) \/ BuffExit(p) PROVE Goal
    <2>1. /\ p \in inGame /\ KickUnbuff(p)
          /\ UNCHANGED <<activeNano, iSelfConditionBitFlag, iGroupConditionBitFlag>>
      BY <1>2 DEF BuffLeave, BuffExit, Leave, Exit
    <2>2. /\ iConditionBitFlag' \in [Player -> SUBSET Bit]
          /\ \A m \in Player : iSelfConditionBitFlag[m] \subseteq iConditionBitFlag'[m]
      BY <2>1, KickKeepsShown
    <2> QED
      BY <2>1, <2>2, RecordedStays DEF BuffInv, FlagTypes, Shown
  <1>3. ASSUME UNCHANGED buffVars PROVE Goal
    <2>1. /\ UNCHANGED <<activeNano, iSelfConditionBitFlag, iGroupConditionBitFlag>>
          /\ UNCHANGED iConditionBitFlag
      BY <1>3 DEF buffVars
    <2> QED
      BY <2>1, RecordedStays DEF BuffInv, FlagTypes, Shown
  <1>4. ASSUME NEW p \in Player, BuffEnter(p) PROVE Goal
    BY <1>4, BuffEnterStep
  <1>5. ASSUME NEW p \in Player, NEW q \in Player, BuffJoin(p, q) PROVE Goal
    BY <1>5, BuffJoinStep
  <1>6. ASSUME NEW p \in Player, NEW n \in Nano \cup {None}, SummonNano(p, n) PROVE Goal
    BY <1>6, SummonStep
  <1>7. Goal
    <2> HIDE DEF Goal
    <2>1. CASE UNCHANGED allVars
      BY <1>3, <2>1 DEF allVars
    <2>2. CASE BuffNext
      BY <1>2, <1>3, <1>4, <1>5, <1>6, <2>2 DEF BuffNext
    <2> QED
      BY <2>1, <2>2
  <1> QED
    BY <1>1, <1>7 DEF BuffInv

LEMMA BuffInvariance == BuffSpec => []BuffInv
  BY BuffInvInit, BuffInvStep, PTL DEF BuffSpec

-----------------------------------------------------------------------------

\* The groups that share buffs are those of Groups: GroupBuffs implements it.
THEOREM BuffsRefineGroups == BuffSpec => Spec
  <1>1. BuffInit => Init
    BY DEF BuffInit
  <1> QED
    BY <1>1, BuffStepIsGroupStep, PTL DEF BuffSpec, Spec

\* Types: no condition bit comes from anywhere but a skill.
THEOREM BuffTyping == BuffSpec => []BuffTypeOK
  <1>1. BuffInv => BuffTypeOK
    BY DEF BuffInv, GroupInv, FlagTypes, BuffTypeOK
  <1> QED
    BY <1>1, BuffInvariance, PTL

\* iIDGroup and groupIDs agree, fit and list nobody who is gone, also while buffs
\* come and go (Groups.cpp:98-147, 230-313).
THEOREM BuffedGroupsHold == BuffSpec => []GroupsConsistent
  BY BuffsRefineGroups, GroupsHold, PTL

\* Nobody loses the buff of its own nano to what others do (Abilities.cpp:104-134).
THEOREM OwnBuffStays == BuffSpec => []OwnBuffKept
  <1>1. BuffInv => OwnBuffKept
    BY DEF BuffInv, GroupInv, GroupsTypeOK, Recorded, Shown, OwnBits, OwnBuffKept
  <1> QED
    BY <1>1, BuffInvariance, PTL

\* Whoever leaves a group, or sees its leader go, keeps of what the nanos of the
\* others gave only what its own nano gives too (Groups.cpp:216-228, 299-300).
THEOREM LeaversLoseBuffs == BuffSpec => LeavingDropsGroupBuffs
  <1> DEFINE Dropped == \A p \in inGame \cap inGame' :
         iIDGroup[p] # p /\ iIDGroup'[p] = p =>
            \A g \in Members(iIDGroup[p]) \ {p} :
                iConditionBitFlag'[p] \cap iGroupConditionBitFlag[g]
                    \subseteq iSelfConditionBitFlag'[p]
  <1>1. BuffInv /\ [BuffNext]_allVars => Dropped
    <2> SUFFICES ASSUME BuffInv, [BuffNext]_allVars,
                        NEW p \in inGame, p \in inGame', iIDGroup[p] # p, iIDGroup'[p] = p,
                        NEW g \in Members(iIDGroup[p]) \ {p}
                 PROVE  iConditionBitFlag'[p] \cap iGroupConditionBitFlag[g]
                            \subseteq iSelfConditionBitFlag'[p]
      OBVIOUS
    <2> DEFINE l == iIDGroup[p]
    <2>0. /\ FlagTypes /\ p \in Player /\ l \in inGame /\ l \in Player /\ g \in Player
          /\ inGame \subseteq Player /\ Shown(p) /\ iIDGroup[l] = l /\ p \in Members(l)
          /\ iIDGroup \in [Player -> Player]
          /\ \A m \in inGame : iIDGroup[m] = m => \A q \in Members(m) : iIDGroup[q] = m
          /\ Members(l) \subseteq Player
      BY MembersArePlayers, GroupInvParts DEF BuffInv, GroupInv, GroupsTypeOK, GroupsAgree
    <2>1. iGroupConditionBitFlag[g] = SharedBits(g)
      BY <2>0 DEF BuffInv, Recorded
    \* What the leaver is freed of covers what g gave its group.
    <2>2. ASSUME NEW givers \in SUBSET Player, ActiveSkill(g).target = "group" => g \in givers,
                 iConditionBitFlag'[p] = Unbuffed(p, BitsOf({ActiveSkill(m) : m \in givers}), {}),
                 UNCHANGED iSelfConditionBitFlag
          PROVE  iConditionBitFlag'[p] \cap iGroupConditionBitFlag[g] \subseteq iSelfConditionBitFlag'[p]
      <3> DEFINE bits == BitsOf({ActiveSkill(m) : m \in givers})
      <3>1. bits \in SUBSET Bit
        BY MembersBits
      <3>2. Unbuffed(p, bits, {}) \cap bits \subseteq iSelfConditionBitFlag[p]
        BY <2>0, <3>1, UnbuffedSpares
      <3>3. SharedBits(g) \subseteq bits
        BY <2>2 DEF SharedBits, OwnBits, BitsOf
      <3> QED
        BY <2>1, <2>2, <3>2, <3>3
    <2>3. ASSUME NEW x \in Player, Kick(x), KickUnbuff(x), x \in inGame,
                 UNCHANGED iSelfConditionBitFlag
          PROVE  iConditionBitFlag'[p] \cap iGroupConditionBitFlag[g] \subseteq iSelfConditionBitFlag'[p]
      <3>1. CASE iIDGroup[x] = x
        <4>1. p \in Members(x) /\ x = l
          BY <2>0, <2>3, <3>1 DEF Kick, Dissolve
        <4>2. LeaderUnbuff(l)
          BY <2>3, <3>1, <4>1 DEF KickUnbuff
        <4>3. iConditionBitFlag'[p] =
                Unbuffed(p, BitsOf({ActiveSkill(m) : m \in Members(l) \ {p}}), {})
          BY <2>0, <4>2 DEF LeaderUnbuff
        <4> DEFINE givers == Members(l) \ {p}
        <4>4. givers \in SUBSET Player /\ g \in givers
          BY <2>0
        <4>5. iConditionBitFlag'[p] = Unbuffed(p, BitsOf({ActiveSkill(m) : m \in givers}), {})
          BY <4>3
        <4> HIDE DEF givers
        <4> QED
          BY <2>2, <2>3, <4>4, <4>5
      <3>2. CASE iIDGroup[x] # x
        <4>1. x = p
          BY <2>0, <2>3, <3>2 DEF Kick, TakeOut
        <4>2. MemberUnbuff(p)
          BY <2>0, <2>3, <4>1 DEF KickUnbuff
        <4> DEFINE givers == {m \in Members(l) \ {p} : ActiveSkill(m).target = "group"}
        <4>3. iConditionBitFlag'[p] = Unbuffed(p, BitsOf({ActiveSkill(m) : m \in givers}), {})
          BY <2>0, <4>2 DEF MemberUnbuff
        <4>4. givers \in SUBSET Player /\ (ActiveSkill(g).target = "group" => g \in givers)
          BY <2>0
        <4> QED
          BY <2>2, <2>3, <4>3, <4>4
      <3> QED
        BY <3>1, <3>2
    <2>4. ASSUME NEW x \in Player, BuffLeave(x) \/ BuffExit(x)
          PROVE  Kick(x) /\ KickUnbuff(x) /\ x \in inGame /\ UNCHANGED iSelfConditionBitFlag
      BY <2>4 DEF BuffLeave, BuffExit, Leave, Exit, LastKick
    <2>5. ASSUME NEW x \in Player, BuffEnter(x) PROVE FALSE
      BY <2>0, <2>5 DEF BuffEnter, EnterAlone
    <2>6. ASSUME NEW x \in Player, NEW n \in Nano \cup {None}, SummonNano(x, n) PROVE FALSE
      BY <2>6 DEF SummonNano, groupVars
    <2>7. ASSUME NEW x \in Player, NEW y \in Player, BuffJoin(x, y) PROVE FALSE
      BY <2>0, <2>7 DEF BuffJoin, Join, CanJoin
    <2>8. ASSUME NEW x \in Player, NEW y \in Player, Invite(x, y) \/ Refuse(x, y) \/ JoinFail(x, y)
          PROVE  FALSE
      BY <2>8 DEF Invite, Refuse, JoinFail
    <2>9. CASE UNCHANGED allVars
      BY <2>9 DEF allVars, groupVars
    <2> QED
      BY <2>3, <2>4, <2>5, <2>6, <2>7, <2>8, <2>9 DEF BuffNext
  <1>2. []BuffInv /\ [][BuffNext]_allVars => [][Dropped]_allVars
    BY <1>1, PTL
  <1> QED
    BY <1>2, BuffInvariance, PTL DEF BuffSpec, LeavingDropsGroupBuffs

-----------------------------------------------------------------------------
(***************************************************************************)
(* What tradeConfirm relies on: a confirmation belongs to the trade that is *)
(* going on, what it confirmed stays as it was, and taros only change hands. *)
(***************************************************************************)

\* As much of the types as the proofs need.
FlagsOK ==
    /\ isTrading \in [Player -> BOOLEAN]
    /\ isTradeConfirm \in [Player -> BOOLEAN]
    /\ DOMAIN Trade = Player /\ DOMAIN Inven = Player
    /\ moneyInTrade \in [Player -> Int]
    /\ money \in [Player -> Int]

FlagsInv == FlagsOK /\ ConfirmWhileTrading

LEMMA FlagsInit == TradingInit => FlagsInv
  <1> SUFFICES ASSUME TradingInit PROVE FlagsInv
    OBVIOUS
  <1>1. money \in [Player -> Int]
    BY TradingAssumption DEF TradingInit
  <1> QED
    BY <1>1, TradingAssumption DEF TradingInit, FlagsInv, FlagsOK, ConfirmWhileTrading

\* One step per action; the three ways to change an offer are alike.
LEMMA FlagsStep == FlagsInv /\ [TradingNext]_tradeVars => FlagsInv'
  <1> SUFFICES ASSUME FlagsInv, [TradingNext]_tradeVars PROVE FlagsInv'
    OBVIOUS
  <1> USE DEF FlagsInv, FlagsOK, ConfirmWhileTrading
  <1>1. ASSUME NEW p \in Player, EnterGame(p) PROVE FlagsInv'
    BY <1>1 DEF EnterGame, owned
  <1>2. ASSUME NEW p \in Player, ExitGame(p) \/ CancelAlone(p) PROVE FlagsInv'
    BY <1>2 DEF ExitGame, CancelAlone, owned, flags, offered
  <1>3. ASSUME NEW p \in Player, NEW q \in Player, TradeOffer(p, q) \/ TradeOfferRefusal(p, q)
        PROVE FlagsInv'
    BY <1>3 DEF TradeOffer, TradeOfferRefusal, owned, flags, offered
  <1>4. ASSUME NEW p \in Player, NEW q \in Player, TradeOfferAccept(p, q) PROVE FlagsInv'
    <2>1. isTrading' \in [Player -> BOOLEAN] /\ isTradeConfirm' \in [Player -> BOOLEAN]
      BY <1>4 DEF TradeOfferAccept
    <2>2. ConfirmWhileTrading'
      BY <1>4 DEF TradeOfferAccept
    <2>3. DOMAIN Trade' = Player /\ moneyInTrade' \in [Player -> Int]
      BY <1>4 DEF TradeOfferAccept
    <2> QED
      BY <1>4, <2>1, <2>2, <2>3 DEF TradeOfferAccept, owned
  <1>5. ASSUME NEW p \in Player, NEW q \in Player, TradeStep(p, q) PROVE FlagsInv'
    <2>1. CASE ConfirmAbort(p, q)
      BY <2>1 DEF ConfirmAbort, owned, flags, offered
    <2>2. CASE ConfirmFirst(p, q)
      BY <2>2 DEF ConfirmFirst, owned, offered
    <2>3. CASE ConfirmSecond(p, q)
      <3>1. /\ isTrading' \in [Player -> BOOLEAN]
            /\ isTradeConfirm' \in [Player -> BOOLEAN]
            /\ ConfirmWhileTrading'
        BY <2>3 DEF ConfirmSecond, Ended
      <3>2. UNCHANGED offered
        BY <2>3 DEF ConfirmSecond
      <3>3. money' \in [Player -> Int] /\ DOMAIN Inven' = Player
        BY <2>3 DEF ConfirmSecond, owned
      <3> QED
        BY <3>1, <3>2, <3>3 DEF offered
    <2>4. CASE ConfirmCancel(p, q)
      BY <2>4 DEF ConfirmCancel, Ended, owned, offered
    <2>5. ASSUME NEW i \in TradeSlot, UnregisterItem(p, q, i) PROVE FlagsInv'
      BY <2>5 DEF UnregisterItem, Unconfirmed, owned
    <2>6. ASSUME NEW i \in TradeSlot, NEW place \in Place, NEW n \in 1 .. Inven[p][place].opt,
                 RegisterItem(p, q, i, place, n)
          PROVE FlagsInv'
      BY <2>6 DEF RegisterItem, Unconfirmed, owned
    <2>7. ASSUME NEW n \in 0 .. money[p], RegisterCash(p, q, n) PROVE FlagsInv'
      BY <2>7 DEF RegisterCash, Unconfirmed, owned
    <2> QED
      BY <1>5, <2>1, <2>2, <2>3, <2>4, <2>5, <2>6, <2>7 DEF TradeStep
  <1>6. ASSUME NEW p \in Player, NEW item \in Item, VendorBuy(p, item) PROVE FlagsInv'
    BY <1>6, TradingAssumption DEF VendorBuy, flags, offered
  <1>7. ASSUME NEW p \in Player, NEW place \in Place, ItemDelete(p, place) PROVE FlagsInv'
    BY <1>7 DEF ItemDelete, flags, offered
  <1>8. CASE UNCHANGED tradeVars
    BY <1>8 DEF tradeVars, owned, flags, offered
  <1> QED
    BY <1>1, <1>2, <1>3, <1>4, <1>5, <1>6, <1>7, <1>8 DEF TradingNext

LEMMA FlagsHold == TradingSpec => []FlagsInv
  BY FlagsInit, FlagsStep, PTL DEF TradingSpec

\* A confirmation never outlives the trade it was given in.
THEOREM ConfirmedIsTrading == TradingSpec => []ConfirmWhileTrading
  <1>1. FlagsInv => ConfirmWhileTrading
    BY DEF FlagsInv
  <1> QED
    BY <1>1, FlagsHold, PTL

\* What was confirmed stays as it was for as long as the confirmation counts.
Kept(p) == isTradeConfirm[p] /\ isTradeConfirm'[p] =>
             Trade'[p] = Trade[p] /\ moneyInTrade'[p] = moneyInTrade[p]

LEMMA KeptStep ==
    ASSUME FlagsInv, TradingNext, NEW x \in Player
    PROVE  Kept(x)
  <1> USE DEF FlagsInv, FlagsOK, Kept
  <1>1. ASSUME NEW p \in Player, EnterGame(p) PROVE Kept(x)
    BY <1>1 DEF EnterGame
  <1>2. CASE UNCHANGED offered
    BY <1>2 DEF offered
  <1>3. ASSUME NEW p \in Player, NEW q \in Player, TradeOfferAccept(p, q) PROVE Kept(x)
    BY <1>3 DEF TradeOfferAccept
  <1>4. ASSUME NEW p \in Player, NEW q \in Player, TradeStep(p, q) PROVE Kept(x)
    <2>1. CASE ConfirmAbort(p, q) \/ ConfirmFirst(p, q) \/ ConfirmSecond(p, q) \/ ConfirmCancel(p, q)
      BY <1>2, <2>1 DEF ConfirmAbort, ConfirmFirst, ConfirmSecond, ConfirmCancel
    <2>2. ASSUME NEW i \in TradeSlot, UnregisterItem(p, q, i) PROVE Kept(x)
      BY <2>2 DEF UnregisterItem, Unconfirmed
    <2>3. ASSUME NEW i \in TradeSlot, NEW place \in Place, NEW n \in 1 .. Inven[p][place].opt,
                 RegisterItem(p, q, i, place, n)
          PROVE Kept(x)
      BY <2>3 DEF RegisterItem, Unconfirmed
    <2>4. ASSUME NEW n \in 0 .. money[p], RegisterCash(p, q, n) PROVE Kept(x)
      BY <2>4 DEF RegisterCash, Unconfirmed
    <2> QED
      BY <1>4, <2>1, <2>2, <2>3, <2>4 DEF TradeStep
  <1>5. ASSUME NEW p \in Player, ExitGame(p) \/ CancelAlone(p) PROVE Kept(x)
    BY <1>2, <1>5 DEF ExitGame, CancelAlone
  <1>6. ASSUME NEW p \in Player, NEW q \in Player, TradeOffer(p, q) \/ TradeOfferRefusal(p, q)
        PROVE Kept(x)
    BY <1>2, <1>6 DEF TradeOffer, TradeOfferRefusal
  <1>7. ASSUME NEW p \in Player, NEW item \in Item, VendorBuy(p, item) PROVE Kept(x)
    BY <1>2, <1>7 DEF VendorBuy
  <1>8. ASSUME NEW p \in Player, NEW place \in Place, ItemDelete(p, place) PROVE Kept(x)
    BY <1>2, <1>8 DEF ItemDelete
  <1> QED
    BY <1>1, <1>3, <1>4, <1>5, <1>6, <1>7, <1>8 DEF TradingNext

\* Nobody gives what it has not agreed to give.
THEOREM OfferStands == TradingSpec => ConfirmedOfferStands
  <1>1. FlagsInv /\ [TradingNext]_tradeVars =>
          [\A p \in Player : isTradeConfirm[p] /\ isTradeConfirm'[p] =>
             Trade'[p] = Trade[p] /\ moneyInTrade'[p] = moneyInTrade[p]]_tradeVars
    BY KeptStep DEF Kept
  <1> QED
    BY <1>1, FlagsHold, PTL DEF TradingSpec, ConfirmedOfferStands

-----------------------------------------------------------------------------

\* The taros of the two together, and of everybody else, are the same after a
\* trade as before it (tradeConfirm adds to both sides the same difference).
MoneyChangesHands ==
    [][\A p, q \in Player : p # q /\ ConfirmSecond(p, q) =>
         /\ money'[p] + money'[q] = money[p] + money[q]
         /\ \A r \in Player \ {p, q} : money'[r] = money[r] /\ Inven'[r] = Inven[r]]_tradeVars

THEOREM TarosConserved == TradingSpec => MoneyChangesHands
  <1>1. ASSUME FlagsInv, NEW p \in Player, NEW q \in Player, p # q, ConfirmSecond(p, q)
        PROVE  money'[p] + money'[q] = money[p] + money[q]
    <2>1. CASE Swap(p, q).ok
      <3>1. /\ money'[p] = money[p] + moneyInTrade[q] - moneyInTrade[p]
            /\ money'[q] = money[q] + moneyInTrade[p] - moneyInTrade[q]
        BY <1>1, <2>1 DEF ConfirmSecond, FlagsInv, FlagsOK
      <3>2. /\ money[p] \in Int /\ money[q] \in Int
            /\ moneyInTrade[p] \in Int /\ moneyInTrade[q] \in Int
        BY <1>1 DEF FlagsInv, FlagsOK
      <3> QED
        BY <3>1, <3>2
    <2>2. CASE ~Swap(p, q).ok
      BY <1>1, <2>2 DEF ConfirmSecond, owned
    <2> QED
      BY <2>1, <2>2
  <1>2. ASSUME FlagsInv, NEW p \in Player, NEW q \in Player, p # q, ConfirmSecond(p, q),
               NEW r \in Player \ {p, q}
        PROVE  money'[r] = money[r] /\ Inven'[r] = Inven[r]
    BY <1>2 DEF ConfirmSecond, FlagsInv, FlagsOK, owned
  <1>3. FlagsInv /\ [TradingNext]_tradeVars =>
          [\A p, q \in Player : p # q /\ ConfirmSecond(p, q) =>
             /\ money'[p] + money'[q] = money[p] + money[q]
             /\ \A r \in Player \ {p, q} : money'[r] = money[r] /\ Inven'[r] = Inven[r]]_tradeVars
    BY <1>1, <1>2
  <1> QED
    BY <1>3, FlagsHold, PTL DEF TradingSpec, MoneyChangesHands

-----------------------------------------------------------------------------
(***************************************************************************)
(* What the loop of doTrade does to the two inventories.                   *)
(***************************************************************************)

\* An offer names a place of its player's inventory, and a place counts its
\* item alone.
Registered(o) == o \in Offer /\ (o.item # None => o.place \in Place)
Counts(inv, item) == [s \in Place |-> Count(inv[s], item)]
Inventories == [Place -> Stack]

LEMMA CountsType ==
    ASSUME NEW inv \in Inventories, NEW item, item # None
    PROVE  /\ Counts(inv, item) \in [Place -> Int]
           /\ Held(inv, item) = SumFunctionOnSet(Counts(inv, item), Place)
           /\ Held(inv, item) \in Int
           /\ IsFiniteSet(Place)
  <1>1. IsFiniteSet(Place)
    BY TradingAssumption, FS_Interval DEF Place
  <1>2. Counts(inv, item) \in [Place -> Int]
    BY DEF Counts, Count, Inventories, Stack
  <1>3. Held(inv, item) = SumFunctionOnSet(Counts(inv, item), Place)
    BY <1>2 DEF Held, Counts, SumFunction
  <1>4. \A s \in Place : Counts(inv, item)[s] \in Int
    BY <1>2
  <1> QED
    BY <1>1, <1>2, <1>3, <1>4, SumRemove

\* A place that is filled anew counts for what it holds now.
LEMMA PlaceChanged ==
    ASSUME NEW inv \in Inventories, NEW new \in Inventories, NEW place \in Place, NEW item, item # None,
           \A s \in Place \ {place} : new[s] = inv[s]
    PROVE  Held(new, item) = Held(inv, item) - Count(inv[place], item) + Count(new[place], item)
  <1> DEFINE f == Counts(inv, item)
             g == Counts(new, item)
  <1>2. /\ f[place] = Count(inv[place], item) /\ g[place] = Count(new[place], item)
        /\ \A s \in Place \ {place} : g[s] = f[s]
    BY DEF Counts
  <1>3. /\ f \in [Place -> Int] /\ g \in [Place -> Int] /\ IsFiniteSet(Place)
        /\ Held(inv, item) = SumFunctionOnSet(f, Place)
        /\ Held(new, item) = SumFunctionOnSet(g, Place)
    BY CountsType
  <1> HIDE DEF f, g
  <1>4. g[place] \in Int /\ \A s \in Place : f[s] \in Int
    BY <1>3
  <1>5. SumFunctionOnSet(g, Place) = SumFunctionOnSet(f, Place) - f[place] + g[place]
    BY <1>2, <1>3, <1>4, SumChange
  <1> QED
    BY <1>2, <1>3, <1>5

\* Giving takes as many as are given, and from one place.
LEMMA TakeHeld ==
    ASSUME NEW inv \in Inventories, NEW o, Registered(o), CanTake(inv, o), NEW item, item # None
    PROVE  /\ Take(inv, o) \in Inventories
           /\ Held(Take(inv, o), item) = Held(inv, item) - Amount(o, item)
  <1>1. Held(inv, item) \in Int
    BY CountsType
  <1>2. CASE o.item = None
    BY <1>1, <1>2 DEF Take, Amount
  <1>3. CASE o.item # None
    <2> DEFINE n == Given(o)
               stack == inv[o.place]
    <2>1. o.place \in Place /\ stack \in Stack /\ CanTake(inv, o) /\ o.opt \in Nat
      BY <1>3 DEF Registered, Offer, Inventories
    <2>2. /\ stack.item = o.item /\ stack.opt >= n
          /\ n \in Nat /\ stack.opt \in Nat /\ stack.opt - n \in Nat
      BY <1>3, <2>1 DEF Given, Stack, CanTake
    <2>3. Take(inv, o) = [inv EXCEPT ![o.place] = Less(stack, n)]
      BY <1>3, <2>1 DEF Take, Inventories
    <2> HIDE DEF stack, n
    <2>4. /\ Less(stack, n) \in Stack
          /\ Less(stack, n).item = o.item => Less(stack, n).opt = stack.opt - n
          /\ Less(stack, n).item # o.item => Less(stack, n).item = None /\ stack.opt = n
      BY <1>3, <2>1, <2>2 DEF Less, Stack, NoItem
    <2>5. Count(Less(stack, n), item) = Count(stack, item) - Amount(o, item)
      <3>1. Amount(o, item) = IF o.item = item THEN n ELSE 0
        BY DEF Amount, n
      <3> QED
        BY <1>1, <2>2, <2>4, <3>1 DEF Count
    <2>6. /\ Take(inv, o) \in Inventories /\ Take(inv, o)[o.place] = Less(stack, n)
          /\ \A s \in Place \ {o.place} : Take(inv, o)[s] = inv[s]
      BY <2>1, <2>3, <2>4 DEF Inventories
    <2>7. Held(Take(inv, o), item)
            = Held(inv, item) - Count(stack, item) + Count(Less(stack, n), item)
      <3>1. Held(Take(inv, o), item)
              = Held(inv, item) - Count(inv[o.place], item) + Count(Take(inv, o)[o.place], item)
        BY <2>1, <2>6, PlaceChanged
      <3> QED
        BY <2>6, <3>1 DEF stack
    <2>8. Count(stack, item) \in Int /\ Amount(o, item) \in Int
      BY <2>2 DEF Count, Amount, n
    <2> QED
      BY <1>1, <2>5, <2>6, <2>7, <2>8
  <1> QED
    BY <1>2, <1>3

\* Receiving adds as many as were given, to a place that held nothing.
LEMMA PutHeld ==
    ASSUME NEW inv \in Inventories, NEW o, Registered(o), CanPut(inv, o), NEW item, item # None
    PROVE  /\ Put(inv, o) \in Inventories
           /\ Held(Put(inv, o), item) = Held(inv, item) + Amount(o, item)
  <1>1. Held(inv, item) \in Int
    BY CountsType
  <1>2. CASE o.item = None
    BY <1>1, <1>2 DEF Put, Amount
  <1>3. CASE o.item # None
    <2> DEFINE place == Min(FreePlaces(inv))
               stack == Of(o.item, Given(o))
    <2>1. place \in FreePlaces(inv)
      <3>1. FreePlaces(inv) \in SUBSET Nat /\ FreePlaces(inv) # {}
        BY <1>3 DEF FreePlaces, Place, CanPut
      <3> QED
        BY <3>1, MinIsLeast
    <2>2. place \in Place /\ Count(inv[place], item) = 0
      BY <1>1, <2>1 DEF FreePlaces, Count
    <2>3. stack \in Stack /\ stack.item = o.item /\ stack.opt = Given(o) /\ Given(o) \in Nat
      BY DEF Of, Stack, Registered, Offer, Given
    <2>4. Put(inv, o) = [inv EXCEPT ![place] = stack]
      BY <1>3 DEF Put, PutFirst
    <2> HIDE DEF place, stack
    <2>5. /\ Put(inv, o) \in Inventories /\ Put(inv, o)[place] = stack
          /\ \A s \in Place \ {place} : Put(inv, o)[s] = inv[s]
      BY <2>2, <2>3, <2>4 DEF Inventories
    <2>6. Held(Put(inv, o), item)
            = Held(inv, item) - Count(inv[place], item) + Count(stack, item)
      BY <2>2, <2>5, PlaceChanged
    <2>7. Count(stack, item) = Amount(o, item) /\ Amount(o, item) \in Int
      BY <2>3 DEF Count, Amount
    <2> QED
      BY <1>1, <2>2, <2>5, <2>6, <2>7
  <1> QED
    BY <1>2, <1>3

\* Both give before either receives: one turn of the loop.
Pair == [ok : BOOLEAN, mine : Inventories, theirs : Inventories]

LEMMA SwapSlotHeld ==
    ASSUME NEW st \in Pair, NEW o1, NEW o2, Registered(o1), Registered(o2), NEW item, item # None
    PROVE  /\ SwapSlot(st, o1, o2) \in Pair
           /\ SwapSlot(st, o1, o2).ok =>
                /\ st.ok
                /\ Held(SwapSlot(st, o1, o2).mine, item)
                     = Held(st.mine, item) - Amount(o1, item) + Amount(o2, item)
                /\ Held(SwapSlot(st, o1, o2).theirs, item)
                     = Held(st.theirs, item) - Amount(o2, item) + Amount(o1, item)
  <1> DEFINE gave == Take(st.mine, o1)
             gave2 == Take(st.theirs, o2)
  <1>1. st.ok \in BOOLEAN /\ st.mine \in Inventories /\ st.theirs \in Inventories
    BY DEF Pair
  <1>2. [st EXCEPT !.ok = FALSE] \in Pair /\ [st EXCEPT !.ok = FALSE].ok = FALSE
    BY DEF Pair
  <1>3. CASE ~(st.ok /\ CanTake(st.mine, o1) /\ CanTake(st.theirs, o2))
    BY <1>2, <1>3 DEF SwapSlot
  <1>4. CASE st.ok /\ CanTake(st.mine, o1) /\ CanTake(st.theirs, o2)
    <2>1. /\ gave \in Inventories /\ gave2 \in Inventories
          /\ Held(gave, item) = Held(st.mine, item) - Amount(o1, item)
          /\ Held(gave2, item) = Held(st.theirs, item) - Amount(o2, item)
      BY <1>1, <1>4, TakeHeld
    <2>2. SwapSlot(st, o1, o2) =
            IF ~(CanPut(gave, o2) /\ CanPut(gave2, o1)) THEN [st EXCEPT !.ok = FALSE]
            ELSE [ok |-> TRUE, mine |-> Put(gave, o2), theirs |-> Put(gave2, o1)]
      BY <1>4 DEF SwapSlot
    <2> HIDE DEF gave, gave2
    <2>3. CASE ~(CanPut(gave, o2) /\ CanPut(gave2, o1))
      BY <1>2, <2>2, <2>3
    <2>4. CASE CanPut(gave, o2) /\ CanPut(gave2, o1)
      <3>1. /\ Put(gave, o2) \in Inventories /\ Put(gave2, o1) \in Inventories
            /\ Held(Put(gave, o2), item) = Held(gave, item) + Amount(o2, item)
            /\ Held(Put(gave2, o1), item) = Held(gave2, item) + Amount(o1, item)
        BY <2>1, <2>4, PutHeld
      <3>2. SwapSlot(st, o1, o2)
              = [ok |-> TRUE, mine |-> Put(gave, o2), theirs |-> Put(gave2, o1)]
        BY <2>2, <2>4
      <3> QED
        BY <1>4, <2>1, <3>1, <3>2 DEF Pair
    <2> QED
      BY <2>3, <2>4
  <1> QED
    BY <1>3, <1>4

\* What a whole offer gives, and what the slots up to the i-th give of it.
GivenUpTo(o, item, i) == SumFunctionOnSet([k \in TradeSlot |-> Amount(o[k], item)], 1 .. i)

LEMMA OfferedUpTo ==
    ASSUME NEW o, \A k \in TradeSlot : Registered(o[k]), NEW item, item # None
    PROVE  /\ GivenUpTo(o, item, 0) = 0
           /\ GivenUpTo(o, item, TradeSize) = InOffer(o, item)
           /\ \A i \in 0 .. TradeSize : GivenUpTo(o, item, i) \in Int
           /\ \A i \in 1 .. TradeSize :
                /\ Amount(o[i], item) \in Int
                /\ GivenUpTo(o, item, i) = GivenUpTo(o, item, i - 1) + Amount(o[i], item)
  <1> DEFINE f == [k \in TradeSlot |-> Amount(o[k], item)]
  <1>1. /\ DOMAIN f = TradeSlot /\ \A k \in TradeSlot : f[k] = Amount(o[k], item) /\ f[k] \in Int
    BY DEF Registered, Offer, Amount, Given
  <1>2. InOffer(o, item) = SumFunctionOnSet(f, TradeSlot)
    BY <1>1 DEF InOffer, SumFunction
  <1>3. \A i \in 0 .. TradeSize : GivenUpTo(o, item, i) = SumFunctionOnSet(f, 1 .. i)
    BY DEF GivenUpTo
  <1> HIDE DEF f
  <1>4. ASSUME NEW i \in 0 .. TradeSize
        PROVE  /\ IsFiniteSet(1 .. i) /\ 1 .. i \subseteq TradeSlot
               /\ \A k \in 1 .. i : f[k] \in Int
    <2>1. i \in Nat /\ i <= TradeSize
      BY TradingAssumption
    <2>2. IsFiniteSet(1 .. i)
      BY <2>1, FS_Interval
    <2>3. 1 .. i \subseteq TradeSlot
      BY <2>1, TradingAssumption DEF TradeSlot
    <2> QED
      BY <1>1, <2>2, <2>3
  <1>5. ASSUME NEW i \in 0 .. TradeSize PROVE SumFunctionOnSet(f, 1 .. i) \in Int
    BY <1>4, SumRemove
  <1>6. SumFunctionOnSet(f, 1 .. 0) = 0
    <2>1. 0 \in 0 .. TradeSize /\ 1 .. 0 = {}
      BY TradingAssumption
    <2> QED
      BY <1>4, <2>1, SumRemove
  <1>7. ASSUME NEW i \in 1 .. TradeSize
        PROVE  SumFunctionOnSet(f, 1 .. i) = SumFunctionOnSet(f, 1 .. i - 1) + f[i]
    <2>1. i \in 0 .. TradeSize /\ i - 1 \in 0 .. TradeSize /\ i \in 1 .. i
      BY TradingAssumption
    <2>2. (1 .. i) \ {i} = 1 .. i - 1
      BY TradingAssumption
    <2>3. SumFunctionOnSet(f, 1 .. i) = f[i] + SumFunctionOnSet(f, (1 .. i) \ {i})
      BY <1>4, <2>1, SumRemove
    <2>4. f[i] \in Int /\ SumFunctionOnSet(f, 1 .. i - 1) \in Int
      BY <1>4, <1>5, <2>1
    <2>5. SumFunctionOnSet(f, (1 .. i) \ {i}) = SumFunctionOnSet(f, 1 .. i - 1)
      BY <2>2
    <2> QED
      BY <2>3, <2>4, <2>5
  <1>8. 0 \in 0 .. TradeSize /\ TradeSize \in 0 .. TradeSize /\ 1 .. TradeSize = TradeSlot
    BY TradingAssumption DEF TradeSlot
  <1>9. ASSUME NEW i \in 1 .. TradeSize
        PROVE  /\ Amount(o[i], item) \in Int
               /\ GivenUpTo(o, item, i) = GivenUpTo(o, item, i - 1) + Amount(o[i], item)
    <2>1. i \in 0 .. TradeSize /\ i - 1 \in 0 .. TradeSize /\ i \in TradeSlot
      BY TradingAssumption DEF TradeSlot
    <2> QED
      BY <1>1, <1>3, <1>7, <2>1
  <1> QED
    BY <1>2, <1>3, <1>5, <1>6, <1>8, <1>9

\* The whole loop: it ends with both inventories in order and, if the trade can be
\* made, what each side offered has changed hands.
LEMMA SwapHeld ==
    ASSUME NEW p, NEW q, Inven[p] \in Inventories, Inven[q] \in Inventories,
           \A k \in TradeSlot : Registered(Trade[p][k]) /\ Registered(Trade[q][k]),
           NEW item, item # None
    PROVE  /\ Swap(p, q) \in Pair
           /\ Swap(p, q).ok =>
                /\ Held(Swap(p, q).mine, item)
                     = Held(Inven[p], item) - InOffer(Trade[p], item) + InOffer(Trade[q], item)
                /\ Held(Swap(p, q).theirs, item)
                     = Held(Inven[q], item) - InOffer(Trade[q], item) + InOffer(Trade[p], item)
  <1> DEFINE n == TradeSize
             start == [ok |-> TRUE, mine |-> Inven[p], theirs |-> Inven[q]]
             step == [x \in (1 .. n) \X Pair |-> SwapSlot(x[2], Trade[p][x[1]], Trade[q][x[1]])]
             Body(f) == f = [i \in 0 .. n |-> IF i = 0 THEN start
                                               ELSE SwapSlot(f[i - 1], Trade[p][i], Trade[q][i])]
             after == CHOOSE f : Body(f)
  <1>1. n \in Nat /\ 1 .. n = TradeSlot /\ start \in Pair
    BY TradingAssumption DEF TradeSlot, Pair
  <1>2. step \in [(1 .. n) \X Pair -> Pair]
    BY <1>1, SwapSlotHeld
  <1>3. PICK f \in [0 .. n -> Pair] : IsRecursion(f, n, start, step)
    <2> HIDE DEF start, step, n
    <2> QED
      BY <1>1, <1>2, RecursionExists
  <1>4. Body(f)
    <2>1. ASSUME NEW i \in 0 .. n, i # 0
          PROVE  step[<<i, f[i - 1]>>] = SwapSlot(f[i - 1], Trade[p][i], Trade[q][i])
      <3>1. i \in 1 .. n /\ i - 1 \in 0 .. n
        BY <1>1, <2>1
      <3>2. f[i - 1] \in Pair
        BY <3>1
      <3> QED
        BY <3>1, <3>2
    <2> HIDE DEF start, step
    <2> QED
      BY <1>3, <2>1 DEF IsRecursion
  <1>5. Body(after)
    <2> HIDE DEF Body
    <2> QED
      BY <1>4
  <1>6. Swap(p, q) = after[n]
    BY DEF Swap
  <1> HIDE DEF after, step
  <1> DEFINE Halfway(i) ==
                 /\ after[i] \in Pair
                 /\ after[i].ok =>
                      /\ Held(after[i].mine, item) = Held(Inven[p], item)
                           - GivenUpTo(Trade[p], item, i) + GivenUpTo(Trade[q], item, i)
                      /\ Held(after[i].theirs, item) = Held(Inven[q], item)
                           - GivenUpTo(Trade[q], item, i) + GivenUpTo(Trade[p], item, i)
             S == {i \in 0 .. n : Halfway(i)}
  <1>7. /\ Held(Inven[p], item) \in Int /\ Held(Inven[q], item) \in Int
        /\ GivenUpTo(Trade[p], item, 0) = 0 /\ GivenUpTo(Trade[q], item, 0) = 0
        /\ GivenUpTo(Trade[p], item, n) = InOffer(Trade[p], item)
        /\ GivenUpTo(Trade[q], item, n) = InOffer(Trade[q], item)
    BY CountsType, OfferedUpTo
  <1>8. 0 \in S
    <2>1. after[0] = start /\ 0 \in 0 .. n
      BY <1>1, <1>5
    <2>2. start.mine = Inven[p] /\ start.theirs = Inven[q]
      OBVIOUS
    <2> HIDE DEF start
    <2> QED
      BY <1>1, <1>7, <2>1, <2>2
  <1>9. ASSUME NEW i \in 1 .. n, i - 1 \in S PROVE i \in S
    <2> DEFINE st == after[i - 1]
               a == Trade[p][i]
               b == Trade[q][i]
    <2>1. i \in TradeSlot /\ i \in 0 .. n /\ i # 0 /\ i - 1 \in 0 .. n
      BY <1>1
    <2>2. after[i] = SwapSlot(st, a, b)
      BY <1>5, <2>1
    <2>3. st \in Pair /\ Halfway(i - 1) /\ Registered(a) /\ Registered(b)
      <3>1. Halfway(i - 1)
        BY <1>9
      <3>2. st \in Pair
        BY <3>1
      <3>3. Registered(a) /\ Registered(b)
        BY <2>1
      <3> QED
        BY <3>1, <3>2, <3>3
    <2>4. /\ Amount(a, item) \in Int /\ Amount(b, item) \in Int
          /\ GivenUpTo(Trade[p], item, i - 1) \in Int /\ GivenUpTo(Trade[q], item, i - 1) \in Int
          /\ GivenUpTo(Trade[p], item, i) = GivenUpTo(Trade[p], item, i - 1) + Amount(a, item)
          /\ GivenUpTo(Trade[q], item, i) = GivenUpTo(Trade[q], item, i - 1) + Amount(b, item)
      BY <2>1, OfferedUpTo
    <2> HIDE DEF a, b, n
    <2>5. /\ after[i] \in Pair
          /\ after[i].ok =>
               /\ st.ok
               /\ Held(after[i].mine, item) = Held(st.mine, item) - Amount(a, item) + Amount(b, item)
               /\ Held(after[i].theirs, item) = Held(st.theirs, item) - Amount(b, item) + Amount(a, item)
      BY <2>2, <2>3, SwapSlotHeld
    <2>6. CASE ~after[i].ok
      BY <2>1, <2>5, <2>6
    <2>7. CASE after[i].ok
      <3>1. /\ Held(st.mine, item) = Held(Inven[p], item)
                 - GivenUpTo(Trade[p], item, i - 1) + GivenUpTo(Trade[q], item, i - 1)
            /\ Held(st.theirs, item) = Held(Inven[q], item)
                 - GivenUpTo(Trade[q], item, i - 1) + GivenUpTo(Trade[p], item, i - 1)
        BY <2>3, <2>5, <2>7
      <3>2. Held(after[i].mine, item) = Held(Inven[p], item)
                 - GivenUpTo(Trade[p], item, i) + GivenUpTo(Trade[q], item, i)
        BY <1>7, <2>4, <2>5, <2>7, <3>1
      <3>3. Held(after[i].theirs, item) = Held(Inven[q], item)
                 - GivenUpTo(Trade[q], item, i) + GivenUpTo(Trade[p], item, i)
        BY <1>7, <2>4, <2>5, <2>7, <3>1
      <3> QED
        BY <2>1, <2>5, <3>2, <3>3
    <2> QED
      BY <2>6, <2>7
  <1>10. Halfway(n)
    <2>1. \A i \in 0 .. n : i \in S
      <3> HIDE DEF S, n
      <3> QED
        BY <1>1, <1>8, <1>9, IntervalInduction
    <2> QED
      BY <1>1, <2>1
  <1>11. /\ after[n] \in Pair
         /\ after[n].ok =>
              /\ Held(after[n].mine, item)
                   = Held(Inven[p], item) - InOffer(Trade[p], item) + InOffer(Trade[q], item)
              /\ Held(after[n].theirs, item)
                   = Held(Inven[q], item) - InOffer(Trade[q], item) + InOffer(Trade[p], item)
    <2> HIDE DEF n
    <2> QED
      BY <1>7, <1>10
  <1> HIDE DEF n
  <1> QED
    BY <1>6, <1>11

-----------------------------------------------------------------------------
(***************************************************************************)
(* The types, with what is offered lying in the inventory it is taken from.*)
(***************************************************************************)
OffersLie == \A p \in Player : \A i \in TradeSlot : Registered(Trade[p][i])
TradeInv == TradingTypeOK /\ OffersLie

LEMMA TradeInvInit == TradingInit => TradeInv
  <1> SUFFICES ASSUME TradingInit PROVE TradeInv
    OBVIOUS
  <1>1. Inven \in [Player -> [Place -> Stack]] /\ money \in [Player -> Int]
    BY TradingAssumption DEF TradingInit
  <1>2. \A p \in Player : Trade[p] = NoOffers
    BY DEF TradingInit
  <1>3. NoOffers \in [TradeSlot -> Offer] /\ \A i \in TradeSlot : Registered(NoOffers[i])
    BY DEF NoOffers, NoOffer, Offer, Registered
  <1>4. Trade \in [Player -> [TradeSlot -> Offer]]
    BY <1>3 DEF TradingInit
  <1>5. OffersLie
    BY <1>2, <1>3 DEF OffersLie
  <1> QED
    BY <1>1, <1>4, <1>5 DEF TradeInv, TradingInit, TradingTypeOK

\* What the offers become: nothing is offered any more, by one or by both ...
LEMMA OffersCleared ==
    ASSUME TradeInv, NEW p \in Player, NEW q \in Player,
           Trade' = [Trade EXCEPT ![p] = NoOffers, ![q] = NoOffers]
    PROVE  Trade' \in [Player -> [TradeSlot -> Offer]] /\ OffersLie'
  <1>1. NoOffers \in [TradeSlot -> Offer] /\ \A i \in TradeSlot : Registered(NoOffers[i])
    BY DEF NoOffers, NoOffer, Offer, Registered
  <1>2. /\ Trade \in [Player -> [TradeSlot -> Offer]]
        /\ \A r \in Player : \A i \in TradeSlot : Registered(Trade[r][i])
    BY DEF TradeInv, TradingTypeOK, OffersLie
  <1> HIDE DEF NoOffers
  <1>3. \A r \in Player : Trade'[r] = NoOffers \/ Trade'[r] = Trade[r]
    BY <1>2
  <1>4. Trade' \in [Player -> [TradeSlot -> Offer]]
    BY <1>1, <1>2
  <1>5. \A r \in Player : \A i \in TradeSlot : Registered(Trade'[r][i])
    BY <1>1, <1>2, <1>3
  <1> QED
    BY <1>4, <1>5 DEF OffersLie

\* ... or one slot is filled anew.
LEMMA OfferChanged ==
    ASSUME TradeInv, NEW p \in Player, NEW i \in TradeSlot, NEW o, Registered(o),
           Trade' = [Trade EXCEPT ![p][i] = o]
    PROVE  Trade' \in [Player -> [TradeSlot -> Offer]] /\ OffersLie'
  <1>1. /\ Trade \in [Player -> [TradeSlot -> Offer]]
        /\ \A r \in Player : \A k \in TradeSlot : Registered(Trade[r][k])
    BY DEF TradeInv, TradingTypeOK, OffersLie
  <1>2. o \in Offer
    BY DEF Registered
  <1>3. Trade' \in [Player -> [TradeSlot -> Offer]]
    BY <1>1, <1>2
  <1>4. \A r \in Player : \A k \in TradeSlot : Trade'[r][k] = o \/ Trade'[r][k] = Trade[r][k]
    BY <1>1
  <1>5. \A r \in Player : \A k \in TradeSlot : Registered(Trade'[r][k])
    BY <1>1, <1>4
  <1> QED
    BY <1>3, <1>5 DEF OffersLie

\* What a trade between the two does to all inventories.
LEMMA SwapTyped ==
    ASSUME TradeInv, NEW p \in Player, NEW q \in Player
    PROVE  /\ Swap(p, q) \in Pair
           /\ \A item \in Item : Swap(p, q).ok =>
                /\ Held(Swap(p, q).mine, item)
                     = Held(Inven[p], item) - InOffer(Trade[p], item) + InOffer(Trade[q], item)
                /\ Held(Swap(p, q).theirs, item)
                     = Held(Inven[q], item) - InOffer(Trade[q], item) + InOffer(Trade[p], item)
  <1>1. Inven[p] \in Inventories /\ Inven[q] \in Inventories
    BY DEF TradeInv, TradingTypeOK, Inventories
  <1>2. \A k \in TradeSlot : Registered(Trade[p][k]) /\ Registered(Trade[q][k])
    BY DEF TradeInv, OffersLie
  <1>3. PICK x : x # None
    <2> SUFFICES ASSUME \A x : x = None PROVE FALSE
      OBVIOUS
    <2>1. {} = {{}}
      OBVIOUS
    <2> QED
      BY <2>1
  <1>4. Swap(p, q) \in Pair
    BY <1>1, <1>2, <1>3, SwapHeld
  <1>5. \A item \in Item : item # None
    BY TradingAssumption
  <1> QED
    BY <1>1, <1>2, <1>4, <1>5, SwapHeld

\* One step per action, and one under it for each way to change an offer.
LEMMA TradeInvStep == TradeInv /\ [TradingNext]_tradeVars => TradeInv'
  <1> SUFFICES ASSUME TradeInv, [TradingNext]_tradeVars PROVE TradeInv'
    OBVIOUS
  <1>0. /\ inGame \subseteq Player /\ Inven \in [Player -> [Place -> Stack]]
        /\ money \in [Player -> Int] /\ isTrading \in [Player -> BOOLEAN]
        /\ isTradeConfirm \in [Player -> BOOLEAN] /\ Trade \in [Player -> [TradeSlot -> Offer]]
        /\ moneyInTrade \in [Player -> Nat] /\ offers \subseteq Player \X Player
        /\ partner \in [Player -> Player \cup {None}]
    BY DEF TradeInv, TradingTypeOK
  <1>a. ASSUME UNCHANGED Trade PROVE OffersLie'
    BY <1>a DEF TradeInv, OffersLie
  <1>1. ASSUME NEW p \in Player, EnterGame(p) PROVE TradeInv'
    <2>1. Trade' = [Trade EXCEPT ![p] = NoOffers, ![p] = NoOffers]
      BY <1>0, <1>1 DEF EnterGame
    <2>2. Trade' \in [Player -> [TradeSlot -> Offer]] /\ OffersLie'
      BY <2>1, OffersCleared
    <2> QED
      BY <1>0, <1>1, <2>2 DEF EnterGame, owned, TradeInv, TradingTypeOK
  <1>2. ASSUME NEW p \in Player, ExitGame(p) \/ CancelAlone(p) PROVE TradeInv'
    BY <1>0, <1>2, <1>a DEF ExitGame, CancelAlone, owned, flags, offered, TradeInv, TradingTypeOK
  <1>3. ASSUME NEW p \in Player, NEW q \in Player, TradeOffer(p, q) \/ TradeOfferRefusal(p, q)
        PROVE TradeInv'
    BY <1>0, <1>3, <1>a DEF TradeOffer, TradeOfferRefusal, owned, flags, offered, TradeInv, TradingTypeOK
  <1>4. ASSUME NEW p \in Player, NEW q \in Player, TradeOfferAccept(p, q) PROVE TradeInv'
    <2>1. Trade' \in [Player -> [TradeSlot -> Offer]] /\ OffersLie'
      BY <1>4, OffersCleared DEF TradeOfferAccept
    <2>2. isTrading' \in [Player -> BOOLEAN] /\ isTradeConfirm' \in [Player -> BOOLEAN]
      BY <1>0, <1>4 DEF TradeOfferAccept
    <2>3. moneyInTrade' \in [Player -> Nat] /\ partner' \in [Player -> Player \cup {None}]
      BY <1>0, <1>4 DEF TradeOfferAccept
    <2> QED
      BY <1>0, <1>4, <2>1, <2>2, <2>3 DEF TradeOfferAccept, owned, TradeInv, TradingTypeOK
  <1>5. ASSUME NEW p \in Player, NEW q \in Player, TradeStep(p, q) PROVE TradeInv'
    <2>1. Closed(p, q) \in [Player -> Player \cup {None}]
      BY <1>0 DEF Closed
    <2>2. CASE ConfirmAbort(p, q)
      BY <1>0, <1>a, <2>1, <2>2 DEF ConfirmAbort, owned, flags, offered, TradeInv, TradingTypeOK
    <2>3. CASE ConfirmFirst(p, q)
      BY <1>0, <1>a, <2>1, <2>3 DEF ConfirmFirst, owned, offered, TradeInv, TradingTypeOK
    <2>4. CASE ConfirmCancel(p, q)
      BY <1>0, <1>a, <2>1, <2>4 DEF ConfirmCancel, Ended, owned, offered, TradeInv, TradingTypeOK
    <2>5. CASE ConfirmSecond(p, q)
      <3>1. Inven' \in [Player -> [Place -> Stack]]
        <4>1. Swap(p, q).mine \in Inventories /\ Swap(p, q).theirs \in Inventories
          BY SwapTyped DEF Pair
        <4> QED
          BY <1>0, <2>5, <4>1 DEF ConfirmSecond, owned, Inventories
      <3>2. money' \in [Player -> Int]
        <4>1. money \in [Player -> Int] /\ moneyInTrade \in [Player -> Int]
          BY <1>0
        <4> QED
          BY <2>5, <4>1 DEF ConfirmSecond, owned
      <3>3. isTrading' \in [Player -> BOOLEAN] /\ isTradeConfirm' \in [Player -> BOOLEAN]
        BY <1>0, <2>5 DEF ConfirmSecond, Ended
      <3>4. partner' = Closed(p, q) /\ UNCHANGED <<inGame, offered, offers>>
        BY <2>5 DEF ConfirmSecond
      <3> QED
        BY <1>0, <1>a, <2>1, <3>1, <3>2, <3>3, <3>4 DEF offered, TradeInv, TradingTypeOK
    <2>6. ASSUME NEW i \in TradeSlot, UnregisterItem(p, q, i) PROVE TradeInv'
      <3>1. Registered(NoOffer)
        BY DEF NoOffer, Offer, Registered
      <3>2. Trade' \in [Player -> [TradeSlot -> Offer]] /\ OffersLie'
        BY <2>6, <3>1, OfferChanged DEF UnregisterItem
      <3> QED
        BY <1>0, <2>6, <3>2 DEF UnregisterItem, Unconfirmed, owned, TradeInv, TradingTypeOK
    <2>7. ASSUME NEW i \in TradeSlot, NEW place \in Place, NEW n \in 1 .. Inven[p][place].opt,
                 RegisterItem(p, q, i, place, n)
          PROVE TradeInv'
      <3> DEFINE o == [item |-> Inven[p][place].item, opt |-> n, place |-> place]
      <3>1. Registered(o)
        <4>1. Inven[p][place] \in Stack
          BY <1>0
        <4> QED
          BY <4>1 DEF Registered, Offer, Stack
      <3>2. Trade' = [Trade EXCEPT ![p][i] = o]
        BY <2>7 DEF RegisterItem
      <3> HIDE DEF o
      <3>3. Trade' \in [Player -> [TradeSlot -> Offer]] /\ OffersLie'
        BY <3>1, <3>2, OfferChanged
      <3> QED
        BY <1>0, <2>7, <3>3 DEF RegisterItem, Unconfirmed, owned, TradeInv, TradingTypeOK
    <2>8. ASSUME NEW n \in 0 .. money[p], RegisterCash(p, q, n) PROVE TradeInv'
      <3>1. n \in Nat
        BY <1>0
      <3>2. moneyInTrade' \in [Player -> Nat] /\ isTradeConfirm' \in [Player -> BOOLEAN]
        BY <1>0, <2>8, <3>1 DEF RegisterCash, Unconfirmed
      <3> QED
        BY <1>0, <1>a, <2>8, <3>2 DEF RegisterCash, owned, TradeInv, TradingTypeOK
    <2> QED
      BY <1>5, <2>2, <2>3, <2>4, <2>5, <2>6, <2>7, <2>8 DEF TradeStep
  <1>6. ASSUME NEW p \in Player, NEW item \in Item, VendorBuy(p, item) PROVE TradeInv'
    <2> DEFINE s == Min(FreePlaces(Inven[p]))
    <2>1. money' \in [Player -> Int]
      BY <1>0, <1>6, TradingAssumption DEF VendorBuy
    <2>2. s \in Place
      <3>1. FreePlaces(Inven[p]) \in SUBSET Nat /\ FreePlaces(Inven[p]) # {}
        BY <1>6 DEF VendorBuy, FreePlaces, Place
      <3>2. s \in FreePlaces(Inven[p])
        BY <3>1, MinIsLeast
      <3> QED
        BY <3>2 DEF FreePlaces
    <2>3. Put(Inven[p], [item |-> item, opt |-> 1]) = [Inven[p] EXCEPT ![s] = Of(item, 1)]
      BY TradingAssumption DEF Put, PutFirst, Given
    <2> HIDE DEF s
    <2>4. Of(item, 1) \in Stack
      BY DEF Of, Stack
    <2>5. Inven' \in [Player -> [Place -> Stack]]
      BY <1>0, <1>6, <2>2, <2>3, <2>4 DEF VendorBuy
    <2> QED
      BY <1>0, <1>6, <1>a, <2>1, <2>5 DEF VendorBuy, flags, offered, TradeInv, TradingTypeOK
  <1>7. ASSUME NEW p \in Player, NEW place \in Place, ItemDelete(p, place) PROVE TradeInv'
    <2>1. NoItem \in Stack
      BY DEF NoItem, Stack
    <2> QED
      BY <1>0, <1>7, <1>a, <2>1 DEF ItemDelete, flags, offered, TradeInv, TradingTypeOK
  <1>8. CASE UNCHANGED tradeVars
    BY <1>0, <1>8, <1>a DEF tradeVars, owned, flags, offered, TradeInv, TradingTypeOK
  <1> QED
    BY <1>1, <1>2, <1>3, <1>4, <1>5, <1>6, <1>7, <1>8 DEF TradingNext

LEMMA TradeInvariance == TradingSpec => []TradeInv
  BY TradeInvInit, TradeInvStep, PTL DEF TradingSpec

\* The types of a trade: no count in an inventory or an offer is ever negative, and
\* no request turns a balance into anything but an integer.
THEOREM TradingTyping == TradingSpec => []TradingTypeOK
  <1>1. TradeInv => TradingTypeOK
    BY DEF TradeInv
  <1> QED
    BY <1>1, TradeInvariance, PTL

-----------------------------------------------------------------------------
(***************************************************************************)
(* A trade is exact.                                                       *)
(***************************************************************************)
Exact(p, q) ==
    /\ \A item \in Item :
         Held(Inven'[p], item) = Held(Inven[p], item) - InOffer(Trade[p], item) + InOffer(Trade[q], item)
    /\ money'[p] = money[p] - moneyInTrade[p] + moneyInTrade[q]

\* The second confirmation, of a trade that can be made, between two players.
LEMMA SecondIsExact ==
    ASSUME TradeInv, NEW p \in Player, NEW q \in Player, p # q, ConfirmSecond(p, q), owned' # owned
    PROVE  Exact(p, q) /\ Exact(q, p)
  <1>0. /\ Inven \in [Player -> [Place -> Stack]] /\ money \in [Player -> Int]
        /\ moneyInTrade \in [Player -> Nat]
    BY DEF TradeInv, TradingTypeOK
  <1>1. /\ Swap(p, q).ok
        /\ Inven' = [Inven EXCEPT ![p] = Swap(p, q).mine, ![q] = Swap(p, q).theirs]
        /\ money' = [money EXCEPT ![p] = @ + moneyInTrade[q] - moneyInTrade[p],
                                  ![q] = @ + moneyInTrade[p] - moneyInTrade[q]]
    BY DEF ConfirmSecond
  <1>2. Inven'[p] = Swap(p, q).mine /\ Inven'[q] = Swap(p, q).theirs
    BY <1>0, <1>1
  <1>3. \A item \in Item :
          /\ Held(Inven'[p], item)
               = Held(Inven[p], item) - InOffer(Trade[p], item) + InOffer(Trade[q], item)
          /\ Held(Inven'[q], item)
               = Held(Inven[q], item) - InOffer(Trade[q], item) + InOffer(Trade[p], item)
    BY <1>1, <1>2, SwapTyped
  <1>4. /\ money'[p] = money[p] + moneyInTrade[q] - moneyInTrade[p]
        /\ money'[q] = money[q] + moneyInTrade[p] - moneyInTrade[q]
    BY <1>0, <1>1
  <1>5. /\ money[p] \in Int /\ money[q] \in Int
        /\ moneyInTrade[p] \in Int /\ moneyInTrade[q] \in Int
    BY <1>0
  <1>6. /\ money'[p] = money[p] - moneyInTrade[p] + moneyInTrade[q]
        /\ money'[q] = money[q] - moneyInTrade[q] + moneyInTrade[p]
    BY <1>4, <1>5
  <1> QED
    BY <1>3, <1>6 DEF Exact

\* Nothing else ends a trade and changes what somebody owns.
LEMMA OnlySecondTrades ==
    ASSUME TradeInv, TradingNext, NEW p \in Player, NEW q \in Player, Happened(p, q)
    PROVE  p # q /\ owned' # owned /\ (ConfirmSecond(p, q) \/ ConfirmSecond(q, p))
  <1>0. isTrading \in [Player -> BOOLEAN]
    BY DEF TradeInv, TradingTypeOK
  <1>1. /\ p # q /\ owned' # owned
        /\ isTrading[p] /\ isTrading[q] /\ ~isTrading'[p] /\ ~isTrading'[q]
    BY DEF Happened, Concluded
  <1>2. ASSUME NEW x \in Player, EnterGame(x) \/ ExitGame(x) \/ CancelAlone(x) PROVE FALSE
    BY <1>1, <1>2 DEF EnterGame, ExitGame, CancelAlone
  <1>3. ASSUME NEW x \in Player, NEW y \in Player,
               TradeOffer(x, y) \/ TradeOfferRefusal(x, y) \/ TradeOfferAccept(x, y)
        PROVE  FALSE
    BY <1>1, <1>3 DEF TradeOffer, TradeOfferRefusal, TradeOfferAccept, owned
  <1>4. ASSUME NEW x \in Player, (\E item \in Item : VendorBuy(x, item))
                                   \/ (\E place \in Place : ItemDelete(x, place))
        PROVE  FALSE
    BY <1>1, <1>4 DEF VendorBuy, ItemDelete, flags
  <1>5. ASSUME NEW x \in Player, NEW y \in Player, TradeStep(x, y) PROVE ConfirmSecond(x, y)
    BY <1>1, <1>5 DEF TradeStep, ConfirmAbort, ConfirmFirst, ConfirmCancel, UnregisterItem,
                      RegisterItem, RegisterCash, owned
  <1>6. ASSUME NEW x \in Player, NEW y \in Player, ConfirmSecond(x, y)
        PROVE  {x, y} = {p, q}
    <2>1. isTrading' = [isTrading EXCEPT ![x] = FALSE, ![y] = FALSE]
      BY <1>6 DEF ConfirmSecond, Ended
    <2>2. \A r \in Player \ {x, y} : isTrading'[r] = isTrading[r]
      BY <1>0, <2>1
    <2>3. p \in {x, y} /\ q \in {x, y}
      BY <1>1, <2>2
    <2> QED
      BY <1>1, <2>3
  <1>7. ASSUME NEW x \in Player, NEW y \in Player, TradeStep(x, y)
        PROVE  ConfirmSecond(p, q) \/ ConfirmSecond(q, p)
    <2>1. ConfirmSecond(x, y) /\ {x, y} = {p, q}
      BY <1>5, <1>6, <1>7
    <2>2. (x = p /\ y = q) \/ (x = q /\ y = p)
      BY <1>1, <2>1
    <2> QED
      BY <2>1, <2>2
  <1> QED
    BY <1>1, <1>2, <1>3, <1>4, <1>7 DEF TradingNext

\* What a trade moves is what the two have offered, and it moves all of it.
THEOREM TradesAreExact == TradingSpec => TradeIsExact
  <1>1. ASSUME TradeInv, TradingNext, NEW p \in Player, NEW q \in Player, Happened(p, q)
        PROVE  Exact(p, q) /\ Exact(q, p)
    BY <1>1, OnlySecondTrades, SecondIsExact
  <1>2. TradeInv /\ [TradingNext]_tradeVars =>
          [\A p, q \in Player : Happened(p, q) =>
             /\ \A item \in Item :
                  /\ Held(Inven'[p], item)
                       = Held(Inven[p], item) - InOffer(Trade[p], item) + InOffer(Trade[q], item)
                  /\ Held(Inven'[q], item)
                       = Held(Inven[q], item) - InOffer(Trade[q], item) + InOffer(Trade[p], item)
             /\ money'[p] = money[p] - moneyInTrade[p] + moneyInTrade[q]
             /\ money'[q] = money[q] - moneyInTrade[q] + moneyInTrade[p]]_tradeVars
    BY <1>1 DEF Exact
  <1> QED
    BY <1>2, TradeInvariance, PTL DEF TradingSpec, TradeIsExact

-----------------------------------------------------------------------------
(***************************************************************************)
(* Groups and trades together: each of the two sees the other's steps as   *)
(* its own or as none.                                                     *)
(***************************************************************************)
LEMMA MeetingsAreGroups == [MeetingNext]_meetingVars => [BuffNext]_allVars
  <1> SUFFICES ASSUME [MeetingNext]_meetingVars PROVE [BuffNext]_allVars
    OBVIOUS
  <1>1. ASSUME NEW p \in Player, EnterOrLeave(p) PROVE BuffNext
    BY <1>1 DEF EnterOrLeave, BuffNext
  <1>2. CASE GroupStep
    BY <1>2 DEF GroupStep, BuffNext
  <1>3. CASE DealStep
    BY <1>3 DEF DealStep
  <1>4. CASE UNCHANGED meetingVars
    BY <1>4 DEF meetingVars
  <1> QED
    BY <1>1, <1>2, <1>3, <1>4 DEF MeetingNext

LEMMA MeetingsAreTrades == [MeetingNext]_meetingVars => [TradingNext]_tradeVars
  <1> SUFFICES ASSUME [MeetingNext]_meetingVars PROVE [TradingNext]_tradeVars
    OBVIOUS
  <1>1. ASSUME NEW p \in Player, EnterOrLeave(p) PROVE TradingNext
    BY <1>1 DEF EnterOrLeave, TradingNext
  <1>2. CASE GroupStep
    <2>1. UNCHANGED inGame
      BY <1>2 DEF GroupStep, BuffLeave, Leave, SummonNano, BuffJoin, Join, Answered, Invite, Refuse,
                  JoinFail, groupVars
    <2> QED
      BY <1>2, <2>1 DEF GroupStep, dealVars, tradeVars
  <1>3. CASE DealStep
    BY <1>3, MeetingsAssumption DEF DealStep, TradingNext
  <1>4. CASE UNCHANGED meetingVars
    BY <1>4 DEF meetingVars, dealVars, allVars, groupVars, tradeVars
  <1> QED
    BY <1>1, <1>2, <1>3, <1>4 DEF MeetingNext

\* Whoever may group and trade at once does what the two components allow.
THEOREM MeetingsRefineBoth == MeetingSpec => BuffSpec /\ TradingSpec
  <1>1. MeetingInit => BuffInit /\ TradingInit
    BY DEF MeetingInit
  <1> QED
    BY <1>1, MeetingsAreGroups, MeetingsAreTrades, PTL DEF MeetingSpec, BuffSpec, TradingSpec

\* The types of both.
THEOREM MeetingTyping == MeetingSpec => []MeetingTypeOK
  <1>1. BuffTypeOK /\ TradingTypeOK => MeetingTypeOK
    BY DEF MeetingTypeOK
  <1> QED
    BY <1>1, MeetingsRefineBoth, BuffTyping, TradingTyping, PTL

\* So that what is shown of each holds where they meet: groups that agree, buffs that
\* stay and go as they should, offers that stand and trades that are exact.
THEOREM MeetingsHold ==
    MeetingSpec => /\ []GroupsConsistent /\ []OwnBuffKept /\ NoSwitch /\ LeavingDropsGroupBuffs
                   /\ ConfirmedOfferStands /\ TradeIsExact
  <1>1. BuffSpec => NoSwitch
    BY BuffsRefineGroups, NobodySwitches
  <1> QED
    BY <1>1, MeetingsRefineBoth, BuffedGroupsHold, OwnBuffStays, LeaversLoseBuffs, OfferStands,
       TradesAreExact
=============================================================================
