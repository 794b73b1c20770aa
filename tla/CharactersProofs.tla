-------------------------- MODULE CharactersProofs --------------------------
(***************************************************************************)
(* Characters and buddies: what the database and the copies of it say of   *)
(* each other, for any accounts, names and numbers of characters and any   *)
(* players and sizes of a buddy list.                                      *)
(*                                                                         *)
(* Whole characters and kept names: the invariant says what a row, and a   *)
(* copy of one on its way to the shard or played there, may be; what a     *)
(* transaction leaves is what it found or such a row again, or the parts   *)
(* of two saves, and then the character is one of torn.  The buddies have  *)
(* a part of their own below.                                              *)
(***************************************************************************)
EXTENDS Characters, Buddies, DataLemmas

CharactersSpec == CharactersInit /\ [][CharactersNext]_charVars

Thing == {"clothes", "gun", "Buttercup"}
Columns == [Part -> [stamp : 0 .. MaxStamp, has : SUBSET Thing]]
Even(parts) == \A p, q \in Part : parts[p].stamp = parts[q].stamp
Stored == [row : Row, look : {TRUE}, parts : Columns]
Copy == [row : Row, parts : Columns]

\* One snapshot each, unless a failed DELETE went unnoticed.
RowsWhole == \A id \in Id \ torn : Even(db[id].parts)
CopiesWhole ==
    \A id \in Id \ torn : /\ passed[id] # None => Even(passed[id].parts)
                          /\ played[id] # None => Even(played[id].parts)

SameName(d, e) ==
    /\ d.row = None <=> e.row = None
    /\ d.row # None => d.row.name = e.row.name /\ d.row.account = e.row.account
OwnersKept ==
    \A id \in Id : db'[id].row # None => db[id].row # None /\ db'[id].row.account = db[id].row.account

CharactersInv ==
    /\ db \in [Id -> Stored \cup {Nobody}]
    /\ passed \in [Id -> Copy \cup {None}] /\ played \in [Id -> Copy \cup {None}]
    /\ named \in [Id -> Name \cup {None}]
    /\ clock \in 0 .. MaxStamp
    /\ NamesKept
    /\ RowsWhole /\ CopiesWhole

-----------------------------------------------------------------------------
(***************************************************************************)
(* Tables.                                                                 *)
(***************************************************************************)
LEMMA PartIs ==
    /\ Part = {"Players", "Inventory", "QuestItems", "Nanos", "RunningQuests"}
    /\ \A part \in Part : \E i \in 1 .. 5 : Parts[i] = part
  BY DEF Part, Parts

LEMMA NobodyColumns == Nobody.parts \in Columns /\ Even(Nobody.parts) /\ Nobody.row = None
  BY CharactersAssumption DEF Nobody, Columns, Even

LEMMA SnapshotEven ==
    ASSUME CharactersInv
    PROVE  Snapshot({}) \in Columns /\ Even(Snapshot({}))
  BY DEF CharactersInv, Snapshot, RowsIn, Columns, Even

\* What is written to all five tables is what is there afterwards.
LEMMA AllWritten ==
    ASSUME NEW old, NEW new \in Columns
    PROVE  FirstWritten(old, new, 5) = new
  <1>1. FirstWritten(old, new, 5) = [part \in Part |-> new[part]]
    BY PartIs DEF FirstWritten
  <1> QED
    BY <1>1 DEF Columns

LEMMA StoredRow ==
    ASSUME NEW d \in Stored \cup {Nobody}, d.row # None
    PROVE  d \in Stored /\ d.row \in Row
  BY NobodyColumns DEF Stored

\* Whatever k, Stamped and Added leave the rest of a character alone.
LEMMA StampedColumns ==
    ASSUME NEW d, NEW row \in Row, NEW parts \in Columns,
           d = [row |-> row, look |-> TRUE, parts |-> parts],
           clock \in 0 .. MaxStamp, NEW k \in {1, 2, 5}
    PROVE  \E new \in Columns :
              /\ Stamped(d, k) = [row |-> row, look |-> TRUE, parts |-> new]
              /\ k = 5 => Even(new)
  <1> DEFINE now == [part \in Part |-> [parts[part] EXCEPT !.stamp = clock]]
             new == FirstWritten(parts, now, k)
  <1>1. now \in Columns /\ Even(now)
    BY DEF Columns, Even
  <1>2. Stamped(d, k) = [row |-> row, look |-> TRUE, parts |-> new]
    <2>1. d.parts = parts
      OBVIOUS
    <2>2. Stamped(d, k) = [d EXCEPT !.parts = new]
      BY <2>1 DEF Stamped
    <2> HIDE DEF new
    <2> QED
      BY <2>2
  <1> HIDE DEF now
  <1>3. new \in Columns
    BY <1>1 DEF FirstWritten, Columns
  <1>4. k = 5 => new = now
    BY <1>1, AllWritten
  <1> QED
    BY <1>1, <1>2, <1>3, <1>4

LEMMA AddedColumns ==
    ASSUME NEW d, NEW row \in Row, NEW parts \in Columns,
           d = [row |-> row, look |-> TRUE, parts |-> parts],
           NEW table \in Part, NEW rows \in SUBSET Thing
    PROVE  \E new \in Columns : Added(d, table, rows) = [row |-> row, look |-> TRUE, parts |-> new]
  <1> DEFINE new == [parts EXCEPT ![table].has = @ \cup rows]
  <1>1. new \in Columns
    BY DEF Columns
  <1>2. Added(d, table, rows) = [row |-> row, look |-> TRUE, parts |-> new]
    <2>1. Added(d, table, rows) = [d EXCEPT !.parts = new]
      BY DEF Added
    <2> HIDE DEF new
    <2> QED
      BY <2>1
  <1> QED
    BY <1>1, <1>2

\* The flags of finishCharacter and finishTutorial.
Looking(d) == [d EXCEPT !.row.appearance = TRUE]
Taught(d) == [d EXCEPT !.row.tutorial = TRUE]

LEMMA FlaggedRow ==
    ASSUME NEW d, NEW row \in Row, NEW parts \in Columns,
           d = [row |-> row, look |-> TRUE, parts |-> parts]
    PROVE  \E new \in Row :
              /\ new.name = row.name /\ new.account = row.account
              /\ Looking(d) = [row |-> new, look |-> TRUE, parts |-> parts]
  <1> DEFINE new == [row EXCEPT !.appearance = TRUE]
  <1>1. new \in Row /\ new.name = row.name /\ new.account = row.account
    BY DEF Row
  <1>2. d.row = row
    OBVIOUS
  <1>3. Looking(d) = [d EXCEPT !.row = new]
    BY <1>2 DEF Looking
  <1> HIDE DEF new
  <1> QED
    BY <1>1, <1>3

LEMMA ReadyRow ==
    ASSUME NEW d, NEW row \in Row, NEW parts \in Columns,
           d = [row |-> row, look |-> TRUE, parts |-> parts]
    PROVE  \E new \in Row :
              /\ new.name = row.name /\ new.account = row.account
              /\ Taught(d) = [row |-> new, look |-> TRUE, parts |-> parts]
  <1> DEFINE new == [row EXCEPT !.tutorial = TRUE]
  <1>1. new \in Row /\ new.name = row.name /\ new.account = row.account
    BY DEF Row
  <1>2. d.row = row
    OBVIOUS
  <1>3. Taught(d) = [d EXCEPT !.row = new]
    BY <1>2 DEF Taught
  <1> HIDE DEF new
  <1> QED
    BY <1>1, <1>3

LEMMA StoredWhole ==
    ASSUME NEW d, NEW row \in Row, NEW parts \in Columns, Even(parts),
           d = [row |-> row, look |-> TRUE, parts |-> parts]
    PROVE  d \in Stored /\ d.row = row /\ Even(d.parts)
  BY DEF Stored

-----------------------------------------------------------------------------
(***************************************************************************)
(* Transactions.                                                           *)
(***************************************************************************)
LEMMA FailuresLeave ==
    ASSUME NEW before, NEW partial
    PROVE  Failures(before, partial) = {before}
  BY DEF Failures, RolledBack

\* A transaction after which the character has the name it had.
LEMMA WriteKeepsNames ==
    ASSUME CharactersInv, NEW id \in Id, NEW outcomes, Write(id, outcomes),
           \A d \in outcomes : /\ d \in Stored \cup {Nobody} /\ SameName(d, db[id])
                               /\ id \in torn' \/ Even(d.parts),
           UNCHANGED named, torn \subseteq torn'
    PROVE  db' \in [Id -> Stored \cup {Nobody}] /\ NamesKept' /\ OwnersKept /\ RowsWhole'
  <1>1. PICK d \in outcomes : db' = [db EXCEPT ![id] = d]
    BY DEF Write
  <1>2. db' \in [Id -> Stored \cup {Nobody}] /\ db'[id] = d
    BY <1>1 DEF CharactersInv
  <1>3. ASSUME NEW i \in Id, db'[i].row # None PROVE db'[i].row.name = named'[i]
    <2>1. CASE i = id
      BY <1>2, <1>3, <2>1 DEF CharactersInv, NamesKept, There, SameName
    <2>2. CASE i # id
      BY <1>1, <1>3, <2>2 DEF CharactersInv, NamesKept, There
    <2> QED
      BY <2>1, <2>2
  <1>a. \A i \in Id \ {id} : db'[i] = db[i]
    BY <1>1 DEF CharactersInv
  <1>4. OwnersKept
    <2>1. SameName(d, db[id])
      BY <1>1
    <2> QED
      BY <1>2, <1>a, <2>1 DEF OwnersKept, SameName
  <1>5. ASSUME NEW i \in Id \ torn' PROVE Even(db'[i].parts)
    <2>1. CASE i = id
      BY <1>1, <1>2, <1>5, <2>1
    <2>2. CASE i # id
      BY <1>a, <1>5, <2>2 DEF CharactersInv, RowsWhole
    <2> QED
      BY <2>1, <2>2
  <1> QED
    BY <1>2, <1>3, <1>4, <1>5 DEF NamesKept, There, RowsWhole, Even

\* Parts of two saves are parts again.
LEMMA MixedColumns ==
    ASSUME NEW old \in Columns, NEW new \in Columns, NEW i, NEW k, NEW kept,
           NEW last \in SUBSET Thing
    PROVE  Mixed(old, new, i, k, kept, last) \in Columns
  <1>1. ASSUME NEW part \in Part, NEW has \in SUBSET Thing
        PROVE  [new[part] EXCEPT !.has = has] \in [stamp : 0 .. MaxStamp, has : SUBSET Thing]
    BY DEF Columns
  <1>2. \A part \in Part : old[part].has \subseteq Thing /\ new[part].has \subseteq Thing
    BY DEF Columns
  <1>3. ASSUME NEW part \in Part
        PROVE  Mixed(old, new, i, k, kept, last)[part] \in [stamp : 0 .. MaxStamp, has : SUBSET Thing]
    <2> DEFINE has == (IF part = Parts[k] THEN last ELSE new[part].has)
                      \cup (IF part \in kept THEN old[part].has ELSE {})
    <2>1. has \in SUBSET Thing
      BY <1>2
    <2>2. Mixed(old, new, i, k, kept, last)[part] =
            IF part \notin {Parts[j] : j \in i .. k} THEN old[part]
            ELSE [new[part] EXCEPT !.has = has]
      BY DEF Mixed
    <2> HIDE DEF has
    <2>3. [new[part] EXCEPT !.has = has] \in [stamp : 0 .. MaxStamp, has : SUBSET Thing]
      BY <1>1, <2>1
    <2>4. old[part] \in [stamp : 0 .. MaxStamp, has : SUBSET Thing]
      BY DEF Columns
    <2> QED
      BY <2>2, <2>3, <2>4
  <1>4. Mixed(old, new, i, k, kept, last) =
          [part \in Part |-> Mixed(old, new, i, k, kept, last)[part]]
    BY DEF Mixed
  <1> QED
    BY <1>3, <1>4 DEF Columns

LEMMA IgnoredKeeps ==
    ASSUME CharactersInv, NEW id \in Id, played[id] # None, There(id), DeleteIgnored(id),
           UNCHANGED named
    PROVE  /\ db' \in [Id -> Stored \cup {Nobody}] /\ NamesKept' /\ OwnersKept /\ RowsWhole'
           /\ torn \subseteq torn'
  <1>1. db[id] \in Stored /\ played[id] \in Copy
    BY StoredRow DEF CharactersInv, There
  <1>2. PICK parts \in Columns : db' = [db EXCEPT ![id].parts = parts]
    <2>1. PICK i \in 1 .. 5 : \E k \in i .. 5 :
            \E kept : \E last \in SUBSET played[id].parts[Parts[k]].has :
              db' = [db EXCEPT ![id].parts = Mixed(db[id].parts, played[id].parts, i, k, kept, last)]
      <3> DEFINE Leaves(kept, i, k) ==
                   \E last \in SUBSET played[id].parts[Parts[k]].has :
                     db' = [db EXCEPT ![id].parts = Mixed(db[id].parts, played[id].parts, i, k, kept, last)]
      <3>1. \E i \in 1 .. 5 : \E k \in i .. 5 : \E kept : Leaves(kept, i, k)
        BY DEF DeleteIgnored
      <3> QED
        BY <3>1
    <2>a. PICK k \in i .. 5 :
            \E kept : \E last \in SUBSET played[id].parts[Parts[k]].has :
              db' = [db EXCEPT ![id].parts = Mixed(db[id].parts, played[id].parts, i, k, kept, last)]
      BY <2>1
    <2>b. PICK kept : \E last \in SUBSET played[id].parts[Parts[k]].has :
            db' = [db EXCEPT ![id].parts = Mixed(db[id].parts, played[id].parts, i, k, kept, last)]
      BY <2>a
    <2>c. PICK last \in SUBSET played[id].parts[Parts[k]].has :
            db' = [db EXCEPT ![id].parts = Mixed(db[id].parts, played[id].parts, i, k, kept, last)]
      BY <2>b
    <2>2. Parts[k] \in Part
      BY PartIs DEF Parts, Part
    <2>3. last \in SUBSET Thing
      BY <1>1, <2>2 DEF Copy, Columns
    <2>4. db[id].parts \in Columns /\ played[id].parts \in Columns
      BY <1>1 DEF Stored, Copy
    <2>5. Mixed(db[id].parts, played[id].parts, i, k, kept, last) \in Columns
      BY <2>3, <2>4, MixedColumns
    <2> QED
      BY <2>c, <2>5
  <1> DEFINE d == [db[id] EXCEPT !.parts = parts]
  <1>3. d \in Stored /\ d.row = db[id].row
    BY <1>1, <1>2 DEF Stored
  <1>4. db' = [db EXCEPT ![id] = d]
    BY <1>2
  <1> HIDE DEF d
  <1>5. torn' = torn \cup {id}
    BY DEF DeleteIgnored
  <1>6. Write(id, {d})
    BY <1>4 DEF Write
  <1> QED
    BY <1>3, <1>5, <1>6, WriteKeepsNames DEF SameName

LEMMA SavingKeeps ==
    ASSUME CharactersInv, NEW id \in Id, played[id] # None, updatePlayer(id), UNCHANGED named
    PROVE  /\ db' \in [Id -> Stored \cup {Nobody}] /\ NamesKept' /\ OwnersKept /\ RowsWhole'
           /\ torn \subseteq torn'
  <1>1. CASE There(id) /\ UNCHANGED torn
             /\ Write(id, Outcomes(db[id], {Rewritten(id, k) : k \in 1 .. 4}, Rewritten(id, 5)))
    <2> DEFINE done == Rewritten(id, 5)
               outcomes == Outcomes(db[id], {Rewritten(id, k) : k \in 1 .. 4}, done)
    <2>1. db[id] \in Stored /\ played[id] \in Copy
      BY <1>1, StoredRow DEF CharactersInv, There
    <2>2. FirstWritten(db[id].parts, played[id].parts, 5) = played[id].parts
      BY <2>1, AllWritten DEF Copy
    <2>3. done = [db[id] EXCEPT !.parts = played[id].parts]
      BY <2>2 DEF Rewritten, Unnamed
    <2>4. done \in Stored /\ done.row = db[id].row /\ done.parts = played[id].parts
      <3> HIDE DEF done
      <3> QED
        BY <2>1, <2>3 DEF Stored, Copy
    <2>5. outcomes = {db[id], done}
      BY FailuresLeave DEF Outcomes
    <2>6. Write(id, outcomes)
      BY <1>1
    <2> HIDE DEF done, outcomes
    <2>7. id \notin torn => Even(db[id].parts) /\ Even(done.parts)
      <3>1. id \notin torn => Even(db[id].parts) /\ Even(played[id].parts)
        BY DEF CharactersInv, RowsWhole, CopiesWhole
      <3> QED
        BY <2>4, <3>1
    <2> QED
      BY <1>1, <2>1, <2>4, <2>5, <2>6, <2>7, WriteKeepsNames DEF SameName
  <1>2. CASE There(id) /\ DeleteIgnored(id)
    BY <1>2, IgnoredKeeps
  <1>3. CASE ~There(id)
    BY <1>3 DEF updatePlayer, CharactersInv, NamesKept, There, OwnersKept, RowsWhole, Even
  <1> QED
    BY <1>1, <1>2, <1>3 DEF updatePlayer

-----------------------------------------------------------------------------
(***************************************************************************)
(* Steps of the login server.                                              *)
(***************************************************************************)
\* Creating a character: it is there, with the name, or nothing happened to the tables.
LEMMA NameSaveIs ==
    ASSUME CharactersInv, NEW a \in Login, NEW s \in CharSlot, NEW name \in Name,
           nameSave(a, s, name)
    PROVE  /\ a \in loginSessions /\ nextId \in Id
           /\ \/ \E d \in Stored :
                    /\ d.row.name = name /\ d.row.account = a /\ Even(d.parts)
                    /\ db' = [db EXCEPT ![nextId] = d]
                    /\ named' = [named EXCEPT ![nextId] = name] /\ nextId' = nextId + 1
              \/ /\ db' = [db EXCEPT ![nextId] = Nobody] \/ UNCHANGED db
                 /\ UNCHANGED <<named, nextId>>
           /\ Selected(a, s) \/ UNCHANGED accounts
           /\ UNCHANGED <<loginSessions, passed, played, clock, torn>>
  <1> DEFINE row == [account |-> a, slot |-> s, name |-> name, appearance |-> FALSE,
                     tutorial |-> FALSE]
             one == [row |-> row, look |-> FALSE, parts |-> Snapshot({})]
             both == [one EXCEPT !.look = TRUE]
  <1>1. both \in Stored /\ both.row.name = name /\ both.row.account = a /\ Even(both.parts)
    BY SnapshotEven DEF Stored, Row
  <1>2. /\ a \in loginSessions /\ nextId \in Id
        /\ \/ Write(nextId, {both}) /\ Selected(a, s)
              /\ nextId' = nextId + 1 /\ named' = [named EXCEPT ![nextId] = name]
           \/ Write(nextId, Failures(Nobody, {one})) /\ UNCHANGED <<accounts, nextId, named>>
           \/ UNCHANGED db /\ Selected(a, s) /\ UNCHANGED <<nextId, named>>
        /\ UNCHANGED <<loginSessions, passed, played, clock, torn>>
    BY DEF nameSave, CommitLost
  <1> HIDE DEF both
  <1>3. Write(nextId, {both}) => db' = [db EXCEPT ![nextId] = both]
    BY DEF Write
  <1>4. Write(nextId, Failures(Nobody, {one})) => db' = [db EXCEPT ![nextId] = Nobody]
    BY FailuresLeave DEF Write
  <1> QED
    BY <1>1, <1>2, <1>3, <1>4

LEMMA RowPut ==
    ASSUME CharactersInv, NEW id \in Id, NEW d \in Stored \cup {Nobody}, Even(d.parts),
           db' = [db EXCEPT ![id] = d], UNCHANGED <<passed, played, torn>>
    PROVE  db' \in [Id -> Stored \cup {Nobody}] /\ RowsWhole' /\ CopiesWhole'
  <1>1. /\ db' \in [Id -> Stored \cup {Nobody}] /\ db'[id] = d
        /\ \A i \in Id \ {id} : db'[i] = db[i]
    BY DEF CharactersInv
  <1>2. ASSUME NEW i \in Id \ torn PROVE Even(db'[i].parts)
    <2>1. CASE i = id
      BY <1>1, <2>1
    <2>2. CASE i # id
      BY <1>1, <2>2 DEF CharactersInv, RowsWhole
    <2> QED
      BY <2>1, <2>2
  <1> QED
    BY <1>1, <1>2 DEF CharactersInv, RowsWhole, CopiesWhole, Even

LEMMA NameSaveKeeps ==
    ASSUME CharactersInv, NEW a \in Login, NEW s \in CharSlot, NEW name \in Name,
           nameSave(a, s, name)
    PROVE  CharactersInv'
  <1>1. nextId \in Id /\ UNCHANGED <<passed, played, clock, torn>>
    BY NameSaveIs
  <1>2. CASE \E d \in Stored :
               /\ d.row.name = name /\ d.row.account = a /\ Even(d.parts)
               /\ db' = [db EXCEPT ![nextId] = d]
               /\ named' = [named EXCEPT ![nextId] = name] /\ nextId' = nextId + 1
    <2>1. PICK d \in Stored :
            /\ d.row.name = name /\ Even(d.parts) /\ db' = [db EXCEPT ![nextId] = d]
            /\ named' = [named EXCEPT ![nextId] = name]
      BY <1>2
    <2>2. NamesKept' /\ named' \in [Id -> Name \cup {None}]
      BY <1>1, <2>1 DEF CharactersInv, NamesKept, There
    <2> QED
      BY <1>1, <2>1, <2>2, RowPut DEF CharactersInv
  <1>3. CASE UNCHANGED db /\ UNCHANGED named
    BY <1>1, <1>3 DEF CharactersInv, NamesKept, There, RowsWhole, CopiesWhole, Even
  <1>4. CASE db' = [db EXCEPT ![nextId] = Nobody] /\ UNCHANGED named
    <2>1. NamesKept'
      BY <1>1, <1>4, NobodyColumns DEF CharactersInv, NamesKept, There
    <2> QED
      BY <1>1, <1>4, <2>1, NobodyColumns, RowPut DEF CharactersInv
  <1> QED
    BY <1>2, <1>3, <1>4, NameSaveIs

\* A transaction of the login server that flags a row it found, or does nothing.
LEMMA FinishKeeps ==
    ASSUME CharactersInv, NEW id \in Id, There(id), NEW d \in Stored, Even(d.parts),
           d.row.name = db[id].row.name, d.row.account = db[id].row.account, d.row \in Row,
           Write(id, {db[id]}) \/ Write(id, {d}) \/ UNCHANGED db,
           UNCHANGED <<passed, played, clock, named, torn>>
    PROVE  CharactersInv' /\ OwnersKept
  <1>1. db[id] \in Stored
    BY StoredRow DEF CharactersInv, There
  <1>2. CASE UNCHANGED db
    BY <1>2 DEF CharactersInv, NamesKept, There, RowsWhole, CopiesWhole, OwnersKept, Even
  <1>3. CASE Write(id, {db[id]}) \/ Write(id, {d})
    <2>1. PICK e \in {d, db[id]} : Write(id, {e})
      BY <1>3
    <2>2. SameName(e, db[id]) /\ e \in Stored
      BY <1>1, CharactersAssumption DEF SameName, There
    <2>3. id \in torn' \/ Even(e.parts)
      BY DEF CharactersInv, RowsWhole
    <2>4. db' \in [Id -> Stored \cup {Nobody}] /\ NamesKept' /\ OwnersKept /\ RowsWhole'
      BY <2>1, <2>2, <2>3, WriteKeepsNames
    <2> QED
      BY <2>4 DEF CharactersInv, CopiesWhole, Even
  <1> QED
    BY <1>2, <1>3

LEMMA FinishCharacterKeeps ==
    ASSUME CharactersInv, NEW a \in Login, NEW id \in Id, finishCharacter(a, id)
    PROVE  CharactersInv' /\ OwnersKept
  <1> DEFINE d == db[id]
             stamped == Stamped(d, 1)
             flagged == [stamped EXCEPT !.row.appearance = TRUE]
             dressed == Stamped(Added(flagged, "Inventory", {"clothes"}), 5)
  <1>1. /\ There(id)
        /\ Write(id, Failures(d, {flagged})) \/ Write(id, {dressed}) \/ UNCHANGED db
        /\ UNCHANGED <<passed, played, clock, named, torn>>
    BY DEF finishCharacter, Own, CommitLost
  <1>2. d \in Stored /\ d.row \in Row
    BY <1>1, StoredRow DEF CharactersInv, There
  <1>3. PICK p1 \in Columns : stamped = [row |-> d.row, look |-> TRUE, parts |-> p1]
    BY <1>2, StampedColumns DEF Stored, CharactersInv
  <1> HIDE DEF stamped
  <1>4. PICK row \in Row : /\ row.name = d.row.name /\ row.account = d.row.account
                          /\ flagged = [row |-> row, look |-> TRUE, parts |-> p1]
    <2>1. flagged = Looking(stamped)
      BY DEF Looking
    <2> HIDE DEF flagged, d
    <2> QED
      BY <1>2, <1>3, <2>1, FlaggedRow
  <1>5. {"Inventory", "Nanos"} \subseteq Part /\ {{"clothes"}, {"gun"}, {"Buttercup"}} \subseteq SUBSET Thing
    BY PartIs DEF Thing
  <1> HIDE DEF flagged
  <1>6. PICK p2 \in Columns :
          Added(flagged, "Inventory", {"clothes"}) = [row |-> row, look |-> TRUE, parts |-> p2]
    BY <1>4, <1>5, AddedColumns
  <1>7. PICK p3 \in Columns : dressed = [row |-> row, look |-> TRUE, parts |-> p3] /\ Even(p3)
    BY <1>4, <1>6, StampedColumns DEF CharactersInv
  <1> HIDE DEF dressed
  <1>8. dressed \in Stored /\ dressed.row = row /\ Even(dressed.parts)
    BY <1>4, <1>7, StoredWhole
  <1>9. Write(id, {d}) \/ Write(id, {dressed}) \/ UNCHANGED db
    BY <1>1, FailuresLeave
  <1> QED
    BY <1>1, <1>2, <1>4, <1>8, <1>9, FinishKeeps

LEMMA FinishTutorialKeeps ==
    ASSUME CharactersInv, NEW a \in Login, NEW id \in Id, finishTutorial(a, id)
    PROVE  CharactersInv' /\ OwnersKept
  <1> DEFINE d == db[id]
             stamped == Stamped(d, 1)
             flagged == [stamped EXCEPT !.row.tutorial = TRUE]
             armed == Stamped(Added(flagged, "Inventory", {"gun"}), 2)
             ready == Stamped(Added(armed, "Nanos", {"Buttercup"}), 5)
  <1>1. /\ There(id)
        /\ \/ Write(id, Failures(d, {flagged, armed}))
           \/ Write(id, Outcomes(d, {flagged, armed}, ready))
        /\ UNCHANGED <<passed, played, clock, named, torn>>
    BY DEF finishTutorial, Own
  <1>2. d \in Stored /\ d.row \in Row
    BY <1>1, StoredRow DEF CharactersInv, There
  <1>3. PICK p1 \in Columns : stamped = [row |-> d.row, look |-> TRUE, parts |-> p1]
    BY <1>2, StampedColumns DEF Stored, CharactersInv
  <1> HIDE DEF stamped
  <1>4. PICK row \in Row : /\ row.name = d.row.name /\ row.account = d.row.account
                          /\ flagged = [row |-> row, look |-> TRUE, parts |-> p1]
    <2>1. flagged = Taught(stamped)
      BY DEF Taught
    <2> HIDE DEF flagged, d
    <2> QED
      BY <1>2, <1>3, <2>1, ReadyRow
  <1>5. {"Inventory", "Nanos"} \subseteq Part /\ {{"clothes"}, {"gun"}, {"Buttercup"}} \subseteq SUBSET Thing
    BY PartIs DEF Thing
  <1> HIDE DEF flagged
  <1>6. PICK p2 \in Columns :
          Added(flagged, "Inventory", {"gun"}) = [row |-> row, look |-> TRUE, parts |-> p2]
    BY <1>4, <1>5, AddedColumns
  <1>7. PICK p3 \in Columns : armed = [row |-> row, look |-> TRUE, parts |-> p3]
    BY <1>4, <1>6, StampedColumns DEF CharactersInv
  <1> HIDE DEF armed
  <1>8. PICK p4 \in Columns :
          Added(armed, "Nanos", {"Buttercup"}) = [row |-> row, look |-> TRUE, parts |-> p4]
    BY <1>4, <1>5, <1>7, AddedColumns
  <1>9. PICK p5 \in Columns : ready = [row |-> row, look |-> TRUE, parts |-> p5] /\ Even(p5)
    BY <1>4, <1>8, StampedColumns DEF CharactersInv
  <1> HIDE DEF ready
  <1>10. ready \in Stored /\ ready.row = row /\ Even(ready.parts)
    BY <1>4, <1>9, StoredWhole
  <1>11. Write(id, {d}) \/ Write(id, {ready})
    BY <1>1, FailuresLeave DEF Outcomes, Write
  <1> QED
    BY <1>1, <1>2, <1>4, <1>10, <1>11, FinishKeeps

LEMMA ChangeNameKeeps ==
    ASSUME CharactersInv, NEW a \in Login, NEW id \in Id, NEW name \in Name,
           changeName(a, id, name)
    PROVE  CharactersInv'
  <1> DEFINE d == [db[id] EXCEPT !.row.name = name]
  <1>1. db[id] \in Stored /\ db[id].row \in Row
    BY StoredRow DEF changeName, Own, CharactersInv, There
  <1>2. db' = [db EXCEPT ![id] = d]
    BY DEF changeName
  <1>3. d \in Stored /\ d.row.name = name /\ d.parts = db[id].parts
    BY <1>1 DEF Stored, Row
  <1> HIDE DEF d
  <1>4. named' = [named EXCEPT ![id] = name] /\ UNCHANGED <<passed, played, clock, torn>>
    BY DEF changeName
  <1>5. RowsWhole' /\ CopiesWhole'
    BY <1>2, <1>3, <1>4 DEF CharactersInv, RowsWhole, CopiesWhole, Even
  <1> QED
    BY <1>2, <1>3, <1>4, <1>5 DEF CharactersInv, NamesKept, There

LEMMA CharacterDeleteKeeps ==
    ASSUME CharactersInv, NEW a \in Login, NEW id \in Id, characterDelete(a, id)
    PROVE  CharactersInv'
  <1>1. RowsWhole' /\ CopiesWhole'
    BY NobodyColumns DEF characterDelete, CharactersInv, RowsWhole, CopiesWhole, Even
  <1> QED
    BY <1>1, NobodyColumns DEF characterDelete, CharactersInv, NamesKept, There

LEMMA CharacterSelectKeeps ==
    ASSUME CharactersInv, NEW a \in Login, NEW id \in Id, characterSelect(a, id)
    PROVE  CharactersInv'
  <1>1. db[id] \in Stored
    BY StoredRow DEF characterSelect, Own, CharactersInv, There
  <1> DEFINE copy == [row |-> db[id].row, parts |-> db[id].parts]
  <1>2. copy \in Copy /\ copy.parts = db[id].parts
    BY <1>1 DEF Stored, Copy
  <1>3. /\ passed' = [passed EXCEPT ![id] = copy]
        /\ UNCHANGED <<db, played, clock, named, torn>>
    BY DEF characterSelect
  <1> HIDE DEF copy
  <1>4. RowsWhole' /\ CopiesWhole'
    BY <1>2, <1>3 DEF CharactersInv, RowsWhole, CopiesWhole, Even
  <1> QED
    BY <1>2, <1>3, <1>4 DEF CharactersInv, NamesKept, There

LEMMA AtLoginKeeps == CharactersInv /\ AtLogin => CharactersInv'
  <1> SUFFICES ASSUME CharactersInv, NEW a \in Login,
                      \/ newAccount(a) \/ login(a) \/ Logout(a)
                      \/ \E s \in CharSlot, name \in Name : nameSave(a, s, name)
                      \/ \E id \in Id :
                          \/ finishCharacter(a, id) \/ finishTutorial(a, id)
                          \/ characterSelect(a, id) \/ characterDelete(a, id)
                          \/ \E name \in Name : changeName(a, id, name)
               PROVE  CharactersInv'
    BY DEF AtLogin
  <1>1. CASE newAccount(a) \/ login(a) \/ Logout(a)
    BY <1>1 DEF newAccount, login, Logout, CharactersInv, NamesKept, There, RowsWhole, CopiesWhole,
       Even
  <1>2. CASE \E s \in CharSlot, name \in Name : nameSave(a, s, name)
    BY <1>2, NameSaveKeeps
  <1>3. ASSUME NEW id \in Id,
               \/ finishCharacter(a, id) \/ finishTutorial(a, id)
               \/ characterSelect(a, id) \/ characterDelete(a, id)
               \/ \E name \in Name : changeName(a, id, name)
        PROVE  CharactersInv'
    BY <1>3, FinishCharacterKeeps, FinishTutorialKeeps, CharacterSelectKeeps,
       CharacterDeleteKeeps, ChangeNameKeeps
  <1> QED
    BY <1>1, <1>2, <1>3

-----------------------------------------------------------------------------
(***************************************************************************)
(* Steps of the shard.                                                     *)
(***************************************************************************)
LEMMA PlaysKeeps ==
    ASSUME CharactersInv, NEW id \in Id, Plays(id)
    PROVE  CharactersInv'
  <1>1. played[id] \in Copy
    BY DEF Plays, CharactersInv
  <1>2. Owned(played[id].parts) \subseteq Thing
    BY <1>1 DEF Copy, Columns, Owned
  <1>3. PICK has \in SUBSET Thing :
          played' = [played EXCEPT ![id].parts =
              [part \in Part |-> [stamp |-> clock', has |-> RowsIn(part, has)]]]
    BY <1>2 DEF Plays
  <1> DEFINE parts == [part \in Part |-> [stamp |-> clock', has |-> RowsIn(part, has)]]
  <1>4. clock' \in 0 .. MaxStamp /\ UNCHANGED <<db, passed, named, torn>>
    BY CharactersAssumption DEF Plays, CharactersInv
  <1>5. \A part \in Part : RowsIn(part, has) \subseteq Thing
    BY DEF RowsIn
  <1>6. parts \in Columns /\ Even(parts)
    BY <1>4, <1>5 DEF Columns, Even
  <1> HIDE DEF parts
  <1> DEFINE copy == [played[id] EXCEPT !.parts = parts]
  <1>7. copy \in Copy /\ copy.parts = parts
    BY <1>1, <1>6 DEF Copy
  <1>8. played' = [played EXCEPT ![id] = copy]
    BY <1>3 DEF parts
  <1> HIDE DEF copy
  <1>9. RowsWhole' /\ CopiesWhole'
    BY <1>4, <1>6, <1>7, <1>8 DEF CharactersInv, RowsWhole, CopiesWhole, Even
  <1> QED
    BY <1>4, <1>7, <1>8, <1>9 DEF CharactersInv, NamesKept, There

LEMMA AtShardKeeps == CharactersInv /\ AtShard => CharactersInv'
  <1> SUFFICES ASSUME CharactersInv, NEW id \in Id,
                      \/ EnterShard(id) \/ Plays(id) \/ Save(id) \/ LeaveShard(id)
                      \/ banPlayer(id) \/ unbanPlayer(id)
               PROVE  CharactersInv'
    BY DEF AtShard
  <1>1. CASE EnterShard(id)
    BY <1>1 DEF EnterShard, CharactersInv, NamesKept, There, RowsWhole, CopiesWhole, Even
  <1>2. CASE Plays(id)
    BY <1>2, PlaysKeeps
  <1>3. CASE Save(id)
    BY <1>3, SavingKeeps DEF Save, CharactersInv, CopiesWhole, Even
  <1>4. CASE LeaveShard(id)
    BY <1>4, SavingKeeps DEF LeaveShard, CharactersInv, CopiesWhole, Even
  <1>5. CASE banPlayer(id) \/ unbanPlayer(id)
    BY <1>5 DEF banPlayer, unbanPlayer, CharactersInv, NamesKept, There, RowsWhole, CopiesWhole,
       Even
  <1> QED
    BY <1>1, <1>2, <1>3, <1>4, <1>5

-----------------------------------------------------------------------------
LEMMA CharactersInvInit == CharactersInit => CharactersInv
  BY NobodyColumns, CharactersAssumption
     DEF CharactersInit, CharactersInv, NamesKept, There, RowsWhole, CopiesWhole

LEMMA CharactersInvStep == CharactersInv /\ [CharactersNext]_charVars => CharactersInv'
  <1> SUFFICES ASSUME CharactersInv, [CharactersNext]_charVars PROVE CharactersInv'
    OBVIOUS
  <1>1. CASE UNCHANGED charVars
    BY <1>1 DEF charVars, CharactersInv, NamesKept, There, RowsWhole, CopiesWhole, Even
  <1>2. CASE CharactersNext
    BY <1>2, AtLoginKeeps, AtShardKeeps DEF CharactersNext
  <1> QED
    BY <1>1, <1>2

LEMMA CharactersInvariance == CharactersSpec => []CharactersInv
  BY CharactersInvInit, CharactersInvStep, PTL DEF CharactersSpec

-----------------------------------------------------------------------------
(***************************************************************************)
(* Accounts: whose session it is, and whose character, exists.             *)
(***************************************************************************)
AccountsInv ==
    /\ accounts \in [Login -> Account \cup {None}]
    /\ loginSessions \subseteq {a \in Login : accounts[a] # None}
    /\ nextId \in 1 .. MaxId + 1
    /\ \A id \in Id : There(id) => id < nextId /\ accounts[db[id].row.account] # None

\* No account ever goes.
AccountsStay ==
    accounts' \in [Login -> Account \cup {None}] /\ \A a \in Login : accounts[a] # None => accounts'[a] # None

LEMMA RowOwner ==
    ASSUME CharactersInv, NEW id \in Id, There(id)
    PROVE  db[id].row.account \in Login /\ db[id].row.slot \in CharSlot
  BY StoredRow DEF CharactersInv, There, Row

LEMMA AccountsKept ==
    ASSUME AccountsInv, CharactersInv, OwnersKept, AccountsStay, UNCHANGED nextId,
           loginSessions' \subseteq {a \in Login : accounts'[a] # None}
    PROVE  AccountsInv'
  <1>1. nextId' \in 1 .. MaxId + 1
    BY DEF AccountsInv
  <1>2. ASSUME NEW id \in Id, There(id)'
        PROVE  id < nextId' /\ accounts'[db'[id].row.account] # None
    <2>1. There(id) /\ db'[id].row.account = db[id].row.account
      BY <1>2 DEF OwnersKept, There
    <2>2. id < nextId /\ accounts[db[id].row.account] # None /\ db[id].row.account \in Login
      BY <2>1, RowOwner DEF AccountsInv
    <2> QED
      BY <2>1, <2>2 DEF AccountsStay
  <1> QED
    BY <1>1, <1>2 DEF AccountsInv, AccountsStay

LEMMA Stay ==
    /\ AccountsInv /\ UNCHANGED accounts => AccountsStay
    /\ UNCHANGED db => OwnersKept
  BY DEF AccountsInv, AccountsStay, OwnersKept

LEMMA SelectedStays ==
    ASSUME AccountsInv, NEW a \in Login, accounts[a] # None, NEW s \in CharSlot,
           Selected(a, s) \/ UNCHANGED accounts
    PROVE  AccountsStay
  <1>1. CASE Selected(a, s)
    <2> DEFINE new == [accounts[a] EXCEPT !.selected = s]
    <2>1. new \in Account /\ new # None
      <3>1. accounts[a] \in Account
        BY DEF AccountsInv
      <3>2. new \in Account
        BY <3>1 DEF Account
      <3> HIDE DEF new
      <3> QED
        BY <3>2, CharactersAssumption
    <2>2. accounts' = [accounts EXCEPT ![a] = new]
      BY <1>1 DEF Selected
    <2> HIDE DEF new
    <2> QED
      BY <2>1, <2>2 DEF AccountsInv, AccountsStay
  <1> QED
    BY <1>1, Stay

LEMMA BanStays ==
    ASSUME AccountsInv, CharactersInv, NEW id \in Id, banPlayer(id) \/ unbanPlayer(id)
    PROVE  AccountsStay
  <1> DEFINE a == db[id].row.account
  <1>1. a \in Login /\ accounts[a] # None
    BY RowOwner DEF banPlayer, unbanPlayer, AccountsInv
  <1>2. PICK b \in BOOLEAN : accounts' = [accounts EXCEPT ![a].banned = b]
    BY DEF banPlayer, unbanPlayer
  <1> HIDE DEF a
  <1> DEFINE new == [accounts[a] EXCEPT !.banned = b]
  <1>3. new \in Account /\ new # None
    BY <1>1, CharactersAssumption DEF AccountsInv, Account
  <1>4. accounts' = [accounts EXCEPT ![a] = new]
    BY <1>2
  <1> HIDE DEF new
  <1> QED
    BY <1>1, <1>3, <1>4 DEF AccountsInv, AccountsStay

LEMMA NameSaveAccounts ==
    ASSUME AccountsInv, CharactersInv, CharactersInv', NEW a \in Login, NEW s \in CharSlot, NEW name \in Name,
           nameSave(a, s, name)
    PROVE  AccountsInv'
  <1>1. /\ a \in loginSessions /\ nextId \in Id /\ loginSessions' = loginSessions
        /\ Selected(a, s) \/ UNCHANGED accounts
    BY NameSaveIs
  <1>2. accounts[a] # None
    BY <1>1 DEF AccountsInv
  <1>3. AccountsStay
    BY <1>1, <1>2, SelectedStays
  <1>4. nextId \in 1 .. MaxId /\ MaxId \in Nat
    BY <1>1, CharactersAssumption DEF Id
  <1>5. /\ nextId' \in {nextId, nextId + 1}
        /\ \A i \in Id \ {nextId} : There(i)' => There(i) /\ db'[i] = db[i]
        /\ db'[nextId].row # None => \/ nextId' = nextId + 1 /\ db'[nextId].row.account = a
                                     \/ There(nextId) /\ db'[nextId] = db[nextId]
    <2>1. CASE \E d \in Stored :
                 /\ d.row.name = name /\ d.row.account = a /\ Even(d.parts)
                 /\ db' = [db EXCEPT ![nextId] = d]
                 /\ named' = [named EXCEPT ![nextId] = name] /\ nextId' = nextId + 1
      BY <1>1, <2>1 DEF CharactersInv, There
    <2>2. CASE (db' = [db EXCEPT ![nextId] = Nobody] \/ UNCHANGED db) /\ UNCHANGED nextId
      BY <1>1, <2>2, NobodyColumns DEF CharactersInv, There
    <2> QED
      BY <2>1, <2>2, NameSaveIs
  <1>6. nextId' \in 1 .. MaxId + 1 /\ nextId <= nextId'
    BY <1>4, <1>5
  <1>7. ASSUME NEW i \in Id, There(i)'
        PROVE  i < nextId' /\ accounts'[db'[i].row.account] # None
    <2>1. CASE i = nextId /\ nextId' = nextId + 1 /\ db'[nextId].row.account = a
      BY <1>2, <1>3, <1>4, <2>1 DEF AccountsStay
    <2>2. CASE There(i) /\ db'[i] = db[i]
      <3>1. i < nextId /\ accounts[db[i].row.account] # None /\ db[i].row.account \in Login
        BY <2>2, RowOwner DEF AccountsInv
      <3>2. i \in Int /\ nextId \in Int /\ nextId' \in Int
        BY <1>4, <1>6 DEF Id
      <3> QED
        BY <1>3, <1>6, <2>2, <3>1, <3>2 DEF AccountsStay
    <2>3. db'[i].row # None
      BY <1>7 DEF There
    <2>4. CASE i = nextId
      BY <1>5, <2>1, <2>2, <2>3, <2>4 DEF There
    <2>5. CASE i # nextId
      BY <1>5, <2>2, <2>3, <2>5 DEF There
    <2> QED
      BY <2>4, <2>5
  <1> QED
    BY <1>1, <1>3, <1>6, <1>7 DEF AccountsInv, AccountsStay

LEMMA AtLoginAccounts ==
    ASSUME AccountsInv, CharactersInv, CharactersInv', AtLogin
    PROVE  AccountsInv'
  <1>1. ASSUME NEW a \in Login, newAccount(a) PROVE AccountsInv'
    <2> DEFINE new == [selected |-> 1, banned |-> FALSE]
    <2>1. new \in Account /\ new # None
      <3>1. new \in Account
        BY CharactersAssumption DEF Account
      <3> HIDE DEF new
      <3> QED
        BY <3>1, CharactersAssumption
    <2>2. /\ accounts' = [accounts EXCEPT ![a] = new] /\ loginSessions' = loginSessions \cup {a}
          /\ UNCHANGED <<db, nextId>>
      BY <1>1 DEF newAccount
    <2> HIDE DEF new
    <2>3. AccountsStay /\ accounts'[a] # None
      BY <2>1, <2>2 DEF AccountsStay, AccountsInv
    <2>4. loginSessions' \subseteq {b \in Login : accounts'[b] # None}
      BY <2>2, <2>3 DEF AccountsStay, AccountsInv
    <2> QED
      BY <2>2, <2>3, <2>4, Stay, AccountsKept
  <1>2. ASSUME NEW a \in Login, login(a) \/ Logout(a) PROVE AccountsInv'
    <2>1. UNCHANGED <<accounts, db, nextId>> /\ loginSessions' \subseteq {b \in Login : accounts'[b] # None}
      BY <1>2 DEF login, Logout, AccountsInv
    <2> QED
      BY <2>1, Stay, AccountsKept
  <1>3. ASSUME NEW a \in Login, NEW id \in Id, Own(a, id), OwnersKept, UNCHANGED <<loginSessions, nextId>>,
               Selected(a, db[id].row.slot) \/ UNCHANGED accounts
        PROVE  AccountsInv'
    <2>1. accounts[a] # None /\ db[id].row.slot \in CharSlot
      BY <1>3, RowOwner DEF Own, AccountsInv
    <2>2. AccountsStay
      BY <1>3, <2>1, SelectedStays
    <2>3. loginSessions' \subseteq {b \in Login : accounts'[b] # None}
      BY <1>3, <2>2 DEF AccountsStay, AccountsInv
    <2> QED
      BY <1>3, <2>2, <2>3, AccountsKept
  <1>4. ASSUME NEW a \in Login, NEW id \in Id, finishCharacter(a, id) PROVE AccountsInv'
    <2>1. OwnersKept
      BY <1>4, FinishCharacterKeeps
    <2>2. /\ Own(a, id) /\ UNCHANGED <<loginSessions, nextId>>
          /\ Selected(a, db[id].row.slot) \/ UNCHANGED accounts
      BY <1>4 DEF finishCharacter
    <2> QED
      BY <1>3, <2>1, <2>2
  <1>5. ASSUME NEW a \in Login, NEW id \in Id, finishTutorial(a, id) PROVE AccountsInv'
    <2>1. OwnersKept
      BY <1>5, FinishTutorialKeeps
    <2>2. Own(a, id) /\ UNCHANGED <<loginSessions, nextId, accounts>>
      BY <1>5 DEF finishTutorial
    <2> QED
      BY <1>3, <2>1, <2>2
  <1>6. ASSUME NEW a \in Login, NEW id \in Id, characterSelect(a, id) PROVE AccountsInv'
    <2>1. Own(a, id) /\ UNCHANGED <<loginSessions, nextId, db>> /\ Selected(a, db[id].row.slot)
      BY <1>6 DEF characterSelect
    <2> QED
      BY <1>3, <2>1, Stay
  <1>7. ASSUME NEW a \in Login, NEW id \in Id, characterDelete(a, id) PROVE AccountsInv'
    <2>1. OwnersKept
      BY <1>7, NobodyColumns DEF characterDelete, OwnersKept, CharactersInv
    <2>2. Own(a, id) /\ UNCHANGED <<loginSessions, nextId, accounts>>
      BY <1>7 DEF characterDelete
    <2> QED
      BY <1>3, <2>1, <2>2
  <1>8. ASSUME NEW a \in Login, NEW id \in Id, NEW name \in Name, changeName(a, id, name) PROVE AccountsInv'
    <2> DEFINE d == [db[id] EXCEPT !.row.name = name]
    <2>1. db[id] \in Stored /\ db[id].row \in Row /\ There(id)
      BY <1>8, StoredRow DEF changeName, Own, CharactersInv, There
    <2>2. d.row.account = db[id].row.account
      BY <2>1 DEF Stored, Row
    <2>3. db' = [db EXCEPT ![id] = d] /\ Own(a, id) /\ UNCHANGED <<loginSessions, nextId, accounts>>
      BY <1>8 DEF changeName
    <2> HIDE DEF d
    <2>4. OwnersKept
      BY <2>1, <2>2, <2>3 DEF OwnersKept, CharactersInv, There
    <2> QED
      BY <1>3, <2>3, <2>4
  <1> QED
    BY <1>1, <1>2, <1>4, <1>5, <1>6, <1>7, <1>8, NameSaveAccounts DEF AtLogin

LEMMA AtShardAccounts ==
    ASSUME AccountsInv, CharactersInv, AtShard
    PROVE  AccountsInv'
  <1>1. PICK id \in Id : \/ EnterShard(id) \/ Plays(id) \/ Save(id) \/ LeaveShard(id)
                         \/ banPlayer(id) \/ unbanPlayer(id)
    BY DEF AtShard
  <1>2. OwnersKept
    <2>1. CASE EnterShard(id) \/ Plays(id) \/ banPlayer(id) \/ unbanPlayer(id)
      BY <2>1, Stay DEF EnterShard, Plays, banPlayer, unbanPlayer
    <2>2. CASE Save(id) \/ LeaveShard(id)
      BY <2>2, SavingKeeps DEF Save, LeaveShard
    <2> QED
      BY <1>1, <2>1, <2>2
  <1>3. AccountsStay
    <2>1. CASE EnterShard(id) \/ Plays(id) \/ Save(id) \/ LeaveShard(id)
      BY <2>1, Stay DEF EnterShard, Plays, Save, LeaveShard
    <2> QED
      BY <1>1, <2>1, BanStays
  <1>4. UNCHANGED <<loginSessions, nextId>>
    BY <1>1 DEF EnterShard, Plays, Save, LeaveShard, banPlayer, unbanPlayer
  <1>5. loginSessions' \subseteq {b \in Login : accounts'[b] # None}
    BY <1>3, <1>4 DEF AccountsStay, AccountsInv
  <1> QED
    BY <1>2, <1>3, <1>4, <1>5, AccountsKept

LEMMA AccountsInvInit == CharactersInit => AccountsInv
  BY NobodyColumns, CharactersAssumption DEF CharactersInit, AccountsInv, There

LEMMA AccountsInvStep ==
    ASSUME AccountsInv, CharactersInv, CharactersInv', [CharactersNext]_charVars
    PROVE  AccountsInv'
  <1>1. CASE UNCHANGED charVars
    BY <1>1 DEF charVars, AccountsInv, There
  <1> QED
    BY <1>1, AtLoginAccounts, AtShardAccounts DEF CharactersNext

LEMMA AccountsTyped == AccountsInv /\ CharactersInv => CharactersTypeOK
  <1> SUFFICES ASSUME AccountsInv, CharactersInv PROVE CharactersTypeOK
    OBVIOUS
  <1>1. \A a \in Login : accounts[a] # None => accounts[a].selected \in CharSlot
    BY DEF AccountsInv, Account
  <1>2. ASSUME NEW id \in Id, NEW part \in Part PROVE db[id].parts[part].stamp \in 0 .. MaxStamp
    <2>1. db[id].parts \in Columns
      BY NobodyColumns DEF CharactersInv, Stored
    <2> QED
      BY <2>1 DEF Columns
  <1> QED
    BY <1>1, <1>2 DEF AccountsInv, CharactersInv, CharactersTypeOK

\* A session and a character have an account, which has a slot chosen, and no id is
\* given out twice (Players.PlayerID is AUTOINCREMENT), through registering, logging in,
\* creating, renaming, deleting, selecting, playing, saving and banning.
THEOREM CharactersTyping == CharactersSpec => []CharactersTypeOK
  <1>1. CharactersInit => CharactersInv /\ AccountsInv
    BY CharactersInvInit, AccountsInvInit
  <1>2. CharactersInv /\ AccountsInv /\ [CharactersNext]_charVars => CharactersInv' /\ AccountsInv'
    BY CharactersInvStep, AccountsInvStep
  <1> QED
    BY <1>1, <1>2, AccountsTyped, PTL DEF CharactersSpec

LEMMA StoredIsWhole == CharactersInv => SavedWhole
  <1> SUFFICES ASSUME CharactersInv, NEW id \in Id
               PROVE  /\ db[id].look <=> There(id)
                      /\ ~There(id) => db[id] = Nobody
                      /\ id \notin torn =>
                            \A p, q \in Part : db[id].parts[p].stamp = db[id].parts[q].stamp
    BY DEF SavedWhole
  <1>1. id \notin torn => \A p, q \in Part : db[id].parts[p].stamp = db[id].parts[q].stamp
    BY DEF CharactersInv, RowsWhole, Even
  <1>2. CASE db[id] = Nobody
    BY <1>1, <1>2 DEF Nobody, There
  <1>3. CASE db[id] \in Stored
    BY <1>1, <1>3, CharactersAssumption DEF Stored, There
  <1> QED
    BY <1>2, <1>3 DEF CharactersInv

\* A character is there whole or not at all, and what is stored of it is one snapshot,
\* whichever INSERT or UPDATE of createCharacter, finishCharacter, finishTutorial or
\* updatePlayer fails (db/player.cpp:344) and whether COMMIT does: only a DELETE of its
\* own save that failed (db/player.cpp:356, 437, 473, 509) ever mixes two.
THEOREM SavesAreWhole == CharactersSpec => []SavedWhole
  BY StoredIsWhole, CharactersInvariance, PTL

\* A character keeps the name it was given last, whatever copies of it from before it
\* was renamed are played and saved (db/player.cpp:295).
THEOREM NamesStay == CharactersSpec => []NamesKept
  <1>1. CharactersInv => NamesKept
    BY DEF CharactersInv
  <1> QED
    BY <1>1, CharactersInvariance, PTL
-----------------------------------------------------------------------------
(***************************************************************************)
(* Buddies: everybody's list, client and rows agree.                       *)
(***************************************************************************)
BuddiesSpec == BuddiesInit /\ [][BuddiesNext]_buddyVars

Pairs == {pair \in SUBSET Player : \E p, q \in Player : p # q /\ pair = {p, q}}
List == [Slot -> [id : Player \cup {None}, blocked : BOOLEAN]]
Ids(list) == {list[s].id : s \in Slot} \ {None}

\* Those with whom a player shares a row of a table.
OthersIn(rows, p) == {q \in Player : \E i \in DOMAIN rows : rows[i] = {p, q}}
Others(p) == OthersIn(Buddyships, p)
Single(rows) == \A i, j \in DOMAIN rows : rows[i] = rows[j] => i = j

\* A list misses no row of its player; it has nobody without a row, and nobody twice.
Serves(p, list, others) == others \subseteq Ids(list) /\ p \notin Ids(list)
Exact(list, others) ==
    /\ \A s \in Slot : ~list[s].blocked /\ (list[s].id # None => list[s].id \in others)
    /\ \A s, t \in Slot : list[s].id = list[t].id /\ list[s].id # None => s = t

\* What is known of a player, from its list, what its client shows, the list that was
\* read for it, and those in its rows; "calm" if no block and no delay concerned it.
Agrees(p, list, shown, loaded, others, playing, calm) ==
    /\ IsFiniteSet(others) /\ Cardinality(others) <= BuddySlots
    /\ playing => loaded = None /\ Serves(p, list, others)
    /\ loaded # None => Serves(p, loaded, others)
    /\ calm /\ playing => Exact(list, others) /\ shown = Ids(list)
    /\ calm /\ loaded # None => Exact(loaded, others)

Calm(p) == p \notin stale \cup quarrelsome
BuddyTypes ==
    /\ buddies \in [Player -> List] /\ handedOver \in [Player -> List \cup {None}]
    /\ inShard \subseteq Player /\ synced \subseteq Player /\ stale \subseteq Player
    /\ quarrelsome \subseteq Player /\ asked \subseteq Player \X Player
    /\ told \in [Player -> SUBSET Player]
    /\ Buddyships \in Seq(Pairs) /\ Blocks \in Seq(Player \X Player)
BlocksAre(rows, who) == \A i \in DOMAIN rows : rows[i][1] # rows[i][2] /\ rows[i][1] \in who
BlocksOK == BlocksAre(Blocks, quarrelsome)
PlayerAgrees(p) ==
    Agrees(p, buddies[p], told[p], handedOver[p], Others(p), p \in inShard, Calm(p))
BuddiesInv == BuddyTypes /\ Single(Buddyships) /\ BlocksOK /\ \A p \in Player : PlayerAgrees(p)

-----------------------------------------------------------------------------
(***************************************************************************)
(* What a statement finds in a table.                                      *)
(***************************************************************************)
Finds(rows, wanted, T, found) ==
    /\ \A k \in 1 .. Len(found) : found[k] \in wanted /\ \E i \in T : rows[i] = found[k]
    /\ \A i \in T : rows[i] \in wanted => \E k \in 1 .. Len(found) : found[k] = rows[i]
    /\ (\A i, j \in T : rows[i] = rows[j] /\ rows[i] \in wanted => i = j)
         => \A k, l \in 1 .. Len(found) : found[k] = found[l] => k = l

LEMMA FindsOneMore ==
    ASSUME NEW S, NEW rows, NEW wanted, NEW T, NEW x \in T, NEW found \in Seq(S), rows[x] \in S,
           Finds(rows, wanted, T \ {x}, found)
    PROVE  Finds(rows, wanted, T, IF rows[x] \in wanted THEN Append(found, rows[x]) ELSE found)
  <1>1. CASE rows[x] \notin wanted
    BY <1>1 DEF Finds
  <1>2. CASE rows[x] \in wanted
    <2> DEFINE now == Append(found, rows[x])
               n == Len(found)
    <2>1. /\ n \in Nat /\ Len(now) = n + 1 /\ now[n + 1] = rows[x]
          /\ \A k \in 1 .. n : now[k] = found[k]
      BY AppendProperties, LenProperties
    <2> HIDE DEF now, n
    <2>2. ASSUME NEW k \in 1 .. n + 1 PROVE now[k] \in wanted /\ \E i \in T : rows[i] = now[k]
      <3>1. CASE k = n + 1
        BY <1>2, <2>1, <3>1
      <3>2. CASE k # n + 1
        <4>1. k \in 1 .. n
          BY <2>1, <3>2
        <4> QED
          BY <2>1, <4>1 DEF Finds, n
      <3> QED
        BY <3>1, <3>2
    <2>3. ASSUME NEW i \in T, rows[i] \in wanted PROVE \E k \in 1 .. n + 1 : now[k] = rows[i]
      <3>1. CASE i = x
        BY <2>1, <3>1
      <3>2. CASE i # x
        <4>1. PICK k \in 1 .. n : found[k] = rows[i]
          BY <2>3, <3>2 DEF Finds, n
        <4>2. k \in 1 .. n + 1 /\ now[k] = rows[i]
          BY <2>1, <4>1
        <4> QED
          BY <4>2
      <3> QED
        BY <3>1, <3>2
    <2>4. ASSUME \A i, j \in T : rows[i] = rows[j] /\ rows[i] \in wanted => i = j,
                 NEW k \in 1 .. n + 1, NEW l \in 1 .. n + 1, now[k] = now[l]
          PROVE  k = l
      <3>1. \A i \in 1 .. n : found[i] # rows[x]
        BY <1>2, <2>4 DEF Finds, n
      <3>2. CASE k \in 1 .. n /\ l \in 1 .. n
        BY <2>1, <2>4, <3>2 DEF Finds, n
      <3>3. CASE k = n + 1 \/ l = n + 1
        BY <2>1, <2>4, <3>1, <3>3
      <3> QED
        BY <2>1, <3>2, <3>3
    <2>5. Finds(rows, wanted, T, now)
      BY <2>1, <2>2, <2>3, <2>4 DEF Finds
    <2> QED
      BY <1>2, <2>5 DEF now
  <1> QED
    BY <1>1, <1>2

LEMMA OnlyFinds ==
    ASSUME NEW S, NEW rows \in Seq(S), NEW wanted
    PROVE  /\ Only(rows, wanted) \in Seq(S)
           /\ Finds(rows, wanted, DOMAIN rows, Only(rows, wanted))
  <1> DEFINE D == DOMAIN rows
             added(found, i) == IF rows[i] \in wanted THEN Append(found, rows[i]) ELSE found
             step == [x \in D \X Seq(S) |-> added(x[2], x[1])]
             last == [T \in SUBSET D |-> Max(T)]
             Body(it) == it = [T \in SUBSET D |-> IF T = {} THEN <<>>
                                                  ELSE LET x == Max(T) IN added(it[T \ {x}], x)]
             all == CHOOSE it : Body(it)
  <1>1. Len(rows) \in Nat /\ D = 1 .. Len(rows) /\ IsFiniteSet(D) /\ \A i \in D : rows[i] \in S
    BY LenProperties, ElementOfSeq, FS_Interval
  <1>2. ASSUME NEW i \in D, NEW found \in Seq(S) PROVE added(found, i) \in Seq(S)
    BY <1>1, AppendProperties
  <1>3. step \in [D \X Seq(S) -> Seq(S)]
    <2> HIDE DEF added, D
    <2> QED
      BY <1>2
  <1>4. ASSUME NEW T \in SUBSET D, T # {} PROVE Max(T) \in T
    <2>1. T \in SUBSET (0 .. Len(rows))
      BY <1>1
    <2> QED
      BY <1>1, <1>4, <2>1, MaxIsGreatest
  <1>5. \A T \in SUBSET D : T # {} => last[T] \in T
    BY <1>4
  <1>6. <<>> \in Seq(S) /\ Len(<<>>) = 0
    BY EmptySeq
  <1>7. \E it \in [SUBSET D -> Seq(S)] : IsFold(it, D, <<>>, step, last)
    <2> HIDE DEF D, step, last
    <2> QED
      BY <1>1, <1>3, <1>5, <1>6, FoldExists
  <1>8. PICK it \in [SUBSET D -> Seq(S)] : IsFold(it, D, <<>>, step, last)
    BY <1>7
  <1>9. Body(it)
    <2>1. ASSUME NEW T \in SUBSET D, T # {}
          PROVE  step[<<last[T], it[T \ {last[T]}]>>] = added(it[T \ {Max(T)}], Max(T))
      <3>1. last[T] = Max(T) /\ Max(T) \in D /\ T \ {Max(T)} \in SUBSET D
        BY <1>4, <2>1
      <3>2. it[T \ {Max(T)}] \in Seq(S)
        BY <3>1
      <3> HIDE DEF added
      <3> QED
        BY <3>1, <3>2
    <2> HIDE DEF step, last, added
    <2> QED
      BY <1>8, <2>1 DEF IsFold
  <1>10. Body(all)
    <2> HIDE DEF Body
    <2> QED
      BY <1>9
  <1>11. Only(rows, wanted) = all[D]
    BY DEF Only, FoldLeft, MapThenFoldSet
  <1> HIDE DEF all, step, last
  <1> DEFINE Good == {T \in SUBSET D : all[T] \in Seq(S) /\ Finds(rows, wanted, T, all[T])}
  <1>12. {} \in Good
    <2>1. all[{}] = <<>> /\ {} \in SUBSET D
      BY <1>10
    <2>2. Finds(rows, wanted, {}, <<>>)
      BY <1>6 DEF Finds
    <2> HIDE DEF D, Body
    <2> QED
      BY <1>6, <2>1, <2>2
  <1>13. ASSUME NEW T \in SUBSET D, T # {}, \A x \in T : T \ {x} \in Good
         PROVE  T \in Good
    <2> DEFINE x == Max(T)
               R == T \ {x}
    <2>1. x \in T /\ x \in D
      BY <1>4, <1>13
    <2>2. all[R] \in Seq(S) /\ Finds(rows, wanted, R, all[R])
      BY <1>13, <2>1
    <2>3. all[T] = added(all[R], x)
      <3> HIDE DEF added
      <3> QED
        BY <1>10, <1>13
    <2> HIDE DEF x
    <2>4. Finds(rows, wanted, T, all[T])
      <3> DEFINE found == all[R]
      <3>1. rows[x] \in S /\ found \in Seq(S) /\ Finds(rows, wanted, T \ {x}, found)
        BY <1>1, <2>1, <2>2
      <3>2. all[T] = IF rows[x] \in wanted THEN Append(found, rows[x]) ELSE found
        BY <2>3
      <3> HIDE DEF D, Body, Good, found
      <3>3. Finds(rows, wanted, T, IF rows[x] \in wanted THEN Append(found, rows[x]) ELSE found)
        BY <2>1, <3>1, FindsOneMore
      <3> QED
        BY <3>2, <3>3
    <2>5. all[T] \in Seq(S)
      <3> HIDE DEF added, Body, Good
      <3> QED
        BY <1>2, <2>1, <2>2, <2>3
    <2> HIDE DEF D, Body, added
    <2> QED
      BY <2>4, <2>5
  <1>14. \A T \in SUBSET D : T \in Good
    <2>1. IsFiniteSet(D)
      BY <1>1
    <2> HIDE DEF Good, D, Body, added
    <2>2. \A T \in SUBSET D : T # {} /\ (\A x \in T : T \ {x} \in Good) => T \in Good
      BY <1>13
    <2> QED
      BY <2>1, <2>2, <1>12, SubsetInduction
  <1>15. D \in Good
    BY <1>14
  <1> HIDE DEF Body, added
  <1> QED
    BY <1>11, <1>15

\* What has no double in a table has none in what is found there.
LEMMA OnlySingle ==
    ASSUME NEW S, NEW rows \in Seq(S), NEW wanted, Single(rows)
    PROVE  Single(Only(rows, wanted))
  <1>1. DOMAIN Only(rows, wanted) = 1 .. Len(Only(rows, wanted))
    BY OnlyFinds, LenProperties
  <1> QED
    BY <1>1, OnlyFinds DEF Finds, Single

-----------------------------------------------------------------------------
(***************************************************************************)
(* A row is added, a row is removed.                                       *)
(***************************************************************************)
LEMMA PairIs ==
    ASSUME NEW p \in Player, NEW q \in Player, p # q
    PROVE  {p, q} \in Pairs
  BY DEF Pairs

Comes(rows, new, p, q) ==
    /\ new \in Seq(Pairs) /\ Single(new)
    /\ \A r \in Player : OthersIn(new, r) =
         IF r = p THEN OthersIn(rows, r) \cup {q}
         ELSE IF r = q THEN OthersIn(rows, r) \cup {p} ELSE OthersIn(rows, r)
Goes(rows, new, p, q) ==
    /\ new \in Seq(Pairs) /\ Single(new)
    /\ \A r \in Player : OthersIn(new, r) =
         IF r = p THEN OthersIn(rows, r) \ {q}
         ELSE IF r = q THEN OthersIn(rows, r) \ {p} ELSE OthersIn(rows, r)

LEMMA RowAdded ==
    ASSUME NEW rows \in Seq(Pairs), NEW p \in Player, NEW q \in Player, p # q, Single(rows),
           q \notin OthersIn(rows, p)
    PROVE  Comes(rows, Append(rows, {p, q}), p, q)
  <1> DEFINE pair == {p, q}
             new == Append(rows, pair)
             n == Len(rows)
  <1>1. /\ n \in Nat /\ DOMAIN rows = 1 .. n /\ new \in Seq(Pairs) /\ DOMAIN new = 1 .. n + 1
        /\ new[n + 1] = pair /\ \A i \in 1 .. n : new[i] = rows[i]
    BY PairIs, AppendProperties, LenProperties
  <1>2. \A i \in 1 .. n : rows[i] # pair
    BY <1>1 DEF OthersIn
  <1> HIDE DEF new, n
  <1>3. Single(new)
    <2> HIDE DEF pair
    <2>1. ASSUME NEW i \in 1 .. n + 1, NEW j \in 1 .. n + 1, new[i] = new[j] PROVE i = j
      <3>1. CASE i \in 1 .. n /\ j \in 1 .. n
        BY <1>1, <2>1, <3>1 DEF Single
      <3>2. CASE i = n + 1 \/ j = n + 1
        BY <1>1, <1>2, <2>1, <3>2
      <3> QED
        BY <1>1, <3>1, <3>2
    <2> QED
      BY <1>1, <2>1 DEF Single
  <1>4. ASSUME NEW r \in Player, NEW x \in Player
        PROVE  x \in OthersIn(new, r) <=> x \in OthersIn(rows, r) \/ {r, x} = pair
    <2>1. x \in OthersIn(new, r) <=> \E i \in 1 .. n + 1 : new[i] = {r, x}
      BY <1>1 DEF OthersIn
    <2>2. x \in OthersIn(rows, r) <=> \E i \in 1 .. n : rows[i] = {r, x}
      BY <1>1 DEF OthersIn
    <2>3. 1 .. n + 1 = (1 .. n) \cup {n + 1}
      BY <1>1
    <2> HIDE DEF pair
    <2> QED
      BY <1>1, <2>1, <2>2, <2>3
  <1>5. ASSUME NEW r \in Player
        PROVE  OthersIn(new, r) = IF r = p THEN OthersIn(rows, r) \cup {q}
                                  ELSE IF r = q THEN OthersIn(rows, r) \cup {p} ELSE OthersIn(rows, r)
    <2>1. OthersIn(new, r) \subseteq Player /\ OthersIn(rows, r) \subseteq Player
      BY DEF OthersIn
    <2>2. \A x \in Player : {r, x} = pair <=> (r = p /\ x = q) \/ (r = q /\ x = p)
      OBVIOUS
    <2>3. \A x \in Player : x \in OthersIn(new, r) <=>
            x \in OthersIn(rows, r) \/ (r = p /\ x = q) \/ (r = q /\ x = p)
      <3> HIDE DEF pair
      <3> QED
        BY <1>4, <2>2
    <2> HIDE DEF pair
    <2>4. CASE r = p
      BY <2>1, <2>3, <2>4
    <2>5. CASE r = q
      BY <2>1, <2>3, <2>5
    <2>6. CASE r # p /\ r # q
      BY <2>1, <2>3, <2>6
    <2> QED
      BY <2>4, <2>5, <2>6
  <1> QED
    BY <1>1, <1>3, <1>5 DEF new, Comes

LEMMA RowRemoved ==
    ASSUME NEW rows \in Seq(Pairs), NEW p \in Player, NEW q \in Player, p # q, Single(rows)
    PROVE  Goes(rows, Only(rows, (SUBSET Player) \ {{p, q}}), p, q)
  <1> DEFINE pair == {p, q}
             wanted == (SUBSET Player) \ {pair}
             new == Only(rows, wanted)
  <1>1. new \in Seq(Pairs) /\ Finds(rows, wanted, DOMAIN rows, new) /\ Single(new)
    BY OnlyFinds, OnlySingle
  <1>2. DOMAIN new = 1 .. Len(new)
    BY <1>1, LenProperties
  <1> HIDE DEF new
  <1>3. ASSUME NEW r \in Player, NEW x \in Player
        PROVE  x \in OthersIn(new, r) <=> x \in OthersIn(rows, r) /\ {r, x} # pair
    <2>1. x \in OthersIn(new, r) <=> \E k \in 1 .. Len(new) : new[k] = {r, x}
      BY <1>2 DEF OthersIn
    <2>2. x \in OthersIn(rows, r) <=> \E i \in DOMAIN rows : rows[i] = {r, x}
      BY DEF OthersIn
    <2>3. {r, x} \in wanted <=> {r, x} # pair
      OBVIOUS
    <2> HIDE DEF pair, wanted
    <2> QED
      BY <1>1, <2>1, <2>2, <2>3 DEF Finds
  <1>4. ASSUME NEW r \in Player
        PROVE  OthersIn(new, r) = IF r = p THEN OthersIn(rows, r) \ {q}
                                  ELSE IF r = q THEN OthersIn(rows, r) \ {p} ELSE OthersIn(rows, r)
    <2>1. OthersIn(new, r) \subseteq Player /\ OthersIn(rows, r) \subseteq Player
      BY DEF OthersIn
    <2>2. \A x \in Player : {r, x} = pair <=> (r = p /\ x = q) \/ (r = q /\ x = p)
      OBVIOUS
    <2> HIDE DEF pair, wanted
    <2> QED
      BY <1>3, <2>1, <2>2
  <1> QED
    BY <1>1, <1>4 DEF new, Goes

-----------------------------------------------------------------------------
(***************************************************************************)
(* Lists.                                                                  *)
(***************************************************************************)
LEMMA ListIs ==
    ASSUME NEW list \in List
    PROVE  /\ \A s \in Slot : /\ list[s] \in [id : Player \cup {None}, blocked : BOOLEAN]
                              /\ list[s].id \in Player \cup {None} /\ list[s].blocked \in BOOLEAN
           /\ Ids(list) \subseteq Player
  BY PlayersAssumption DEF List, Ids

\* The loops over a list stop at the first entry they look for.
LEMMA FirstOne ==
    ASSUME NEW list \in List, NEW id, \E s \in Slot : list[s].id = id
    PROVE  \E s \in Slot : list[s].id = id /\ \A r \in 1 .. s - 1 : list[r].id # id
  <1> DEFINE S == {s \in Slot : list[s].id = id}
  <1>1. S \in SUBSET Nat /\ S # {}
    BY BuddiesAssumption DEF Slot
  <1>2. PICK s \in S : \A t \in S : s <= t
    <2> HIDE DEF S
    <2> QED
      BY <1>1, LeastElement
  <1>3. s \in Slot /\ list[s].id = id
    BY <1>2
  <1>4. \A r \in 1 .. s - 1 : r \in Slot /\ ~(s <= r)
    BY <1>3, BuddiesAssumption DEF Slot
  <1> QED
    BY <1>2, <1>3, <1>4

LEMMA FreeIs ==
    ASSUME NEW list \in List, ~NoRoom(list)
    PROVE  FreeSlot(list) \in Slot /\ list[FreeSlot(list)].id = None
  <1>1. \E s \in Slot : list[s].id = None /\ \A r \in 1 .. s - 1 : list[r].id # None
    BY FirstOne DEF NoRoom
  <1> QED
    BY <1>1 DEF FreeSlot

LEMMA FilledIs ==
    ASSUME NEW list \in List, ~NoRoom(list), NEW id \in Player
    PROVE  /\ Filled(list, id) \in List /\ Ids(Filled(list, id)) = Ids(list) \cup {id}
           /\ \A others : Exact(list, others) /\ id \notin Ids(list)
                            => Exact(Filled(list, id), others \cup {id})
  <1> DEFINE s == FreeSlot(list)
             new == Filled(list, id)
  <1>1. s \in Slot /\ list[s].id = None /\ id # None
    BY FreeIs, PlayersAssumption
  <1>2. /\ new \in List /\ new[s].id = id /\ new[s].blocked = list[s].blocked
        /\ \A t \in Slot \ {s} : new[t] = list[t]
    BY <1>1 DEF Filled, List
  <1> HIDE DEF s, new
  <1>3. Ids(new) = Ids(list) \cup {id}
    BY <1>1, <1>2 DEF Ids
  <1>4. ASSUME NEW others, Exact(list, others), id \notin Ids(list)
        PROVE  Exact(new, others \cup {id})
    <2>1. \A t \in Slot : list[t].id # id
      BY <1>1, <1>4 DEF Ids
    <2>2. ASSUME NEW t \in Slot
          PROVE  ~new[t].blocked /\ (new[t].id # None => new[t].id \in others \cup {id})
      BY <1>1, <1>2, <1>4 DEF Exact
    <2>3. ASSUME NEW t \in Slot, NEW u \in Slot, new[t].id = new[u].id, new[t].id # None
          PROVE  t = u
      BY <1>1, <1>2, <1>4, <2>1, <2>3 DEF Exact
    <2> QED
      BY <2>2, <2>3 DEF Exact
  <1> QED
    BY <1>2, <1>3, <1>4 DEF new

LEMMA BlockedFilledIs ==
    ASSUME NEW list \in List, ~NoRoom(list), NEW id \in Player
    PROVE  LET new == [list EXCEPT ![FreeSlot(list)] = [id |-> id, blocked |-> TRUE]]
           IN  new \in List /\ Ids(new) = Ids(list) \cup {id}
  <1> DEFINE s == FreeSlot(list)
             new == [list EXCEPT ![s] = [id |-> id, blocked |-> TRUE]]
  <1>1. s \in Slot /\ list[s].id = None /\ id # None
    BY FreeIs, PlayersAssumption
  <1>2. new \in List /\ new[s].id = id /\ \A t \in Slot \ {s} : new[t] = list[t]
    BY <1>1 DEF List
  <1>3. Ids(new) = Ids(list) \cup {id}
    <2> HIDE DEF s, new
    <2> QED
      BY <1>1, <1>2 DEF Ids
  <1> QED
    BY <1>2, <1>3

\* An entry is given up: by the loop over the other's list, or where the client says.
GivenUp(list, now, id) ==
    /\ now \in List /\ Ids(list) \ {id} \subseteq Ids(now) /\ Ids(now) \subseteq Ids(list)
    /\ \A others : Exact(list, others) => Exact(now, others \ {id}) /\ Ids(now) = Ids(list) \ {id}

LEMMA GivenUpAt ==
    ASSUME NEW list \in List, NEW now \in List, NEW s \in Slot, list[s].id # None, now[s].id = None,
           now[s].blocked => list[s].blocked, \A t \in Slot \ {s} : now[t] = list[t]
    PROVE  GivenUp(list, now, list[s].id)
  <1> DEFINE id == list[s].id
  <1>1. Ids(list) \ {id} \subseteq Ids(now) /\ Ids(now) \subseteq Ids(list)
    BY DEF Ids
  <1>2. ASSUME NEW others, Exact(list, others)
        PROVE  Exact(now, others \ {id}) /\ Ids(now) = Ids(list) \ {id}
    <2>1. \A t \in Slot \ {s} : now[t].id # id
      BY <1>2 DEF Exact
    <2>2. ASSUME NEW t \in Slot
          PROVE  ~now[t].blocked /\ (now[t].id # None => now[t].id \in others \ {id})
      BY <1>2, <2>1 DEF Exact
    <2>3. ASSUME NEW t \in Slot, NEW u \in Slot, now[t].id = now[u].id, now[t].id # None
          PROVE  t = u
      BY <1>2, <2>3 DEF Exact
    <2>4. Exact(now, others \ {id})
      BY <2>2, <2>3 DEF Exact
    <2>5. id \notin Ids(now)
      BY <2>1 DEF Ids
    <2> QED
      BY <1>1, <2>4, <2>5
  <1> QED
    BY <1>1, <1>2 DEF GivenUp

LEMMA ForgottenIs ==
    ASSUME NEW list \in List, NEW id \in Player
    PROVE  GivenUp(list, ForgetFirst(list, id), id)
  <1>1. CASE ~Has(list, id)
    <2>1. id \notin Ids(list) /\ ForgetFirst(list, id) = list
      BY <1>1 DEF Has, Ids, ForgetFirst
    <2>2. ASSUME NEW others, Exact(list, others) PROVE Exact(list, others \ {id})
      BY <1>1, <2>2 DEF Exact, Has
    <2> QED
      BY <2>1, <2>2 DEF GivenUp
  <1>2. CASE Has(list, id)
    <2> DEFINE s == CHOOSE s \in Slot : list[s].id = id /\ \A r \in 1 .. s - 1 : list[r].id # id
               now == [list EXCEPT ![s].id = None]
    <2>1. s \in Slot /\ list[s].id = id /\ id # None
      BY <1>2, FirstOne, PlayersAssumption DEF Has
    <2>2. ForgetFirst(list, id) = now
      BY <1>2 DEF ForgetFirst
    <2> HIDE DEF s
    <2>3. /\ now \in List /\ now[s].id = None /\ now[s].blocked = list[s].blocked
          /\ \A t \in Slot \ {s} : now[t] = list[t]
      BY <2>1 DEF List
    <2> HIDE DEF now
    <2> QED
      BY <2>1, <2>2, <2>3, GivenUpAt
  <1> QED
    BY <1>1, <1>2

LEMMA EmptiedIs ==
    ASSUME NEW list \in List, NEW s \in Slot, list[s].id # None
    PROVE  GivenUp(list, [list EXCEPT ![s] = Empty], list[s].id)
  <1> DEFINE now == [list EXCEPT ![s] = Empty]
  <1>1. now \in List /\ now[s].id = None /\ ~now[s].blocked /\ \A t \in Slot \ {s} : now[t] = list[t]
    BY DEF List, Empty
  <1> HIDE DEF now
  <1>2. GivenUp(list, now, list[s].id)
    BY <1>1, GivenUpAt
  <1> QED
    BY <1>2 DEF now

LEMMA MarkedIs ==
    ASSUME NEW list \in List, NEW s \in Slot
    PROVE  [list EXCEPT ![s].blocked = TRUE] \in List /\ Ids([list EXCEPT ![s].blocked = TRUE]) = Ids(list)
  <1> DEFINE now == [list EXCEPT ![s].blocked = TRUE]
  <1>1. now \in List /\ \A t \in Slot : now[t].id = list[t].id
    BY DEF List
  <1> HIDE DEF now
  <1>2. Ids(now) = Ids(list)
    BY <1>1 DEF Ids
  <1> QED
    BY <1>1, <1>2 DEF now

-----------------------------------------------------------------------------
(***************************************************************************)
(* What is read from the tables.                                           *)
(***************************************************************************)
Mine(p) == {pair \in SUBSET Player : p \in pair}
Mate(p, row) == CHOOSE q \in row : q # p

\* The rows of a player are as many as it has mates, each in one of them.
LEMMA MateIs ==
    ASSUME NEW p \in Player, NEW pair \in Pairs, p \in pair
    PROVE  Mate(p, pair) \in Player /\ pair = {p, Mate(p, pair)} /\ Mate(p, pair) # p
           /\ \A q \in Player : pair = {p, q} => q = Mate(p, pair)
  <1>1. PICK a \in Player, b \in Player : a # b /\ pair = {a, b}
    BY DEF Pairs
  <1>2. \E q \in pair : q # p
    BY <1>1
  <1>3. Mate(p, pair) \in pair /\ Mate(p, pair) # p
    BY <1>2 DEF Mate
  <1> QED
    BY <1>1, <1>3

LEMMA RowsOfIs ==
    ASSUME BuddyTypes, Single(Buddyships), NEW p \in Player
    PROVE  /\ RowsOf(p) \in Seq(Pairs) /\ Len(RowsOf(p)) \in Nat
           /\ \A k \in 1 .. Len(RowsOf(p)) : RowsOf(p)[k] \in Pairs /\ Mate(p, RowsOf(p)[k]) \in Others(p)
                                             /\ Mate(p, RowsOf(p)[k]) # p
           /\ \A q \in Others(p) : \E k \in 1 .. Len(RowsOf(p)) : Mate(p, RowsOf(p)[k]) = q
           /\ IsFiniteSet(Others(p)) /\ Cardinality(Others(p)) = Len(RowsOf(p))
  <1> DEFINE rows == RowsOf(p)
             n == Len(rows)
             f == [k \in 1 .. n |-> Mate(p, rows[k])]
  <1>1. Buddyships \in Seq(Pairs)
    BY DEF BuddyTypes
  <1>2. rows \in Seq(Pairs) /\ Finds(Buddyships, Mine(p), DOMAIN Buddyships, rows) /\ Single(rows)
    BY <1>1, OnlyFinds, OnlySingle DEF RowsOf, Mine
  <1> HIDE DEF rows
  <1>3. n \in Nat /\ DOMAIN rows = 1 .. n /\ \A k \in 1 .. n : rows[k] \in Pairs
    BY <1>2, LenProperties, ElementOfSeq
  <1>4. ASSUME NEW k \in 1 .. n
        PROVE  rows[k] = {p, Mate(p, rows[k])} /\ Mate(p, rows[k]) \in Others(p) /\ Mate(p, rows[k]) # p
    <2>1. rows[k] \in Pairs /\ rows[k] \in Mine(p) /\ \E i \in DOMAIN Buddyships : Buddyships[i] = rows[k]
      BY <1>2, <1>3, <1>4 DEF Finds
    <2>2. p \in rows[k]
      BY <2>1 DEF Mine
    <2>3. rows[k] = {p, Mate(p, rows[k])} /\ Mate(p, rows[k]) \in Player /\ Mate(p, rows[k]) # p
      BY <2>1, <2>2, MateIs
    <2> QED
      BY <2>1, <2>3 DEF Others, OthersIn
  <1>5. ASSUME NEW q \in Others(p) PROVE \E k \in 1 .. n : Mate(p, rows[k]) = q
    <2>1. PICK i \in DOMAIN Buddyships : Buddyships[i] = {p, q}
      BY DEF Others, OthersIn
    <2>2. q \in Player /\ {p, q} \in Mine(p)
      BY DEF Others, OthersIn, Mine
    <2>3. PICK k \in 1 .. n : rows[k] = {p, q}
      BY <1>2, <2>1, <2>2 DEF Finds
    <2>4. rows[k] \in Pairs /\ p \in rows[k]
      BY <1>3, <2>3
    <2>5. q = Mate(p, rows[k])
      BY <2>2, <2>3, <2>4, MateIs
    <2> QED
      BY <2>5
  <1>6. f \in Bijection(1 .. n, Others(p))
    <2>1. f \in [1 .. n -> Others(p)]
      BY <1>4
    <2>2. \A k, l \in 1 .. n : f[k] = f[l] => k = l
      <3>1. ASSUME NEW k \in 1 .. n, NEW l \in 1 .. n, Mate(p, rows[k]) = Mate(p, rows[l]) PROVE k = l
        <4>1. rows[k] = rows[l]
          BY <1>4, <3>1
        <4> QED
          BY <1>2, <1>3, <4>1 DEF Single
      <3> QED
        BY <3>1
    <2>3. \A q \in Others(p) : \E k \in 1 .. n : f[k] = q
      BY <1>5
    <2> HIDE DEF f
    <2> QED
      BY <2>1, <2>2, <2>3 DEF Bijection, Injection, Surjection, IsInjective
  <1>7. IsFiniteSet(Others(p)) /\ Cardinality(Others(p)) = n
    <2>1. IsFiniteSet(1 .. n) /\ Cardinality(1 .. n) = n
      BY <1>3, FS_Interval
    <2>2. ExistsBijection(1 .. n, Others(p))
      BY <1>6 DEF ExistsBijection
    <2> QED
      BY <2>1, <2>2, FS_Bijection
  <1> QED
    BY <1>2, <1>3, <1>4, <1>5, <1>7 DEF rows

LEMMA BlocksOfIs ==
    ASSUME BuddyTypes, BlocksOK, NEW p \in Player
    PROVE  /\ Len(BlocksOf(p)) \in Nat
           /\ \A k \in 1 .. Len(BlocksOf(p)) : BlocksOf(p)[k][2] \in Player \ {p}
           /\ p \notin quarrelsome => Len(BlocksOf(p)) = 0
  <1> DEFINE rows == BlocksOf(p)
  <1>1. /\ rows \in Seq(Player \X Player)
        /\ Finds(Blocks, {p} \X Player, DOMAIN Blocks, rows)
    BY OnlyFinds DEF BlocksOf, BuddyTypes
  <1> HIDE DEF rows
  <1>2. Len(rows) \in Nat
    BY <1>1, LenProperties
  <1>3. ASSUME NEW k \in 1 .. Len(rows) PROVE rows[k][2] \in Player \ {p} /\ p \in quarrelsome
    <2>1. rows[k] \in {p} \X Player /\ \E i \in DOMAIN Blocks : Blocks[i] = rows[k]
      BY <1>1, <1>3 DEF Finds
    <2> QED
      BY <2>1 DEF BlocksOK, BlocksAre, BlocksAre, BlocksAre, BlocksAre, BlocksAre, BlocksAre, BlocksAre, BlocksAre, BlocksAre
  <1>4. p \notin quarrelsome => Len(rows) = 0
    BY <1>2, <1>3
  <1> QED
    BY <1>2, <1>3, <1>4 DEF rows

\* The list that is read has every buddy, since there is room for all.
LEMMA LoadedIs ==
    ASSUME BuddyTypes, Single(Buddyships), BlocksOK, NEW p \in Player, Cardinality(Others(p)) <= BuddySlots
    PROVE  /\ LoadedList(p) \in List /\ Serves(p, LoadedList(p), Others(p))
           /\ p \notin quarrelsome => Exact(LoadedList(p), Others(p))
  <1> DEFINE rows == RowsOf(p)
             blocked == BlocksOf(p)
             n == Len(rows)
             m == Len(blocked)
             list == LoadedList(p)
  <1>1. /\ n \in Nat /\ m \in Nat /\ BuddySlots \in Nat
        /\ \A k \in 1 .. n : Mate(p, rows[k]) \in Others(p) /\ Mate(p, rows[k]) # p
        /\ \A q \in Others(p) : \E k \in 1 .. n : Mate(p, rows[k]) = q
        /\ n <= BuddySlots
        /\ \A k \in 1 .. m : blocked[k][2] \in Player \ {p}
        /\ p \notin quarrelsome => m = 0
    BY RowsOfIs, BlocksOfIs, BuddiesAssumption
  <1>2. Others(p) \subseteq Player /\ None \notin Player
    BY PlayersAssumption DEF Others, OthersIn
  <1>3. list = [s \in Slot |->
                 IF s <= n THEN [id |-> Mate(p, rows[s]), blocked |-> FALSE]
                 ELSE IF s <= n + m THEN [id |-> blocked[s - n][2], blocked |-> TRUE] ELSE Empty]
    BY DEF LoadedList, Mate
  <1> HIDE DEF rows, blocked, n, m, list
  <1>4. ASSUME NEW s \in Slot
        PROVE  /\ list[s] \in [id : Player \cup {None}, blocked : BOOLEAN]
               /\ list[s].id # p
               /\ s <= n => list[s].id = Mate(p, rows[s]) /\ ~list[s].blocked
               /\ m = 0 /\ ~(s <= n) => list[s].id = None /\ ~list[s].blocked
    <2>1. s \in Int /\ s >= 1
      BY <1>1 DEF Slot
    <2>2. CASE s <= n
      <3>1. s \in 1 .. n
        BY <1>1, <2>1, <2>2
      <3>2. list[s] = [id |-> Mate(p, rows[s]), blocked |-> FALSE]
        BY <1>3, <2>2
      <3>3. Mate(p, rows[s]) \in Player /\ Mate(p, rows[s]) # p
        BY <1>1, <1>2, <3>1
      <3> QED
        BY <2>2, <3>2, <3>3
    <2>3. CASE ~(s <= n) /\ s <= n + m
      <3>1. s - n \in 1 .. m /\ m # 0
        BY <1>1, <2>1, <2>3
      <3>2. list[s] = [id |-> blocked[s - n][2], blocked |-> TRUE]
        BY <1>3, <2>3
      <3>3. blocked[s - n][2] \in Player \ {p}
        BY <1>1, <3>1
      <3> QED
        BY <2>3, <3>1, <3>2, <3>3
    <2>4. CASE ~(s <= n) /\ ~(s <= n + m)
      <3>1. list[s] = [id |-> None, blocked |-> FALSE]
        BY <1>3, <2>4 DEF Empty
      <3> QED
        BY <1>2, <2>4, <3>1
    <2> QED
      BY <2>2, <2>3, <2>4
  <1>5. list \in List
    <2>1. \A s \in Slot : list[s] \in [id : Player \cup {None}, blocked : BOOLEAN]
      BY <1>4
    <2>2. list = [s \in Slot |-> list[s]]
      BY <1>3
    <2> QED
      BY <2>1, <2>2 DEF List
  <1>6. ASSUME NEW k \in 1 .. n PROVE k \in Slot /\ k <= n /\ list[k].id = Mate(p, rows[k])
    <2>1. k \in Slot /\ k <= n
      BY <1>1 DEF Slot
    <2> QED
      BY <1>4, <2>1
  <1>7. Serves(p, list, Others(p))
    <2>1. ASSUME NEW q \in Others(p) PROVE q \in Ids(list)
      <3>1. PICK k \in 1 .. n : Mate(p, rows[k]) = q
        BY <1>1
      <3> QED
        BY <1>2, <1>6, <3>1 DEF Ids
    <2>2. p \notin Ids(list)
      BY <1>4 DEF Ids
    <2> QED
      BY <2>1, <2>2 DEF Serves
  <1>8. ASSUME p \notin quarrelsome PROVE Exact(list, Others(p))
    <2>1. m = 0
      BY <1>1, <1>8
    <2>2. ASSUME NEW s \in Slot PROVE ~list[s].blocked /\ (list[s].id # None => s <= n /\ list[s].id \in Others(p))
      <3>1. CASE s <= n
        <4>1. s \in 1 .. n
          BY <1>1, <3>1 DEF Slot
        <4> QED
          BY <1>1, <1>4, <3>1, <4>1
      <3>2. CASE ~(s <= n)
        BY <1>4, <2>1, <3>2
      <3> QED
        BY <3>1, <3>2
    <2>3. ASSUME NEW s \in Slot, NEW t \in Slot, list[s].id = list[t].id, list[s].id # None PROVE s = t
      <3>1. s \in 1 .. n /\ t \in 1 .. n
        BY <1>1, <2>2, <2>3 DEF Slot
      <3>2. Mate(p, rows[s]) = Mate(p, rows[t])
        BY <1>6, <2>3, <3>1
      <3>3. rows[s] \in Pairs /\ p \in rows[s] /\ rows[t] \in Pairs /\ p \in rows[t]
        <4>1. RowsOf(p) \in Seq(Pairs) /\ Finds(Buddyships, Mine(p), DOMAIN Buddyships, RowsOf(p))
          BY OnlyFinds DEF RowsOf, Mine, BuddyTypes
        <4> QED
          BY <3>1, <4>1, ElementOfSeq DEF rows, n, Finds, Mine
      <3>4. rows[s] = rows[t]
        <4>1. rows[s] = {p, Mate(p, rows[s])} /\ rows[t] = {p, Mate(p, rows[t])}
          BY <3>3, MateIs
        <4> QED
          BY <3>2, <4>1
      <3>5. Single(rows) /\ DOMAIN rows = 1 .. n
        BY OnlySingle, RowsOfIs, LenProperties DEF rows, n, RowsOf, BuddyTypes
      <3> QED
        BY <3>1, <3>4, <3>5 DEF Single
    <2> QED
      BY <2>2, <2>3 DEF Exact
  <1> QED
    BY <1>5, <1>7, <1>8 DEF list

LEMMA ToldIs ==
    ASSUME BuddyTypes, Single(Buddyships), BlocksOK, NEW p \in Player, NEW list \in List,
           Cardinality(Others(p)) <= BuddySlots
    PROVE  /\ ToldOf(p, list) \subseteq Ids(list)
           /\ Exact(list, Others(p)) => ToldOf(p, list) = Ids(list)
  <1> DEFINE ids == [s \in Slot |-> list[s].id]
             known == Only(ids, Player)
             all == getNumBuddies(p)
             shown == IF all < Len(known) THEN all ELSE Len(known)
  <1>1. ids \in Seq(Player \cup {None}) /\ DOMAIN ids = Slot
    <2>1. \A s \in 1 .. BuddySlots : list[s].id \in Player \cup {None}
      BY ListIs DEF Slot
    <2>2. [s \in 1 .. BuddySlots |-> list[s].id] \in Seq(Player \cup {None})
      BY <2>1, BuddiesAssumption, IsASeq
    <2> QED
      BY <2>2 DEF Slot
  <1>2. known \in Seq(Player \cup {None}) /\ Finds(ids, Player, Slot, known)
    <2> HIDE DEF ids
    <2> QED
      BY <1>1, OnlyFinds
  <1>3. Len(RowsOf(p)) \in Nat /\ Len(BlocksOf(p)) \in Nat /\ BuddySlots \in Nat
        /\ IsFiniteSet(Others(p)) /\ Cardinality(Others(p)) = Len(RowsOf(p))
    BY RowsOfIs, BlocksOfIs, BuddiesAssumption
  <1>4. all \in Nat /\ Cardinality(Others(p)) <= all
    BY <1>3 DEF getNumBuddies
  <1>5. ToldOf(p, list) = {known[i] : i \in 1 .. shown}
    BY DEF ToldOf
  <1>6. \A s \in Slot : ids[s] = list[s].id
    OBVIOUS
  <1> HIDE DEF ids, known, all
  <1>7. Len(known) \in Nat /\ shown \in Nat /\ shown <= Len(known)
    BY <1>2, <1>4, LenProperties
  <1>8. Ids(list) = {known[k] : k \in 1 .. Len(known)}
    <2>1. ASSUME NEW k \in 1 .. Len(known) PROVE known[k] \in Ids(list)
      <3>1. known[k] \in Player /\ \E s \in Slot : ids[s] = known[k]
        BY <1>2, <2>1 DEF Finds
      <3> QED
        BY <1>6, <3>1, PlayersAssumption DEF Ids
    <2>2. ASSUME NEW q \in Ids(list) PROVE \E k \in 1 .. Len(known) : known[k] = q
      <3>1. q \in Player /\ \E s \in Slot : ids[s] = q
        BY <1>6, <2>2, ListIs DEF Ids
      <3> QED
        BY <1>2, <3>1 DEF Finds
    <2> QED
      BY <2>1, <2>2
  <1>9. ToldOf(p, list) \subseteq Ids(list)
    BY <1>5, <1>7, <1>8
  <1>10. ASSUME Exact(list, Others(p)) PROVE shown = Len(known)
    <2>1. \A i, j \in Slot : ids[i] = ids[j] /\ ids[i] \in Player => i = j
      BY <1>6, <1>10, PlayersAssumption DEF Exact
    <2>2. \A k, l \in 1 .. Len(known) : known[k] = known[l] => k = l
      BY <1>2, <2>1 DEF Finds
    <2>3. \A k \in 1 .. Len(known) : known[k] \in Others(p)
      <3>1. Ids(list) \subseteq Others(p)
        BY <1>10 DEF Exact, Ids
      <3> QED
        BY <1>8, <3>1
    <2> DEFINE f == [k \in 1 .. Len(known) |-> known[k]]
    <2>4. f \in [1 .. Len(known) -> Others(p)] /\ \A k, l \in 1 .. Len(known) : f[k] = f[l] => k = l
      BY <2>2, <2>3
    <2> HIDE DEF f
    <2>5. f \in Injection(1 .. Len(known), Others(p))
      BY <2>4 DEF Injection, IsInjective
    <2>6. Cardinality(1 .. Len(known)) <= Cardinality(Others(p))
      BY <1>3, <2>5, FS_Injection
    <2>7. Cardinality(1 .. Len(known)) = Len(known)
      <3>1. PICK k \in Nat : k = Len(known)
        BY <1>7
      <3>2. 1 \in Int /\ k \in Int /\ k - 1 + 1 = k
        OBVIOUS
      <3>3. Cardinality(1 .. k) = k
        BY <3>2, FS_Interval
      <3> QED
        BY <3>1, <3>3
    <2> QED
      BY <1>3, <1>4, <1>7, <2>6, <2>7
  <1>11. Exact(list, Others(p)) => ToldOf(p, list) = Ids(list)
    BY <1>5, <1>8, <1>10
  <1> QED
    BY <1>9, <1>11

\* A list has no more buddies than slots.
LEMMA FewInList ==
    ASSUME NEW list \in List, NEW others, others \subseteq Ids(list)
    PROVE  IsFiniteSet(others) /\ Cardinality(others) <= BuddySlots
  <1> DEFINE f == [s \in Slot |-> list[s].id]
             All == {list[s].id : s \in Slot}
  <1>1. f \in Surjection(Slot, All)
    BY DEF Surjection
  <1>2. IsFiniteSet(Slot) /\ Cardinality(Slot) = BuddySlots /\ BuddySlots \in Nat
    BY BuddiesAssumption, FS_Interval DEF Slot
  <1>3. IsFiniteSet(All) /\ Cardinality(All) <= BuddySlots
    <2> HIDE DEF f, All
    <2> QED
      BY <1>1, <1>2, FS_Surjection
  <1>4. others \in SUBSET All
    BY DEF Ids
  <1> HIDE DEF All
  <1>5. IsFiniteSet(others) /\ Cardinality(others) <= Cardinality(All)
    BY <1>3, <1>4, FS_Subset
  <1> QED
    BY <1>2, <1>3, <1>5, FS_CardinalityType

-----------------------------------------------------------------------------
(***************************************************************************)
(* What a step does to a player.                                           *)
(***************************************************************************)
LEMMA GainsBuddy ==
    ASSUME NEW r \in Player, NEW id \in Player, id # r, NEW list \in List, ~NoRoom(list), NEW shown, NEW loaded,
           NEW others, NEW calm, NEW still, Agrees(r, list, shown, loaded, others, TRUE, calm),
           still => calm, calm => id \notin Ids(list)
    PROVE  Agrees(r, Filled(list, id), shown \cup {id}, loaded, others \cup {id}, TRUE, still)
  <1>1. /\ Filled(list, id) \in List /\ Ids(Filled(list, id)) = Ids(list) \cup {id}
        /\ Exact(list, others) /\ id \notin Ids(list) => Exact(Filled(list, id), others \cup {id})
    BY FilledIs
  <1>2. others \subseteq Ids(list) /\ r \notin Ids(list) /\ loaded = None
    BY DEF Agrees, Serves
  <1>3. IsFiniteSet(others \cup {id}) /\ Cardinality(others \cup {id}) <= BuddySlots
    BY <1>1, <1>2, FewInList
  <1>4. Serves(r, Filled(list, id), others \cup {id})
    BY <1>1, <1>2 DEF Serves
  <1>5. still => Exact(Filled(list, id), others \cup {id}) /\ shown \cup {id} = Ids(Filled(list, id))
    BY <1>1 DEF Agrees
  <1> QED
    BY <1>2, <1>3, <1>4, <1>5 DEF Agrees

LEMMA LosesBuddy ==
    ASSUME NEW r \in Player, NEW id \in Player, NEW list \in List, NEW now \in List, NEW shown, NEW loaded,
           NEW others, NEW calm, NEW still, GivenUp(list, now, id),
           Agrees(r, list, shown, loaded, others, TRUE, calm), still => calm
    PROVE  Agrees(r, now, shown \ {id}, loaded, others \ {id}, TRUE, still)
  <1>1. loaded = None /\ Serves(r, now, others \ {id})
    BY DEF Agrees, Serves, GivenUp
  <1>2. IsFiniteSet(others \ {id}) /\ Cardinality(others \ {id}) <= BuddySlots
    BY <1>1, FewInList DEF Serves
  <1>3. still => Exact(now, others \ {id}) /\ shown \ {id} = Ids(now)
    BY DEF Agrees, GivenUp
  <1> QED
    BY <1>1, <1>2, <1>3 DEF Agrees

\* Who is not in the game keeps the list that was read; what happens meanwhile makes it stale.
LEMMA LosesUnseen ==
    ASSUME NEW r, NEW list, NEW shown, NEW loaded, NEW others, NEW fewer, NEW calm, NEW still,
           Agrees(r, list, shown, loaded, others, FALSE, calm), fewer \subseteq others,
           loaded # None => ~still
    PROVE  Agrees(r, list, shown, loaded, fewer, FALSE, still)
  <1>1. IsFiniteSet(fewer) /\ Cardinality(fewer) <= BuddySlots
    <2>1. IsFiniteSet(others) /\ Cardinality(others) <= BuddySlots /\ BuddySlots \in Nat
      BY BuddiesAssumption DEF Agrees
    <2>2. IsFiniteSet(fewer) /\ Cardinality(fewer) <= Cardinality(others)
      BY <2>1, FS_Subset
    <2> QED
      BY <2>1, <2>2, FS_CardinalityType
  <1> QED
    BY <1>1 DEF Agrees, Serves

\* Who had to do with a block has at least its buddies.
LEMMA IsRoused ==
    ASSUME NEW r, NEW list, NEW now, NEW shown, NEW seen, NEW loaded, NEW others, NEW fewer,
           NEW playing, NEW calm, NEW still,
           Agrees(r, list, shown, loaded, others, playing, calm), fewer \subseteq others, ~still,
           playing => fewer \subseteq Ids(now) /\ r \notin Ids(now)
    PROVE  Agrees(r, now, seen, loaded, fewer, playing, still)
  <1>1. IsFiniteSet(fewer) /\ Cardinality(fewer) <= BuddySlots
    <2>1. IsFiniteSet(others) /\ Cardinality(others) <= BuddySlots /\ BuddySlots \in Nat
      BY BuddiesAssumption DEF Agrees
    <2>2. IsFiniteSet(fewer) /\ Cardinality(fewer) <= Cardinality(others)
      BY <2>1, FS_Subset
    <2> QED
      BY <2>1, <2>2, FS_CardinalityType
  <1>2. (playing => loaded = None) /\ (loaded # None => Serves(r, loaded, fewer))
    BY DEF Agrees, Serves
  <1> QED
    BY <1>1, <1>2 DEF Agrees, Serves

LEMMA StaysCalm ==
    ASSUME NEW r, NEW list, NEW shown, NEW loaded, NEW others, NEW playing, NEW calm, NEW still,
           Agrees(r, list, shown, loaded, others, playing, calm), still => calm
    PROVE  Agrees(r, list, shown, loaded, others, playing, still)
  BY DEF Agrees

LEMMA BlockAdded ==
    ASSUME NEW rows \in Seq(Player \X Player), NEW p \in Player, NEW q \in Player, p # q, NEW who, NEW more,
           BlocksAre(rows, who), who \subseteq more, p \in more
    PROVE  Append(rows, <<p, q>>) \in Seq(Player \X Player) /\ BlocksAre(Append(rows, <<p, q>>), more)
  <1> DEFINE row == <<p, q>>
             new == Append(rows, row)
             n == Len(rows)
  <1>1. row \in Player \X Player /\ row[1] = p /\ row[2] = q
    OBVIOUS
  <1>2. /\ n \in Nat /\ DOMAIN rows = 1 .. n /\ new \in Seq(Player \X Player) /\ DOMAIN new = 1 .. n + 1
        /\ new[n + 1] = row /\ \A i \in 1 .. n : new[i] = rows[i]
    <2> HIDE DEF row
    <2> QED
      BY <1>1, AppendProperties, LenProperties
  <1> HIDE DEF row, new, n
  <1>3. BlocksAre(new, more)
    <2>1. ASSUME NEW i \in 1 .. n + 1 PROVE new[i][1] # new[i][2] /\ new[i][1] \in more
      <3>1. CASE i = n + 1
        BY <1>1, <1>2, <3>1
      <3>2. CASE i # n + 1
        <4>1. i \in 1 .. n
          BY <1>2, <3>2
        <4> QED
          BY <1>2, <4>1 DEF BlocksAre
      <3> QED
        BY <3>1, <3>2
    <2> QED
      BY <1>2, <2>1 DEF BlocksAre
  <1> QED
    BY <1>2, <1>3 DEF new, row

LEMMA BlockRemoved ==
    ASSUME NEW rows \in Seq(Player \X Player), NEW wanted, NEW who, NEW more,
           BlocksAre(rows, who), who \subseteq more
    PROVE  Only(rows, wanted) \in Seq(Player \X Player) /\ BlocksAre(Only(rows, wanted), more)
  <1> DEFINE new == Only(rows, wanted)
  <1>1. /\ new \in Seq(Player \X Player) /\ DOMAIN new = 1 .. Len(new)
        /\ Finds(rows, wanted, DOMAIN rows, new)
    BY OnlyFinds, LenProperties
  <1> HIDE DEF new
  <1>2. BlocksAre(new, more)
    BY <1>1 DEF Finds, BlocksAre
  <1> QED
    BY <1>1, <1>2 DEF new

-----------------------------------------------------------------------------
(***************************************************************************)
(* The actions.                                                            *)
(***************************************************************************)
LEMMA SameFor ==
    ASSUME NEW r \in Player, PlayerAgrees(r), buddies'[r] = buddies[r], told'[r] = told[r],
           handedOver'[r] = handedOver[r], Others(r)' = Others(r), (r \in inShard)' <=> r \in inShard,
           Calm(r)' => Calm(r)
    PROVE  PlayerAgrees(r)'
  <1>1. Agrees(r, buddies[r], told[r], handedOver[r], Others(r), r \in inShard, Calm(r)')
    BY StaysCalm DEF PlayerAgrees
  <1>2. (r \in inShard)' = (r \in inShard)
    OBVIOUS
  <1> QED
    BY <1>1, <1>2 DEF PlayerAgrees

\* Rows that change make stale whoever is between the login server and the shard.
LEMMA ChangeMakesStale ==
    ASSUME NEW ps \in SUBSET Player, stale \subseteq Player, RowsChange(ps), quarrelsome \subseteq quarrelsome'
    PROVE  /\ stale' \subseteq Player
           /\ \A r \in Player : Calm(r)' => Calm(r)
           /\ \A r \in ps : handedOver[r] # None => ~Calm(r)'
  BY DEF RowsChange, Calm

LEMMA SelectKeeps ==
    ASSUME BuddiesInv, NEW p \in Player, Select(p) PROVE BuddiesInv'
  <1>1. BuddyTypes /\ Single(Buddyships) /\ BlocksOK /\ \A r \in Player : PlayerAgrees(r)
    BY DEF BuddiesInv
  <1>2. PlayerAgrees(p)
    BY <1>1
  <1>3. IsFiniteSet(Others(p)) /\ Cardinality(Others(p)) <= BuddySlots
    BY <1>2 DEF PlayerAgrees, Agrees
  <1>4. /\ LoadedList(p) \in List /\ Serves(p, LoadedList(p), Others(p))
        /\ p \notin quarrelsome => Exact(LoadedList(p), Others(p))
    BY <1>1, <1>3, LoadedIs
  <1>5. BuddyTypes'
    BY <1>1, <1>4 DEF Select, BuddyTypes
  <1>6. Single(Buddyships)' /\ BlocksOK'
    BY <1>1 DEF Select, BlocksOK
  <1>7. ASSUME NEW r \in Player PROVE PlayerAgrees(r)'
    <2>1. Others(r)' = Others(r)
      BY DEF Select, Others
    <2>2. CASE r = p
      <3>1. handedOver'[p] = LoadedList(p) /\ p \notin inShard'
        BY <1>1 DEF Select, BuddyTypes
      <3>2. Calm(p)' => p \notin quarrelsome
        BY DEF Select, Calm
      <3> QED
        BY <1>3, <1>4, <2>1, <2>2, <3>1, <3>2 DEF PlayerAgrees, Agrees
    <2>3. CASE r # p
      <3>1. buddies'[r] = buddies[r] /\ told'[r] = told[r] /\ handedOver'[r] = handedOver[r]
            /\ ((r \in inShard)' <=> r \in inShard) /\ (Calm(r)' => Calm(r))
        BY <2>3 DEF Select, Calm
      <3> QED
        BY <1>1, <2>1, <3>1, SameFor
    <2> QED
      BY <2>2, <2>3
  <1> QED
    BY <1>5, <1>6, <1>7 DEF BuddiesInv

LEMMA EnterKeeps ==
    ASSUME BuddiesInv, NEW p \in Player, Enter(p) PROVE BuddiesInv'
  <1>1. BuddyTypes /\ Single(Buddyships) /\ BlocksOK /\ \A r \in Player : PlayerAgrees(r)
    BY DEF BuddiesInv
  <1> DEFINE list == handedOver[p]
  <1>2. list \in List /\ list # None
    BY <1>1 DEF Enter, BuddyTypes
  <1>3. /\ IsFiniteSet(Others(p)) /\ Cardinality(Others(p)) <= BuddySlots
        /\ Serves(p, list, Others(p)) /\ (Calm(p) => Exact(list, Others(p)))
    BY <1>1, <1>2 DEF PlayerAgrees, Agrees
  <1>4. /\ ToldOf(p, list) \subseteq Ids(list)
        /\ Exact(list, Others(p)) => ToldOf(p, list) = Ids(list)
    BY <1>1, <1>2, <1>3, ToldIs
  <1>5. Ids(list) \subseteq Player
    BY <1>2, ListIs
  <1>6. /\ buddies'[p] = list /\ handedOver'[p] = None /\ told'[p] = ToldOf(p, list)
        /\ \A r \in Player \ {p} : buddies'[r] = buddies[r] /\ handedOver'[r] = handedOver[r] /\ told'[r] = told[r]
        /\ buddies' \in [Player -> List] /\ handedOver' \in [Player -> List \cup {None}]
        /\ told' \in [Player -> SUBSET Player]
    BY <1>1, <1>2, <1>4, <1>5 DEF Enter, BuddyTypes
  <1>7. BuddyTypes'
    BY <1>1, <1>6 DEF Enter, BuddyTypes
  <1>8. Single(Buddyships)' /\ BlocksOK'
    BY <1>1 DEF Enter, BlocksOK
  <1> HIDE DEF list
  <1>9. ASSUME NEW r \in Player PROVE PlayerAgrees(r)'
    <2>1. Others(r)' = Others(r)
      BY DEF Enter, Others
    <2>2. CASE r = p
      <3>1. (Calm(p)' <=> Calm(p)) /\ p \in inShard'
        BY DEF Enter, Calm
      <3> QED
        BY <1>3, <1>4, <1>6, <2>1, <2>2, <3>1 DEF PlayerAgrees, Agrees
    <2>3. CASE r # p
      <3>1. ((r \in inShard)' <=> r \in inShard) /\ (Calm(r)' => Calm(r))
        BY <2>3 DEF Enter, Calm
      <3> QED
        BY <1>1, <1>6, <2>1, <2>3, <3>1, SameFor
    <2> QED
      BY <2>2, <2>3
  <1> QED
    BY <1>7, <1>8, <1>9 DEF BuddiesInv

LEMMA LeaveKeeps ==
    ASSUME BuddiesInv, NEW p \in Player, Leave(p) PROVE BuddiesInv'
  <1>1. BuddyTypes /\ Single(Buddyships) /\ BlocksOK /\ \A r \in Player : PlayerAgrees(r)
    BY DEF BuddiesInv
  <1>2. [s \in Slot |-> Empty] \in List
    BY DEF List, Empty
  <1>3. BuddyTypes'
    BY <1>1, <1>2 DEF Leave, BuddyTypes
  <1>4. Single(Buddyships)' /\ BlocksOK'
    BY <1>1 DEF Leave, BlocksOK
  <1>5. ASSUME NEW r \in Player PROVE PlayerAgrees(r)'
    <2>1. Others(r)' = Others(r)
      BY DEF Leave, Others
    <2>2. CASE r = p
      <3>1. handedOver'[p] = handedOver[p] /\ p \notin inShard' /\ handedOver[p] = None
        BY <1>1 DEF Leave, PlayerAgrees, Agrees
      <3> QED
        BY <1>1, <2>1, <2>2, <3>1 DEF PlayerAgrees, Agrees
    <2>3. CASE r # p
      <3>1. buddies'[r] = buddies[r] /\ told'[r] = told[r] /\ handedOver'[r] = handedOver[r]
            /\ ((r \in inShard)' <=> r \in inShard) /\ (Calm(r)' => Calm(r))
        BY <1>1, <2>3 DEF Leave, Calm, BuddyTypes
      <3> QED
        BY <1>1, <2>1, <3>1, SameFor
    <2> QED
      BY <2>2, <2>3
  <1> QED
    BY <1>3, <1>4, <1>5 DEF BuddiesInv

LEMMA StateKeeps ==
    ASSUME BuddiesInv, NEW p \in Player, reqPktGetBuddyState(p) PROVE BuddiesInv'
  <1>1. BuddyTypes /\ Single(Buddyships) /\ BlocksOK /\ \A r \in Player : PlayerAgrees(r)
    BY DEF BuddiesInv
  <1>2. buddies[p] \in List /\ p \in inShard
    BY <1>1 DEF reqPktGetBuddyState, BuddyTypes
  <1>3. Cardinality(Others(p)) <= BuddySlots
    BY <1>1 DEF PlayerAgrees, Agrees
  <1>4. /\ ToldOf(p, buddies[p]) \subseteq Ids(buddies[p])
        /\ Exact(buddies[p], Others(p)) => ToldOf(p, buddies[p]) = Ids(buddies[p])
    BY <1>1, <1>2, <1>3, ToldIs
  <1>5. Ids(buddies[p]) \subseteq Player
    BY <1>2, ListIs
  <1>6. /\ told' \in [Player -> SUBSET Player] /\ told'[p] = ToldOf(p, buddies[p])
        /\ \A r \in Player \ {p} : told'[r] = told[r]
    BY <1>1, <1>4, <1>5 DEF reqPktGetBuddyState, BuddyTypes
  <1>7. BuddyTypes'
    BY <1>1, <1>6 DEF reqPktGetBuddyState, BuddyTypes
  <1>8. Single(Buddyships)' /\ BlocksOK'
    BY <1>1 DEF reqPktGetBuddyState, BlocksOK
  <1>9. ASSUME NEW r \in Player PROVE PlayerAgrees(r)'
    <2>1. Others(r)' = Others(r) /\ buddies'[r] = buddies[r] /\ handedOver'[r] = handedOver[r]
          /\ (r \in inShard)' = (r \in inShard) /\ Calm(r)' = Calm(r)
      BY DEF reqPktGetBuddyState, Others, Calm
    <2>2. CASE r = p
      BY <1>1, <1>2, <1>4, <1>6, <2>1, <2>2 DEF PlayerAgrees, Agrees
    <2>3. CASE r # p
      BY <1>1, <1>6, <2>1, <2>3, SameFor
    <2> QED
      BY <2>2, <2>3
  <1> QED
    BY <1>7, <1>8, <1>9 DEF BuddiesInv

\* What is asked, and what is turned down, changes nobody's list.
LEMMA AskingKeeps ==
    ASSUME BuddiesInv, asked' \subseteq Player \X Player,
           UNCHANGED <<buddies, inShard, synced, handedOver, told, Buddyships, Blocks, stale, quarrelsome>>
    PROVE  BuddiesInv'
  <1>1. BuddyTypes /\ Single(Buddyships) /\ BlocksOK /\ \A r \in Player : PlayerAgrees(r)
    BY DEF BuddiesInv
  <1>2. BuddyTypes' /\ Single(Buddyships)' /\ BlocksOK'
    BY <1>1 DEF BuddyTypes, BlocksOK
  <1>3. ASSUME NEW r \in Player PROVE PlayerAgrees(r)'
    <2>1. Others(r)' = Others(r) /\ Calm(r)' = Calm(r)
      BY DEF Others, Calm
    <2> QED
      BY <1>1, <2>1, SameFor
  <1> QED
    BY <1>2, <1>3 DEF BuddiesInv

\* A row comes, a row goes.
LEMMA RowComes ==
    ASSUME BuddyTypes, Single(Buddyships), NEW p \in Player, NEW q \in Player, p # q, q \notin Others(p),
           Buddyships' = Append(Buddyships, {p, q})
    PROVE  /\ Buddyships' \in Seq(Pairs) /\ Single(Buddyships')
           /\ Others(p)' = Others(p) \cup {q} /\ Others(q)' = Others(q) \cup {p}
           /\ \A r \in Player \ {p, q} : Others(r)' = Others(r)
  <1> DEFINE rows == Buddyships
             new == Append(rows, {p, q})
             known == OthersIn(rows, p)
  <1>1. rows \in Seq(Pairs) /\ Buddyships' = new /\ q \notin known /\ Single(rows)
    BY DEF BuddyTypes, Others
  <1>2. Comes(rows, new, p, q)
    <2> HIDE DEF rows
    <2> QED
      BY <1>1, RowAdded
  <1> HIDE DEF new
  <1> QED
    BY <1>1, <1>2 DEF Others, Comes

LEMMA RowGoes ==
    ASSUME BuddyTypes, Single(Buddyships), NEW p \in Player, NEW q \in Player, p # q,
           Buddyships' = removeBuddyship(p, q)
    PROVE  /\ Buddyships' \in Seq(Pairs) /\ Single(Buddyships')
           /\ Others(p)' = Others(p) \ {q} /\ Others(q)' = Others(q) \ {p}
           /\ \A r \in Player \ {p, q} : Others(r)' = Others(r)
  <1> DEFINE new == Only(Buddyships, (SUBSET Player) \ {{p, q}})
  <1>1. Buddyships \in Seq(Pairs) /\ Buddyships' = new
    BY DEF BuddyTypes, removeBuddyship
  <1>2. Goes(Buddyships, new, p, q)
    BY <1>1, RowRemoved
  <1> HIDE DEF new
  <1> QED
    BY <1>1, <1>2 DEF Others, Goes

LEMMA AcceptKeeps ==
    ASSUME BuddiesInv, NEW p \in Player, NEW q \in Player, reqAcceptBuddy(p, q) PROVE BuddiesInv'
  <1>1. BuddyTypes /\ Single(Buddyships) /\ BlocksOK /\ \A r \in Player : PlayerAgrees(r)
    BY DEF BuddiesInv
  <1> DEFINE makes == q \in inShard /\ ~NoRoom(buddies[p]) /\ ~NoRoom(buddies[q]) /\ p # q /\ ~Has(buddies[p], q)
  <1>2. CASE ~makes
    <2>1. asked' \subseteq Player \X Player
      BY <1>1 DEF reqAcceptBuddy, BuddyTypes
    <2>2. UNCHANGED <<buddies, inShard, synced, handedOver, told, Buddyships, Blocks, stale, quarrelsome>>
      BY <1>2 DEF reqAcceptBuddy
    <2> QED
      BY <2>1, <2>2, AskingKeeps
  <1>3. CASE makes
    <2>1. /\ q \in inShard /\ p \in inShard /\ ~NoRoom(buddies[p]) /\ ~NoRoom(buddies[q]) /\ p # q
          /\ ~Has(buddies[p], q) /\ buddies[p] \in List /\ buddies[q] \in List
      BY <1>1, <1>3 DEF reqAcceptBuddy, BuddyTypes
    <2>2. /\ buddies' = BothFilled(p, q) /\ told' = [told EXCEPT ![p] = @ \cup {q}, ![q] = @ \cup {p}]
          /\ Buddyships' = Append(Buddyships, {p, q}) /\ RowsChange({p, q})
          /\ UNCHANGED <<inShard, synced, handedOver, Blocks, quarrelsome>> /\ asked' \subseteq asked
      BY <1>3 DEF reqAcceptBuddy, addBuddyship
    <2>3. Filled(buddies[p], q) \in List /\ Filled(buddies[q], p) \in List
      BY <2>1, FilledIs
    <2>4. /\ buddies' \in [Player -> List] /\ told' \in [Player -> SUBSET Player]
          /\ buddies'[p] = Filled(buddies[p], q) /\ buddies'[q] = Filled(buddies[q], p)
          /\ told'[p] = told[p] \cup {q} /\ told'[q] = told[q] \cup {p}
          /\ \A r \in Player \ {p, q} : buddies'[r] = buddies[r] /\ told'[r] = told[r]
      BY <1>1, <2>1, <2>2, <2>3 DEF BothFilled, BuddyTypes
    <2>5. /\ stale' \subseteq Player /\ \A r \in Player : Calm(r)' => Calm(r)
      BY <1>1, <2>2, ChangeMakesStale DEF BuddyTypes
    <2>6. /\ Agrees(p, buddies[p], told[p], handedOver[p], Others(p), TRUE, Calm(p))
          /\ Agrees(q, buddies[q], told[q], handedOver[q], Others(q), TRUE, Calm(q))
      BY <1>1, <2>1 DEF PlayerAgrees
    <2>7. q \notin Ids(buddies[p]) /\ q \notin Others(p) /\ p \notin Others(q)
      <3>1. q \notin Ids(buddies[p])
        BY <2>1 DEF Has, Ids
      <3>2. q \notin Others(p)
        BY <2>6, <3>1 DEF Agrees, Serves
      <3>3. {q, p} = {p, q}
        OBVIOUS
      <3> QED
        BY <3>1, <3>2, <3>3 DEF Others, OthersIn
    <2>8. Calm(q) => p \notin Ids(buddies[q])
      BY <2>6, <2>7 DEF Agrees, Exact, Ids
    <2>9. /\ Buddyships' \in Seq(Pairs) /\ Single(Buddyships')
          /\ Others(p)' = Others(p) \cup {q} /\ Others(q)' = Others(q) \cup {p}
          /\ \A r \in Player \ {p, q} : Others(r)' = Others(r)
      BY <1>1, <2>1, <2>2, <2>7, RowComes
    <2>11. BuddyTypes'
      BY <1>1, <2>2, <2>4, <2>5, <2>9 DEF BuddyTypes
    <2>12. BlocksOK'
      BY <1>1, <2>2 DEF BlocksOK
    <2>13. PlayerAgrees(p)'
      <3>1. Agrees(p, Filled(buddies[p], q), told[p] \cup {q}, handedOver[p], Others(p) \cup {q}, TRUE, Calm(p)')
        BY <2>1, <2>5, <2>6, <2>7, GainsBuddy
      <3>2. (p \in inShard') = TRUE
        BY <2>1, <2>2
      <3> QED
        BY <2>2, <2>4, <2>9, <3>1, <3>2 DEF PlayerAgrees
    <2>14. PlayerAgrees(q)'
      <3>1. Agrees(q, Filled(buddies[q], p), told[q] \cup {p}, handedOver[q], Others(q) \cup {p}, TRUE, Calm(q)')
        <4>1. Calm(q)' => Calm(q)
          BY <2>5
        <4> QED
          BY <2>1, <2>6, <2>8, <4>1, GainsBuddy
      <3>2. (q \in inShard') = TRUE
        BY <2>1, <2>2
      <3> QED
        BY <2>2, <2>4, <2>9, <3>1, <3>2 DEF PlayerAgrees
    <2>15. ASSUME NEW r \in Player \ {p, q} PROVE PlayerAgrees(r)'
      <3>1. handedOver'[r] = handedOver[r] /\ ((r \in inShard)' <=> r \in inShard)
        BY <2>2
      <3> QED
        BY <1>1, <2>4, <2>5, <2>9, <3>1, SameFor
    <2> QED
      BY <2>9, <2>11, <2>12, <2>13, <2>14, <2>15 DEF BuddiesInv
  <1> QED
    BY <1>2, <1>3

\* The other side of a removal.
LEMMA OtherLoses ==
    ASSUME BuddyTypes, NEW p \in Player, NEW q \in Player, NEW list, list \in [Player -> List], list[q] = buddies[q],
           PlayerAgrees(q), NEW still, still => Calm(q), handedOver[q] # None => ~still
    PROVE  /\ OtherForgets(list, p, q) \in [Player -> List] /\ Untold(p, q) \subseteq Player
           /\ \A r \in Player \ {q} : OtherForgets(list, p, q)[r] = list[r]
           /\ Agrees(q, OtherForgets(list, p, q)[q], Untold(p, q), handedOver[q], Others(q) \ {p},
                     q \in inShard, still)
  <1> DEFINE new == OtherForgets(list, p, q)
  <1>1. buddies[q] \in List /\ told[q] \subseteq Player
    BY DEF BuddyTypes
  <1>2. GivenUp(buddies[q], ForgetFirst(buddies[q], p), p) /\ ForgetFirst(buddies[q], p) \in List
    BY <1>1, ForgottenIs DEF GivenUp
  <1>3. /\ new \in [Player -> List] /\ \A r \in Player \ {q} : new[r] = list[r]
        /\ new[q] = IF q \in inShard THEN ForgetFirst(buddies[q], p) ELSE buddies[q]
    BY <1>1, <1>2 DEF OtherForgets
  <1> HIDE DEF new
  <1>4. Agrees(q, buddies[q], told[q], handedOver[q], Others(q), q \in inShard, Calm(q))
    BY DEF PlayerAgrees
  <1>5. Agrees(q, new[q], Untold(p, q), handedOver[q], Others(q) \ {p}, q \in inShard, still)
    <2>1. CASE q \in inShard
      <3>1. Agrees(q, ForgetFirst(buddies[q], p), told[q] \ {p}, handedOver[q], Others(q) \ {p}, TRUE, still)
        <4>1. Agrees(q, buddies[q], told[q], handedOver[q], Others(q), TRUE, Calm(q))
          BY <1>4, <2>1
        <4> QED
          BY <1>1, <1>2, <4>1, LosesBuddy
      <3>2. Calm(q) => Untold(p, q) = told[q] \ {p}
        <4>1. Calm(q) => told[q] = Ids(buddies[q])
          BY <1>4, <2>1 DEF Agrees
        <4>2. ~Has(buddies[q], p) => p \notin Ids(buddies[q])
          BY DEF Has, Ids
        <4> QED
          BY <2>1, <4>1, <4>2 DEF Untold
      <3>3. new[q] = ForgetFirst(buddies[q], p) /\ (q \in inShard) = TRUE
        BY <1>3, <2>1
      <3> QED
        BY <3>1, <3>2, <3>3 DEF Agrees
    <2>2. CASE q \notin inShard
      <3>1. Untold(p, q) = told[q] /\ new[q] = buddies[q] /\ (q \in inShard) = FALSE
        BY <1>3, <2>2 DEF Untold
      <3>2. Agrees(q, buddies[q], told[q], handedOver[q], Others(q), FALSE, Calm(q))
        BY <1>4, <3>1
      <3>3. Agrees(q, buddies[q], told[q], handedOver[q], Others(q) \ {p}, FALSE, still)
        BY <3>2, LosesUnseen
      <3> QED
        BY <3>1, <3>3
    <2> QED
      BY <2>1, <2>2
  <1>6. Untold(p, q) \subseteq Player
    BY <1>1 DEF Untold
  <1> QED
    BY <1>3, <1>5, <1>6 DEF new

\* A list is about somebody else, and a player in the game has no list waiting.
LEMMA EntryIs ==
    ASSUME BuddiesInv, NEW p \in Player, p \in inShard, NEW s \in Slot, buddies[p][s].id # None
    PROVE  /\ buddies[p] \in List /\ buddies[p][s].id \in Player /\ buddies[p][s].id # p
           /\ buddies[p][s].id \in Ids(buddies[p]) /\ handedOver[p] = None
  <1>1. buddies[p] \in List
    BY DEF BuddiesInv, BuddyTypes
  <1>2. buddies[p][s].id \in Ids(buddies[p])
    BY DEF Ids
  <1>3. p \notin Ids(buddies[p]) /\ handedOver[p] = None
    BY DEF BuddiesInv, PlayerAgrees, Agrees, Serves
  <1>4. Ids(buddies[p]) \subseteq Player
    BY <1>1, ListIs
  <1> QED
    BY <1>1, <1>2, <1>3, <1>4

LEMMA BlockKeeps ==
    ASSUME BuddiesInv, NEW p \in Player, NEW s \in Slot, reqBuddyBlock(p, s) PROVE BuddiesInv'
  <1>1. BuddyTypes /\ Single(Buddyships) /\ BlocksOK /\ \A r \in Player : PlayerAgrees(r)
    BY DEF BuddiesInv
  <1> DEFINE marked == [buddies[p] EXCEPT ![s].blocked = TRUE]
             list == [buddies EXCEPT ![p][s].blocked = TRUE]
  <1>a. p \in inShard /\ buddies[p][s].id # None
    BY DEF reqBuddyBlock
  <1>b. PICK q \in Player : q = buddies[p][s].id
    BY <1>a, EntryIs
  <1>2. /\ p \in inShard /\ q # None /\ Buddyships' = removeBuddyship(p, q)
        /\ Blocks' = Append(Blocks, <<p, q>>) /\ buddies' = OtherForgets(list, p, q)
        /\ told' = [told EXCEPT ![q] = Untold(p, q)] /\ RowsChange({p, q})
        /\ quarrelsome' = quarrelsome \cup {p, q} /\ UNCHANGED <<inShard, synced, handedOver, asked>>
    BY <1>a, <1>b DEF reqBuddyBlock, addBlock
  <1>3. buddies[p] \in List /\ q \in Player /\ q # p /\ handedOver[p] = None
    BY <1>a, <1>b, EntryIs
  <1>4. marked \in List /\ Ids(marked) = Ids(buddies[p])
    BY <1>3, MarkedIs
  <1>5. list \in [Player -> List] /\ list[p] = marked /\ \A r \in Player \ {p} : list[r] = buddies[r]
    BY <1>1, <1>4 DEF BuddyTypes
  <1> HIDE DEF marked, list
  <1>6. /\ Buddyships' \in Seq(Pairs) /\ Single(Buddyships')
        /\ Others(p)' = Others(p) \ {q} /\ Others(q)' = Others(q) \ {p}
        /\ \A r \in Player \ {p, q} : Others(r)' = Others(r)
    BY <1>1, <1>2, <1>3, RowGoes
  <1>7. /\ stale' \subseteq Player /\ \A r \in Player : Calm(r)' => Calm(r)
        /\ \A r \in {p, q} : handedOver[r] # None => ~Calm(r)'
    BY <1>1, <1>2, <1>3, ChangeMakesStale DEF BuddyTypes
  <1>8. ~Calm(p)' /\ ~Calm(q)'
    BY <1>2 DEF Calm
  <1>9. /\ buddies' \in [Player -> List] /\ Untold(p, q) \subseteq Player
        /\ \A r \in Player \ {q} : buddies'[r] = list[r]
        /\ Agrees(q, buddies'[q], Untold(p, q), handedOver[q], Others(q) \ {p}, q \in inShard, Calm(q)')
    <2>1. PlayerAgrees(q) /\ list[q] = buddies[q] /\ (Calm(q)' => Calm(q)) /\ (handedOver[q] # None => ~Calm(q)')
      BY <1>1, <1>3, <1>5, <1>7
    <2>2. /\ OtherForgets(list, p, q) \in [Player -> List] /\ Untold(p, q) \subseteq Player
          /\ \A r \in Player \ {q} : OtherForgets(list, p, q)[r] = list[r]
          /\ Agrees(q, OtherForgets(list, p, q)[q], Untold(p, q), handedOver[q], Others(q) \ {p},
                    q \in inShard, Calm(q)')
      BY <1>1, <1>3, <1>5, <2>1, OtherLoses
    <2>3. buddies' = OtherForgets(list, p, q)
      BY <1>2
    <2> QED
      BY <2>2, <2>3
  <1>10. /\ told' \in [Player -> SUBSET Player] /\ told'[q] = Untold(p, q)
         /\ \A r \in Player \ {q} : told'[r] = told[r]
    BY <1>1, <1>2, <1>3, <1>9 DEF BuddyTypes
  <1>11. Blocks' \in Seq(Player \X Player) /\ BlocksOK'
    <2>1. Blocks \in Seq(Player \X Player) /\ BlocksAre(Blocks, quarrelsome)
          /\ quarrelsome \subseteq quarrelsome' /\ p \in quarrelsome'
      BY <1>1, <1>2 DEF BuddyTypes, BlocksOK
    <2>2. /\ Append(Blocks, <<p, q>>) \in Seq(Player \X Player)
          /\ BlocksAre(Append(Blocks, <<p, q>>), quarrelsome')
      BY <1>3, <2>1, BlockAdded
    <2> QED
      BY <1>2, <2>2 DEF BlocksOK
  <1>12. BuddyTypes'
    BY <1>1, <1>2, <1>3, <1>6, <1>7, <1>9, <1>10, <1>11 DEF BuddyTypes
  <1>13. PlayerAgrees(p)'
    <2>1. Agrees(p, buddies[p], told[p], handedOver[p], Others(p), TRUE, Calm(p))
      BY <1>1, <1>2 DEF PlayerAgrees
    <2>2. Others(p) \ {q} \subseteq Ids(marked) /\ p \notin Ids(marked)
      BY <1>4, <2>1 DEF Agrees, Serves
    <2>3. Agrees(p, marked, told[p], handedOver[p], Others(p) \ {q}, TRUE, Calm(p)')
      BY <1>8, <2>1, <2>2, IsRoused
    <2>4. buddies'[p] = marked /\ told'[p] = told[p] /\ handedOver'[p] = handedOver[p] /\ (p \in inShard') = TRUE
      BY <1>2, <1>3, <1>5, <1>9, <1>10
    <2> QED
      BY <1>6, <2>3, <2>4 DEF PlayerAgrees
  <1>14. PlayerAgrees(q)'
    <2>1. handedOver'[q] = handedOver[q] /\ inShard' = inShard
      BY <1>2
    <2> QED
      BY <1>6, <1>9, <1>10, <2>1 DEF PlayerAgrees
  <1>15. ASSUME NEW r \in Player \ {p, q} PROVE PlayerAgrees(r)'
    <2>1. handedOver'[r] = handedOver[r] /\ ((r \in inShard)' <=> r \in inShard) /\ buddies'[r] = buddies[r]
      BY <1>2, <1>5, <1>9
    <2> QED
      BY <1>1, <1>6, <1>7, <1>10, <2>1, SameFor
  <1> QED
    BY <1>6, <1>11, <1>12, <1>13, <1>14, <1>15 DEF BuddiesInv

LEMMA BlockAnyKeeps ==
    ASSUME BuddiesInv, NEW p \in Player, NEW q \in Player \ {p}, reqPlayerBlock(p, q) PROVE BuddiesInv'
  <1>1. BuddyTypes /\ Single(Buddyships) /\ BlocksOK /\ \A r \in Player : PlayerAgrees(r)
    BY DEF BuddiesInv
  <1> DEFINE new == [buddies[p] EXCEPT ![FreeSlot(buddies[p])] = [id |-> q, blocked |-> TRUE]]
  <1>2. /\ p \in inShard /\ ~NoRoom(buddies[p]) /\ Blocks' = Append(Blocks, <<p, q>>)
        /\ buddies' = [buddies EXCEPT ![p][FreeSlot(buddies[p])] = [id |-> q, blocked |-> TRUE]]
        /\ told' = [told EXCEPT ![p] = @ \cup {q}] /\ RowsChange({p})
        /\ quarrelsome' = quarrelsome \cup {p, q}
        /\ UNCHANGED <<inShard, synced, handedOver, asked, Buddyships>>
    BY DEF reqPlayerBlock, addBlock
  <1>3. new \in List /\ Ids(new) = Ids(buddies[p]) \cup {q}
    <2>1. buddies[p] \in List
      BY <1>1 DEF BuddyTypes
    <2> QED
      BY <1>2, <2>1, BlockedFilledIs
  <1>4. /\ buddies' \in [Player -> List] /\ buddies'[p] = new
        /\ \A r \in Player \ {p} : buddies'[r] = buddies[r]
    BY <1>1, <1>2, <1>3 DEF BuddyTypes
  <1> HIDE DEF new
  <1>5. told' \in [Player -> SUBSET Player] /\ \A r \in Player \ {p} : told'[r] = told[r]
    BY <1>1, <1>2 DEF BuddyTypes
  <1>6. /\ stale' \subseteq Player /\ \A r \in Player : Calm(r)' => Calm(r)
    BY <1>1, <1>2, ChangeMakesStale DEF BuddyTypes
  <1>7. ~Calm(p)'
    BY <1>2 DEF Calm
  <1>8. \A r \in Player : Others(r)' = Others(r)
    BY <1>2 DEF Others
  <1>9. Blocks' \in Seq(Player \X Player) /\ BlocksOK'
    <2>1. Blocks \in Seq(Player \X Player) /\ BlocksAre(Blocks, quarrelsome)
          /\ quarrelsome \subseteq quarrelsome' /\ p \in quarrelsome'
      BY <1>1, <1>2 DEF BuddyTypes, BlocksOK
    <2>2. /\ Append(Blocks, <<p, q>>) \in Seq(Player \X Player)
          /\ BlocksAre(Append(Blocks, <<p, q>>), quarrelsome')
      BY <2>1, BlockAdded
    <2> QED
      BY <1>2, <2>2 DEF BlocksOK
  <1>10. BuddyTypes'
    BY <1>1, <1>2, <1>4, <1>5, <1>6, <1>9 DEF BuddyTypes
  <1>11. PlayerAgrees(p)'
    <2>1. Agrees(p, buddies[p], told[p], handedOver[p], Others(p), TRUE, Calm(p))
      BY <1>1, <1>2 DEF PlayerAgrees
    <2>2. Others(p) \subseteq Ids(new) /\ p \notin Ids(new)
      BY <1>3, <2>1 DEF Agrees, Serves
    <2>3. Agrees(p, new, told'[p], handedOver[p], Others(p), TRUE, Calm(p)')
      BY <1>7, <2>1, <2>2, IsRoused
    <2>4. handedOver'[p] = handedOver[p] /\ (p \in inShard') = TRUE
      BY <1>2
    <2> QED
      BY <1>4, <1>8, <2>3, <2>4 DEF PlayerAgrees
  <1>12. ASSUME NEW r \in Player \ {p} PROVE PlayerAgrees(r)'
    <2>1. handedOver'[r] = handedOver[r] /\ ((r \in inShard)' <=> r \in inShard)
      BY <1>2
    <2> QED
      BY <1>1, <1>4, <1>5, <1>6, <1>8, <2>1, SameFor
  <1>13. Single(Buddyships)'
    BY <1>1, <1>2
  <1> QED
    BY <1>9, <1>10, <1>11, <1>12, <1>13 DEF BuddiesInv

LEMMA DeleteKeeps ==
    ASSUME BuddiesInv, NEW p \in Player, NEW s \in Slot, reqBuddyDelete(p, s) PROVE BuddiesInv'
  <1>1. BuddyTypes /\ Single(Buddyships) /\ BlocksOK /\ \A r \in Player : PlayerAgrees(r)
    BY DEF BuddiesInv
  <1> DEFINE emptied == [buddies[p] EXCEPT ![s] = Empty]
             list == [buddies EXCEPT ![p][s] = Empty]
             block == buddies[p][s].blocked
  <1>a. p \in inShard /\ buddies[p][s].id # None
    BY DEF reqBuddyDelete
  <1>b. PICK q \in Player : q = buddies[p][s].id
    BY <1>a, EntryIs
  <1>2. /\ p \in inShard /\ q # None /\ Buddyships' = removeBuddyship(p, q) /\ Blocks' = removeBlock(p, q)
        /\ IF block THEN buddies' = list /\ told' = [told EXCEPT ![p] = @ \ {q}]
           ELSE /\ buddies' = OtherForgets(list, p, q)
                /\ told' = [told EXCEPT ![p] = @ \ {q}, ![q] = Untold(p, q)]
        /\ RowsChange({p, q}) /\ quarrelsome' = IF block THEN quarrelsome \cup {p, q} ELSE quarrelsome
        /\ UNCHANGED <<inShard, synced, handedOver, asked>>
    BY <1>a, <1>b DEF reqBuddyDelete
  <1>3. buddies[p] \in List /\ q \in Player /\ q # p /\ handedOver[p] = None
    BY <1>a, <1>b, EntryIs
  <1>4. GivenUp(buddies[p], emptied, q) /\ emptied \in List
    BY <1>a, <1>b, <1>3, EmptiedIs DEF GivenUp
  <1>5. list \in [Player -> List] /\ list[p] = emptied /\ \A r \in Player \ {p} : list[r] = buddies[r]
    BY <1>1, <1>4 DEF BuddyTypes
  <1> HIDE DEF emptied, list, block
  <1>6. /\ Buddyships' \in Seq(Pairs) /\ Single(Buddyships')
        /\ Others(p)' = Others(p) \ {q} /\ Others(q)' = Others(q) \ {p}
        /\ \A r \in Player \ {p, q} : Others(r)' = Others(r)
    BY <1>1, <1>2, <1>3, RowGoes
  <1>7. /\ stale' \subseteq Player /\ \A r \in Player : Calm(r)' => Calm(r)
        /\ \A r \in {p, q} : handedOver[r] # None => ~Calm(r)'
    BY <1>1, <1>2, <1>3, ChangeMakesStale DEF BuddyTypes
  <1>8. /\ PlayerAgrees(q) /\ list[q] = buddies[q] /\ (Calm(q)' => Calm(q)) /\ (Calm(p)' => Calm(p))
        /\ (handedOver[q] # None => ~Calm(q)')
    BY <1>1, <1>3, <1>5, <1>7
  <1>9. /\ OtherForgets(list, p, q) \in [Player -> List] /\ Untold(p, q) \subseteq Player
        /\ \A r \in Player \ {q} : OtherForgets(list, p, q)[r] = list[r]
        /\ Agrees(q, OtherForgets(list, p, q)[q], Untold(p, q), handedOver[q], Others(q) \ {p},
                  q \in inShard, Calm(q)')
    BY <1>1, <1>3, <1>5, <1>8, OtherLoses
  <1>10. /\ buddies' \in [Player -> List] /\ told' \in [Player -> SUBSET Player]
         /\ buddies'[p] = emptied /\ told'[p] = told[p] \ {q}
         /\ \A r \in Player \ {p, q} : buddies'[r] = buddies[r] /\ told'[r] = told[r]
    <2>1. CASE block
      BY <1>1, <1>2, <1>3, <1>5, <2>1 DEF BuddyTypes
    <2>2. CASE ~block
      <3> DEFINE new == OtherForgets(list, p, q)
                 mine == told[p] \ {q}
                 left == Untold(p, q)
      <3>1. buddies' = new /\ told' = [told EXCEPT ![p] = mine, ![q] = left]
        BY <1>2, <2>2
      <3>2. new \in [Player -> List] /\ left \subseteq Player /\ mine \subseteq Player
            /\ new[p] = emptied /\ \A r \in Player \ {p, q} : new[r] = buddies[r]
        BY <1>1, <1>3, <1>5, <1>9 DEF BuddyTypes
      <3> HIDE DEF new, mine, left
      <3>3. told' \in [Player -> SUBSET Player] /\ told'[p] = mine
            /\ \A r \in Player \ {p, q} : told'[r] = told[r]
        BY <1>1, <1>3, <3>1, <3>2 DEF BuddyTypes
      <3>4. mine = told[p] \ {q}
        BY DEF mine
      <3> QED
        BY <3>1, <3>2, <3>3, <3>4
    <2> QED
      BY <2>1, <2>2
  <1>11. Blocks' \in Seq(Player \X Player) /\ BlocksOK'
    <2>1. Blocks \in Seq(Player \X Player) /\ BlocksAre(Blocks, quarrelsome) /\ quarrelsome \subseteq quarrelsome'
      BY <1>1, <1>2 DEF BuddyTypes, BlocksOK
    <2> DEFINE wanted == (Player \X Player) \ {<<p, q>>}
    <2>2. Only(Blocks, wanted) \in Seq(Player \X Player) /\ BlocksAre(Only(Blocks, wanted), quarrelsome')
      <3> HIDE DEF wanted
      <3> QED
        BY <2>1, BlockRemoved
    <2> QED
      BY <1>2, <2>2 DEF BlocksOK, removeBlock
  <1>12. BuddyTypes'
    BY <1>1, <1>2, <1>3, <1>6, <1>7, <1>10, <1>11 DEF BuddyTypes
  <1>13. PlayerAgrees(p)'
    <2>1. Agrees(p, buddies[p], told[p], handedOver[p], Others(p), TRUE, Calm(p))
      BY <1>1, <1>2 DEF PlayerAgrees
    <2>2. Agrees(p, emptied, told[p] \ {q}, handedOver[p], Others(p) \ {q}, TRUE, Calm(p)')
      BY <1>3, <1>4, <1>8, <2>1, LosesBuddy
    <2>3. handedOver'[p] = handedOver[p] /\ (p \in inShard') = TRUE
      BY <1>2
    <2> QED
      BY <1>6, <1>10, <2>2, <2>3 DEF PlayerAgrees
  <1>14. PlayerAgrees(q)'
    <2>1. handedOver'[q] = handedOver[q] /\ inShard' = inShard
      BY <1>2
    <2>2. CASE block
      <3>1. Agrees(q, buddies[q], told[q], handedOver[q], Others(q), q \in inShard, Calm(q))
        BY <1>8 DEF PlayerAgrees
      <3>2. ~Calm(q)'
        BY <1>2, <2>2 DEF Calm
      <3>3. q \in inShard => Others(q) \ {p} \subseteq Ids(buddies[q]) /\ q \notin Ids(buddies[q])
        BY <3>1 DEF Agrees, Serves
      <3>4. Agrees(q, buddies[q], told[q], handedOver[q], Others(q) \ {p}, q \in inShard, Calm(q)')
        BY <3>1, <3>2, <3>3, IsRoused
      <3>5. buddies'[q] = buddies[q] /\ told'[q] = told[q]
        BY <1>1, <1>2, <1>3, <1>8, <2>2 DEF BuddyTypes
      <3> QED
        BY <1>6, <2>1, <3>4, <3>5 DEF PlayerAgrees
    <2>3. CASE ~block
      <3>1. buddies'[q] = OtherForgets(list, p, q)[q] /\ told'[q] = Untold(p, q)
        BY <1>1, <1>2, <1>3, <2>3 DEF BuddyTypes
      <3> QED
        BY <1>6, <1>9, <2>1, <3>1 DEF PlayerAgrees
    <2> QED
      BY <2>2, <2>3
  <1>15. ASSUME NEW r \in Player \ {p, q} PROVE PlayerAgrees(r)'
    <2>1. handedOver'[r] = handedOver[r] /\ ((r \in inShard)' <=> r \in inShard)
      BY <1>2
    <2> QED
      BY <1>1, <1>6, <1>7, <1>10, <2>1, SameFor
  <1> QED
    BY <1>6, <1>11, <1>12, <1>13, <1>14, <1>15 DEF BuddiesInv

-----------------------------------------------------------------------------
LEMMA BuddiesStart ==
    ASSUME BuddiesInit PROVE BuddiesInv
  <1>1. [s \in Slot |-> Empty] \in List
    BY DEF List, Empty
  <1>2. <<>> \in Seq(Pairs) /\ <<>> \in Seq(Player \X Player) /\ DOMAIN <<>> = {}
    BY EmptySeq
  <1>3. BuddyTypes
    BY <1>1, <1>2 DEF BuddiesInit, BuddyTypes
  <1>4. Single(Buddyships) /\ BlocksOK
    BY <1>2 DEF BuddiesInit, Single, BlocksOK, BlocksAre
  <1>5. ASSUME NEW p \in Player PROVE PlayerAgrees(p)
    <2>1. Others(p) = {} /\ handedOver[p] = None /\ p \notin inShard
      BY <1>2 DEF BuddiesInit, Others, OthersIn
    <2>2. IsFiniteSet({}) /\ Cardinality({}) = 0
      BY FS_EmptySet
    <2> QED
      BY <2>1, <2>2, BuddiesAssumption DEF PlayerAgrees, Agrees
  <1> QED
    BY <1>3, <1>4, <1>5 DEF BuddiesInv

LEMMA BuddiesStep ==
    ASSUME BuddiesInv, BuddiesNext \/ UNCHANGED buddyVars PROVE BuddiesInv'
  <1>1. asked \subseteq Player \X Player
    BY DEF BuddiesInv, BuddyTypes
  <1>2. CASE Befriend
    <2>1. PICK p \in Player, q \in Player :
            requestBuddy(p, q) \/ reqBuddyByName(p, q) \/ reqAcceptBuddy(p, q) \/ Decline(p, q)
      BY <1>2 DEF Befriend
    <2>2. CASE reqAcceptBuddy(p, q)
      BY <2>2, AcceptKeeps
    <2>3. CASE requestBuddy(p, q)
      BY <1>1, <2>3, AskingKeeps DEF requestBuddy
    <2>4. CASE reqBuddyByName(p, q)
      BY <1>1, <2>4, AskingKeeps DEF reqBuddyByName
    <2>5. CASE Decline(p, q)
      BY <1>1, <2>5, AskingKeeps DEF Decline
    <2> QED
      BY <2>1, <2>2, <2>3, <2>4, <2>5
  <1>3. CASE Unfriend
    BY <1>3, BlockKeeps, BlockAnyKeeps, DeleteKeeps DEF Unfriend
  <1>4. CASE Attend
    BY <1>4, SelectKeeps, EnterKeeps, LeaveKeeps, StateKeeps DEF Attend
  <1>5. CASE UNCHANGED buddyVars
    BY <1>1, <1>5, AskingKeeps DEF buddyVars
  <1> QED
    BY <1>2, <1>3, <1>4, <1>5 DEF BuddiesNext

LEMMA BuddiesTyped == BuddiesInv => BuddiesTypeOK
  <1>1. ASSUME BuddiesInv PROVE BuddiesTypeOK
    <2>1. BuddyTypes
      BY <1>1 DEF BuddiesInv
    <2>2. \A p \in Player : told[p] \subseteq Player
      BY <2>1 DEF BuddyTypes
    <2>3. ASSUME NEW i \in DOMAIN Buddyships PROVE Cardinality(Buddyships[i]) = 2
      <3>1. Buddyships[i] \in Pairs
        BY <2>1, ElementOfSeq, LenProperties DEF BuddyTypes
      <3>2. PICK p \in Player, q \in Player : p # q /\ Buddyships[i] = {p, q}
        BY <3>1 DEF Pairs
      <3>3. IsFiniteSet({p}) /\ Cardinality({p}) = 1
        BY FS_Singleton
      <3>4. Cardinality({p} \cup {q}) = 2
        BY <3>2, <3>3, FS_AddElement
      <3>5. {p} \cup {q} = {p, q}
        OBVIOUS
      <3> QED
        BY <3>2, <3>4, <3>5
    <2> QED
      BY <2>1, <2>2, <2>3 DEF BuddyTypes, BuddiesTypeOK, List
  <1> QED
    BY <1>1

\* Lists, tables, requests and what clients show keep their types, whatever is asked,
\* accepted, removed or blocked; a row is about two different players.
THEOREM BuddiesTyping == BuddiesSpec => []BuddiesTypeOK
  BY BuddiesStart, BuddiesStep, BuddiesTyped, PTL DEF BuddiesSpec

\* FriendsAgree: two calm players in the game are buddies in both lists, on both clients
\* and by one row, or nowhere.
LEMMA CalmAgree ==
    ASSUME BuddiesInv PROVE FriendsAgree
  <1>1. BuddyTypes /\ Single(Buddyships) /\ \A p \in Player : PlayerAgrees(p)
    BY DEF BuddiesInv
  <1>2. ASSUME NEW p \in inShard, Calm(p), p \in Player
        PROVE  Ids(buddies[p]) = Others(p) /\ told[p] = Ids(buddies[p]) /\ Exact(buddies[p], Others(p))
    <2>1. Agrees(p, buddies[p], told[p], handedOver[p], Others(p), TRUE, TRUE)
      BY <1>1, <1>2 DEF PlayerAgrees
    <2> QED
      BY <2>1 DEF Agrees, Serves, Exact, Ids
  <1>3. ASSUME NEW p \in inShard \ (stale \cup quarrelsome), NEW q \in inShard \ (stale \cup quarrelsome), p # q
        PROVE  /\ Has(buddies[p], q) <=> Has(buddies[q], p)
               /\ q \in told[p] <=> Has(buddies[p], q)
               /\ Cardinality({i \in DOMAIN Buddyships : Buddyships[i] = {p, q}})
                      = Cardinality({s \in Slot : buddies[p][s].id = q})
    <2>1. p \in Player /\ q \in Player /\ Calm(p) /\ Calm(q)
      BY <1>1 DEF BuddyTypes, Calm
    <2>2. /\ Ids(buddies[p]) = Others(p) /\ told[p] = Ids(buddies[p]) /\ Exact(buddies[p], Others(p))
          /\ Ids(buddies[q]) = Others(q)
      BY <1>2, <2>1
    <2>3. q # None /\ p # None
      BY <2>1, PlayersAssumption
    <2>4. (Has(buddies[p], q) <=> q \in Others(p)) /\ (Has(buddies[q], p) <=> p \in Others(q))
      BY <2>2, <2>3 DEF Has, Ids
    <2>5. q \in Others(p) <=> p \in Others(q)
      <3>1. {q, p} = {p, q}
        OBVIOUS
      <3> QED
        BY <2>1, <3>1 DEF Others, OthersIn
    <2>6. Cardinality({i \in DOMAIN Buddyships : Buddyships[i] = {p, q}})
              = Cardinality({s \in Slot : buddies[p][s].id = q})
      <3> DEFINE R == {i \in DOMAIN Buddyships : Buddyships[i] = {p, q}}
                 S == {s \in Slot : buddies[p][s].id = q}
      <3>1. CASE q \in Others(p)
        <4>1. PICK i \in DOMAIN Buddyships : Buddyships[i] = {p, q}
          BY <3>1 DEF Others, OthersIn
        <4>2. R = {i}
          BY <1>1, <4>1 DEF Single
        <4>3. PICK s \in Slot : buddies[p][s].id = q
          BY <2>4, <3>1 DEF Has
        <4>4. S = {s}
          BY <2>2, <2>3, <4>3 DEF Exact
        <4> QED
          BY <4>2, <4>4, FS_Singleton
      <3>2. CASE q \notin Others(p)
        <4>1. R = {}
          BY <2>1, <3>2 DEF Others, OthersIn
        <4>2. S = {}
          BY <2>4, <3>2 DEF Has
        <4> QED
          BY <4>1, <4>2
      <3> QED
        BY <3>1, <3>2
    <2> QED
      BY <2>2, <2>4, <2>5, <2>6
  <1> QED
    BY <1>3 DEF FriendsAgree

\* Whoever asks, accepts, removes, leaves and comes back, in whatever order: the two
\* lists, the two clients and the table say the same (Buddies.cpp, db/player.cpp).
THEOREM FriendsStayAgreed == BuddiesSpec => []FriendsAgree
  BY BuddiesStart, BuddiesStep, CalmAgree, PTL DEF BuddiesSpec

=============================================================================
