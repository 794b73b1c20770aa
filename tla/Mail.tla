-------------------------------- MODULE Mail --------------------------------
(***************************************************************************)
(* Email.cpp and db/email.cpp: mails with taros and items attached.        *)
(*                                                                         *)
(* The tables EmailData and EmailItems are written at once, each call one  *)
(* transaction under dbCrit; the inventories are in memory.  Rows of       *)
(* EmailItems are found by player and index only: they outlive their mail. *)
(* The client asks for mails it has been listed.  Requests that fail       *)
(* change nothing and are left out, except for a mail that cannot be       *)
(* stored.                                                                 *)
(***************************************************************************)
EXTENDS Inventory, Sequences, SequencesExt

CONSTANTS
    payzone,        \* PCStyle2.iPayzoneFlag, the time period of a player
    EmailSlots,     \* attachments per mail, 4 in the code
    PageSize,       \* mails per page, 5 in the code
    PostageBase, PostageItem,   \* 50 and 20 in the code
    StartInven, StartMoney,
    MaxIndex,       \* bound on MsgIndex
    MaxCash         \* bound on the taros of a request

Index == 1 .. MaxIndex
AttSlot == 1 .. EmailSlots

ASSUME MailAssumption ==
    /\ EmailSlots \in Nat \ {0} /\ PageSize \in Nat \ {0}
    /\ PostageBase \in Nat /\ PostageItem \in Nat
    /\ IsFiniteSet(Player)
    /\ InvenSize \in Nat /\ MaxIndex \in Nat /\ MaxCash \in Nat
    /\ StartMoney \in [Player -> Nat]
    /\ StartInven \in [Player -> [Place -> Stack]]

VARIABLES
    inven,      \* Player::Inven
    money,      \* Player::money, signed
    mails,      \* EmailData: player |-> index |-> mail
    attached    \* EmailItems: player |-> index |-> slot |-> item

mailVars == <<inven, money, mails, attached>>

EmailData == [Taros : Nat, ReadFlag : BOOLEAN, ItemFlag : BOOLEAN]
NoMail == [Taros |-> -1, ReadFlag |-> FALSE, ItemFlag |-> FALSE]
Exists(p) == {i \in Index : mails[p][i] # NoMail}

MailInit ==
    /\ inven = StartInven
    /\ money = StartMoney
    /\ mails = [p \in Player |-> [i \in Index |-> NoMail]]
    /\ attached = [p \in Player |-> [i \in Index |-> [k \in AttSlot |-> NoItem]]]

\* getEmails: newest first, PageSize mails to a page.
Page(p, n) ==
    {i \in Exists(p) : Cardinality({j \in Exists(p) : j > i}) \in (n - 1) * PageSize .. n * PageSize - 1}
Listed(p) == UNION {Page(p, n) : n \in Index}

\* updateEmailContent sets the flag anew.
Updated(p, i, mail) ==
    [mail EXCEPT !.ItemFlag = mail.Taros > 0 \/ \E k \in AttSlot : attached[p][i][k] # NoItem]

EmailRead(p, i) ==
    /\ i \in Listed(p)
    /\ mails' = [mails EXCEPT ![p][i] = Updated(p, i, [@ EXCEPT !.ReadFlag = TRUE])]
    /\ UNCHANGED <<inven, money, attached>>

StillThere(mail) == mail  \* mutant
Emptied(mail) == [mail EXCEPT !.Taros = 0]
EmailReceiveTaros(p, i) ==
    /\ i \in Listed(p)
    /\ money' = [money EXCEPT ![p] = @ + mails[p][i].Taros]
    /\ mails' = [mails EXCEPT ![p][i] = Updated(p, i, Emptied(@))]
    /\ UNCHANGED <<inven, attached>>

-----------------------------------------------------------------------------
(***************************************************************************)
(* Receiving items.                                                        *)
(***************************************************************************)

\* deleteEmailAttachments: with a slot the statement would be "... MsgIndex = ?;
\* AND Slot = ?", of which SQLite compiles what is before the semicolon.
SlotDeleted(p, i, k) == [attached EXCEPT ![p][i] = [j \in AttSlot |-> NoItem]]
AllDeleted(p, i) == [attached EXCEPT ![p][i] = [j \in AttSlot |-> NoItem]]

\* emailReceiveItemSingle: the place must be one of those counted 1 .. 4 from 0.
EmailReceiveItemSingle(p, i, k, s) ==
    /\ i \in Listed(p) /\ s - 1 \in AttSlot
    /\ inven' = [inven EXCEPT ![p][s] = attached[p][i][k]]
    /\ attached' = SlotDeleted(p, i, k)
    /\ UNCHANGED <<money, mails>>

\* Each goes to the first free place; once there is none the rest is lost.
Unpacked(inv, stacks) ==
    FoldLeft(LAMBDA to, stack : IF FreePlaces(to) = {} THEN to ELSE PutFirst(to, stack), inv, stacks)

EmailReceiveItemAll(p, i) ==
    /\ i \in Listed(p)
    /\ inven' = [inven EXCEPT ![p] = Unpacked(@, attached[p][i])]
    /\ attached' = AllDeleted(p, i)
    /\ UNCHANGED <<money, mails>>

\* deleteEmails, for at most five of them; the rows of EmailItems stay.
EmailDelete(p, indices) ==
    /\ indices # {} /\ indices \subseteq Listed(p) /\ Cardinality(indices) <= 5
    /\ mails' = [mails EXCEPT ![p] = [i \in Index |-> IF i \in indices THEN NoMail ELSE @[i]]]
    /\ UNCHANGED <<inven, money, attached>>

-----------------------------------------------------------------------------
(***************************************************************************)
(* Sending.  What to attach is a place and how many of what is there, for  *)
(* each of the attachment slots.                                           *)
(***************************************************************************)

Pick == [slot : Place, n : Nat \ {0}]
NoPick == [slot |-> 0, n |-> 0]
Chosen(picks) == {k \in AttSlot : picks[k] # NoPick}
Slots(picks) == {picks[k].slot : k \in Chosen(picks)}

ValidPicks(p, picks) ==
    /\ \A j, k \in Chosen(picks) : picks[j].slot = picks[k].slot => j = k
    /\ \A k \in Chosen(picks) : picks[k].n <= inven[p][picks[k].slot].opt

\* attachments: without the empty slots.
Attachment(p, pick) == Of(inven[p][pick.slot].item, pick.n)
Attachments(p, picks) ==
    FoldLeft(LAMBDA list, pick : IF pick = NoPick THEN list ELSE Append(list, Attachment(p, pick)),
             <<>>, picks)

NextEmailIndex(p) == IF Exists(p) = {} THEN 1 ELSE Max(Exists(p)) + 1

Postage(n) == PostageBase + PostageItem * n

\* sendEmail's rows: a row of an earlier mail with the same index is in the way.
Clash(to, i, stacks) == \E k \in 1 .. Len(stacks) : attached[to][i][k] # NoItem
Rows(to, i, stacks) == [k \in AttSlot |-> IF k <= Len(stacks) THEN stacks[k] ELSE attached[to][i][k]]

Taken(inv, slots) == [s \in Place |-> IF s \in slots THEN NoItem ELSE inv[s]]
GivenBack(p, inv, picks) ==
    [s \in Place |-> IF s \in Slots(picks)
                     THEN Attachment(p, picks[CHOOSE k \in Chosen(picks) : picks[k].slot = s])
                     ELSE inv[s]]

\* The check has the postage on the wrong side.
AnyCash(p, cash, n) == TRUE  \* mutant
CashFits(p, cash, n) == cash >= 0 /\ cash <= money[p] + Postage(n)

CanSend(p, to, cash, picks) ==
    /\ ValidPicks(p, picks)
    /\ CashFits(p, cash, Cardinality(Chosen(picks)))
    /\ (cash > 0 \/ picks[1] # NoPick) /\ to # None => payzone[p] = payzone[to]
    /\ to # None => NextEmailIndex(to) \in Index

\* Nobody has the id that was sent, or the rows clash: everything is undone but
\* for the rest of a stack that was attached in part.
EmailSendFail(p, to, cash, picks) ==
    /\ CanSend(p, to, cash, picks)
    /\ to # None => Clash(to, NextEmailIndex(to), Attachments(p, picks))
    /\ inven' = [inven EXCEPT ![p] = GivenBack(p, @, picks)]
    /\ UNCHANGED <<money, mails, attached>>

EmailSend(p, to, cash, picks) ==
    /\ CanSend(p, to, cash, picks) /\ to # None
    /\ LET stacks == Attachments(p, picks)
           i == NextEmailIndex(to)
       IN  /\ ~Clash(to, i, stacks)
           /\ money' = [money EXCEPT ![p] = @ - cash - Postage(Len(stacks))]
           /\ inven' = [inven EXCEPT ![p] = Taken(@, Slots(picks))]
           /\ mails' = [mails EXCEPT ![to][i] =
                   [Taros |-> cash, ReadFlag |-> FALSE, ItemFlag |-> cash > 0 \/ stacks # <<>>]]
           /\ attached' = [attached EXCEPT ![to][i] = Rows(to, i, stacks)]

Requests == [AttSlot -> [slot : Place, n : 1 .. 2] \cup {NoPick}]

MailNext ==
    \E p \in Player :
        \/ \E to \in Player \cup {None}, cash \in 0 .. MaxCash, picks \in Requests :
            EmailSend(p, to, cash, picks) \/ EmailSendFail(p, to, cash, picks)
        \/ \E i \in Index :
            \/ EmailRead(p, i) \/ EmailReceiveTaros(p, i) \/ EmailReceiveItemAll(p, i)
            \/ \E k \in AttSlot, s \in Place : EmailReceiveItemSingle(p, i, k, s)
        \/ \E indices \in SUBSET Index : EmailDelete(p, indices)

MailSpec == MailInit /\ [][MailNext]_mailVars

-----------------------------------------------------------------------------

\* The types of the variables.
MailTypeOK ==
    /\ inven \in [Player -> [Place -> Stack]]
    /\ money \in [Player -> Int]
    /\ mails \in [Player -> [Index -> EmailData \cup {NoMail}]]
    /\ attached \in [Player -> [Index -> [AttSlot -> Stack]]]

\* The taros that players have and that are enclosed in their mails.
Cash(mail) == IF mail = NoMail THEN 0 ELSE mail.Taros
Enclosed(box) == SumFunction([i \in Index |-> Cash(box[i])])
TarosOf(purses, boxes) == SumFunction([p \in Player |-> purses[p] + Enclosed(boxes[p])])
AllTaros == TarosOf(money, mails)

\* How many of an item players have and are in the rows of EmailItems.
InMail(row, item) == SumFunction([k \in AttSlot |-> Count(row[k], item)])
Sent(rows, item) == SumFunction([i \in Index |-> InMail(rows[i], item)])
ItemsOf(bags, tables, item) == SumFunction([p \in Player |-> Held(bags[p], item) + Sent(tables[p], item)])
AllOf(item) == ItemsOf(inven, attached, item)

NothingMade ==
    /\ money' = money \/ AllTaros' <= AllTaros
    /\ \/ inven' = inven /\ attached' = attached
       \/ \A item \in Item : AllOf(item)' <= AllOf(item)

\* However mails are sent, returned for a clash of their rows, received whole or in
\* parts, deleted and their indices used again: neither taros nor items come into
\* being (Email.cpp:89, 115, 177, 281; db/email.cpp:198).
MailMakesNothing == [][NothingMade]_mailVars

\* Postage may take a player below zero, since the check adds it to what the player
\* has (Email.cpp:243), but never by more than twice the largest postage.
DebtBounded == \A p \in Player : money[p] >= -2 * Postage(EmailSlots)
=============================================================================
