----------------------------- MODULE Belongings -----------------------------
(***************************************************************************)
(* Items.cpp and Vendor.cpp: what one player wears, carries and keeps in   *)
(* its banks, and the ways to buy, sell, combine, use and unpack it.       *)
(*                                                                         *)
(* The three arrays Equip, Inven and Bank are one function over positions. *)
(* A time limit is part of the kind: a vehicle that expires turns into     *)
(* another kind (Expired).  An item that went through the croc pot keeps   *)
(* the id of its looks in the upper half of iOpt.                          *)
(***************************************************************************)
EXTENDS Inventory, Sequences, SequencesExt

CONSTANTS
    EquipSlot,     \* the equipment slots in use, of 0 .. AEQUIP_COUNT - 1
    StatSlot,      \* those setItemStats looks at, 0 .. 3 in the code
    Bank,          \* the banks, 0 .. 4 in the code
    BankSize,      \* places per bank, 200 in the code
    ItemData,      \* Items::ItemData: id, type, prices, stack size, ...
    Expired,       \* a kind of vehicle |-> the same one after its time limit
    Content,       \* a kind of crate |-> what it may hold
    Card,          \* the kinds that open a bank |-> that bank
    Gumball,       \* the kinds of gumballs |-> the style of nano they are for
    NanoStyle,     \* nano slot |-> the style of the nano in it
    Listing,       \* what vendors sell
    Recipe,        \* <<stats, looks>>: what the croc pot combines
    BuybackSize,   \* 5 in the code
    BatteryCap,    \* 9999 in the code
    BatteryUnit,   \* 100 in the code
    PotCost,       \* what a try at the croc pot costs
    Drop,          \* taros of a mob's drop
    StartItems,    \* what a player may come with
    StartTaros, StartBattery,
    MaxTaros, MaxDebt,  \* bounds on taros
    MaxStacks           \* bound: with so many stacks nobody buys or is given more

Vehicle == 10   \* iType of a vehicle
VehicleSlot == 8
WeaponSlot == {0, 7}
GeneralType == 7   \* gumballs and bank cards, among others
CrateType == 9
Half == 65536   \* 1 << 16

AllBankPlaces == 1 .. Cardinality(Bank) * BankSize
Position == ({"EQUIP"} \X EquipSlot) \cup ({"INVENTORY"} \X Place) \cup ({"BANK"} \X AllBankPlaces)
Worn == <<"EQUIP", VehicleSlot>>
Carried(s) == <<"INVENTORY", s>>

\* What the tables say of a kind.  Those of one id differ in their time limit only.
ItemType ==
    [id : Nat, type : Nat, buyPrice : Nat, sellPrice : Nat, stackSize : 0 .. Half - 1, sellable : BOOLEAN]

ASSUME BelongingsAssumption ==
    /\ None \notin Item
    /\ IsFiniteSet(EquipSlot) /\ IsFiniteSet(Bank)
    /\ StatSlot \subseteq EquipSlot /\ VehicleSlot \in EquipSlot \ StatSlot
    /\ InvenSize \in Nat \ {0} /\ BankSize \in Nat \ {0} /\ BuybackSize \in Nat
    /\ BatteryCap \in Nat /\ BatteryUnit \in Nat /\ PotCost \in Nat /\ Drop \in Nat
    /\ ItemData \in [Item -> ItemType]
    /\ \A k \in Item : ItemData[k].sellPrice <= ItemData[k].buyPrice
    /\ \A k \in DOMAIN Expired : k \in Item /\ Expired[k] \in Item /\ ItemData[Expired[k]] = ItemData[k]
    /\ \A k \in DOMAIN Expired : ItemData[k].type = Vehicle
    /\ DOMAIN Content \subseteq Item /\ DOMAIN Card \subseteq Item /\ DOMAIN Gumball \subseteq Item
    /\ Recipe \subseteq Item \X Item
    /\ \A k \in DOMAIN Card \cup DOMAIN Gumball : ItemData[k].type = GeneralType
    /\ 0 \in Bank /\ \A k \in DOMAIN Card : Card[k] \in Bank
    /\ StartItems \subseteq [Position -> Stack]
    /\ \A its \in StartItems, pos \in Position :
         its[pos].item # None => its[pos].opt <= Max({1, ItemData[its[pos].item].stackSize})
    /\ MaxTaros \in Nat /\ MaxDebt \in Nat /\ StartTaros \in 0 .. MaxTaros
    /\ StartBattery \in 0 .. BatteryCap

VARIABLES
    items,          \* Equip, Inven and Bank
    taros,          \* money, signed
    batteryW, batteryN,
    BankOwnership,  \* the banks the player may open, bank 0 always
    activeBank,
    buyback,        \* what was sold, oldest first
    riding,         \* iPCState & 8
    stimpak,        \* the nano slots with a gumball at work (CSB_BIT_STIMPAKSLOT1 << slot)
    statsOf         \* ids of the equipment that pointDamage, defense ... were computed from

battery == <<batteryW, batteryN>>
banks == <<BankOwnership, activeBank>>
worn == <<riding, statsOf>>
goodsVars == <<items, taros, battery, banks, buyback, worn, stimpak>>

Inven == [s \in Place |-> items[Carried(s)]]
Data(stack) == ItemData[stack.item]
Stackable(k) == ItemData[k].stackSize > 1
OutOfTime == {Expired[k] : k \in DOMAIN Expired}

\* setItemStats; an item that is not there adds nothing.
Computed(its) ==
    [i \in StatSlot |-> IF its[<<"EQUIP", i>>].item = None THEN 0
                        ELSE ItemData[its[<<"EQUIP", i>>].item].id]

\* The stats of a player that has just been given these items.
Restated(its) == Computed(its)

GoodsInit ==
    /\ items \in StartItems
    /\ taros = StartTaros
    /\ batteryW = StartBattery /\ batteryN = BatteryCap
    /\ BankOwnership = {0} /\ activeBank = 0
    /\ buyback = <<>>
    /\ riding = FALSE /\ stimpak = {}
    /\ statsOf = Computed(items)

MayHaveMore == Cardinality({pos \in Position : items[pos] # NoItem}) < MaxStacks

\* What is in the first free place of the inventory from now on.
Receive(stack) == items' = [items EXCEPT ![Carried(Min(FreePlaces(Inven)))] = stack]

-----------------------------------------------------------------------------
(***************************************************************************)
(* Moving.                                                                 *)
(***************************************************************************)

\* Where a request can point to: the bank that is open, of all banks.
Reachable ==
    {pos \in Position : pos[1] = "BANK" => (pos[2] - 1) \div BankSize = activeBank}

\* "validate that it's of the correct type for the slot"
CanEquip(stack, slot) ==
    LET type == IF stack.item = None THEN 0 ELSE Data(stack).type
    IN  IF type = Vehicle THEN slot = VehicleSlot
        ELSE (type = 0 /\ slot \in WeaponSlot) \/ type = slot

Together(a, b) ==
    a.item # None /\ a.item = b.item /\ Stackable(a.item)
    /\ a.opt < Data(a).stackSize /\ b.opt < Data(a).stackSize

\* The two stacks after "from" has been put on "to".
StackedOver(from, to) == <<NoItem, Of(to.item, from.opt + to.opt)>>  \* mutant
Stacked(from, to) ==
    LET size == Data(to).stackSize
        all == from.opt + to.opt
    IN  IF all > size THEN <<Of(from.item, all - size), Of(to.item, size)>>
        ELSE <<NoItem, Of(to.item, all)>>

\* Who has no vehicle any more dismounts.
StillRiding(its) == riding /\ its[Worn].item # None

\* The client does not send a move in place.
ItemMove(from, to) ==
    /\ from \in Reachable /\ to \in Reachable /\ from # to
    /\ to[1] = "EQUIP" => CanEquip(items[from], to[2])
    /\ items' = IF Together(items[from], items[to])
                THEN LET two == Stacked(items[from], items[to])
                     IN  [items EXCEPT ![from] = two[1], ![to] = two[2]]
                ELSE [items EXCEPT ![from] = items[to], ![to] = items[from]]
    /\ IF "EQUIP" \in {from[1], to[1]}
       THEN /\ riding' = StillRiding(items')
            /\ statsOf' = Restated(items')
       ELSE UNCHANGED worn
    /\ UNCHANGED <<taros, battery, banks, buyback, stimpak>>

DeleteItem(s) ==
    /\ items[Carried(s)] # NoItem
    /\ items' = [items EXCEPT ![Carried(s)] = NoItem]
    /\ UNCHANGED <<taros, battery, banks, buyback, worn, stimpak>>

-----------------------------------------------------------------------------
(***************************************************************************)
(* Using and opening.                                                      *)
(***************************************************************************)

OneLess(stack) == IF stack.opt = 1 THEN NoItem ELSE [stack EXCEPT !.opt = @ - 1]

\* itemUseHandler on a bank card: it is used up even if the bank was open already.
UseCard(s) ==
    LET used == items[Carried(s)]
    IN  /\ used.item \in DOMAIN Card /\ used.opt > 0
        /\ BankOwnership' = BankOwnership \cup {Card[used.item]}
        /\ items' = [items EXCEPT ![Carried(s)] = OneLess(used)]
        /\ UNCHANGED <<taros, battery, activeBank, buyback, worn, stimpak>>

\* itemUseHandler on a gumball, for the nano in that slot.
UseGumball(s, slot) ==
    LET chewed == items[Carried(s)]
    IN  /\ chewed.item \in DOMAIN Gumball /\ chewed.opt > 0
        /\ Gumball[chewed.item] = NanoStyle[slot]
        /\ stimpak' = stimpak \cup {slot}
        /\ items' = [items EXCEPT ![Carried(s)] = OneLess(chewed)]
        /\ UNCHANGED <<taros, battery, banks, buyback, worn>>

\* eggStep takes the bit away when its time has come.
GumballEnds(slot) ==
    /\ slot \in stimpak /\ stimpak' = stimpak \ {slot}
    /\ UNCHANGED <<items, taros, battery, banks, buyback, worn>>

\* itemBankOpenHandler: a bank that is refused leaves the last one open.
OpenBank(b) ==
    /\ b \in BankOwnership
    /\ activeBank' = b
    /\ UNCHANGED <<items, taros, battery, BankOwnership, buyback, worn, stimpak>>

\* chestOpenHandler: the crate's place takes what was in it.
OpenChest(s, inside) ==
    /\ items[Carried(s)].item \in DOMAIN Content
    /\ inside \in Content[items[Carried(s)].item]
    /\ items' = [items EXCEPT ![Carried(s)] = Of(inside, 1)]
    /\ UNCHANGED <<taros, battery, banks, buyback, worn, stimpak>>

\* giveMobDrop: taros, boosts, and with luck and if there is room a crate; then
\* giveEventDrop with another one.
Uncapped(n) == n  \* mutant
Capped(n) == Min({n, BatteryCap})
WithCrate(its, crate) ==
    LET free == {s \in Place : its[Carried(s)].item = None}
    IN  IF crate = None \/ free = {} THEN its ELSE [its EXCEPT ![Carried(Min(free))] = Of(crate, 1)]
MobDrop(w, n, crate, event) ==
    /\ taros + Drop <= MaxTaros
    /\ {crate, event} # {None} => MayHaveMore
    /\ taros' = taros + Drop
    /\ batteryW' = Capped(batteryW + w) /\ batteryN' = Capped(batteryN + n)
    /\ items' = WithCrate(WithCrate(items, crate), event)
    /\ UNCHANGED <<banks, buyback, worn, stimpak>>

\* enterPlayerVehicle and exitPlayerVehicle; a client that rides does not ask again.
VehicleOn ==
    /\ ~riding
    /\ IF items[Worn].item \in OutOfTime
       THEN items' = [items EXCEPT ![Worn] = NoItem] /\ UNCHANGED riding
       ELSE riding' = (items[Worn].item # None) /\ UNCHANGED items
    /\ UNCHANGED <<taros, battery, banks, buyback, statsOf, stimpak>>

VehicleOff ==
    /\ riding /\ riding' = FALSE
    /\ UNCHANGED <<items, taros, battery, banks, buyback, statsOf, stimpak>>

-----------------------------------------------------------------------------
(***************************************************************************)
(* Vendors.                                                                *)
(***************************************************************************)

\* How many of an item its price is asked for.
OneUnit(stack) == 1  \* mutant
Units(stack) == IF Stackable(stack.item) THEN stack.opt ELSE 1

CanPay(cost) == cost <= taros /\ FreePlaces(Inven) # {}

\* vendorBuy: "crates don't have a stack size in TableData".
VendorBuyItem(item, n) ==
    /\ item \in Listing /\ MayHaveMore
    /\ n = 1 \/ n <= ItemData[item].stackSize
    /\ LET cost == ItemData[item].buyPrice * Units(Of(item, n))
       IN  CanPay(cost) /\ taros' = taros - cost
    /\ Receive(Of(item, n))
    /\ UNCHANGED <<battery, banks, buyback, worn, stimpak>>

\* "forget oldest member if there's more than 5"
Remembered(stack) ==
    LET longer == Append(buyback, stack)
    IN  IF Len(longer) > BuybackSize THEN Tail(longer) ELSE longer

\* vendorSell: no croc-potted items.
VendorSell(s, n) ==
    LET stack == items[Carried(s)]
    IN  /\ stack.item # None /\ n <= stack.opt /\ stack.opt < Half
        /\ Data(stack).sellable
        /\ taros + Data(stack).sellPrice * n <= MaxTaros
        /\ taros' = taros + Data(stack).sellPrice * n
        /\ items' = [items EXCEPT ![Carried(s)] =
                        IF stack.opt > n THEN [stack EXCEPT !.opt = @ - n] ELSE NoItem]
        /\ buyback' = Remembered([stack EXCEPT !.opt = n])
        /\ UNCHANGED <<battery, banks, worn, stimpak>>

\* "remove the *first* identical item from the buyback list"; it is gone from
\* the list also if it cannot be paid or carried.
Without(i) == RemoveFirst(buyback, buyback[i])
VendorBuyback(i) ==
    LET stack == buyback[i]
        cost == Data(stack).sellPrice * Units(stack)
    IN  /\ buyback' = Without(i)
        /\ IF CanPay(cost) THEN taros' = taros - cost /\ Receive(stack) ELSE UNCHANGED <<taros, items>>
        /\ UNCHANGED <<battery, banks, worn, stimpak>>

\* vendorBuyBattery: n packs of either kind; what exceeds the cap is not paid.
BuyBattery(n, weapon) ==
    /\ taros >= n * BatteryUnit
    /\ (IF weapon THEN batteryW ELSE batteryN) < BatteryCap
    /\ batteryW' = IF weapon THEN Capped(batteryW + n * BatteryUnit) ELSE batteryW
    /\ batteryN' = IF weapon THEN batteryN ELSE Capped(batteryN + n * BatteryUnit)
    /\ taros' = taros - (batteryW' + batteryN' - batteryW - batteryN)
    /\ UNCHANGED <<items, banks, buyback, worn, stimpak>>

\* vendorCombineItems: the looks of one item with the stats of another.  The price
\* is taken in any case, and nothing asks whether there is as much.
LooksOf(stack) == IF stack.opt \div Half > 0 THEN stack.opt \div Half ELSE Data(stack).id
Combine(stats, looks, success) ==
    LET a == items[Carried(stats)]
        b == items[Carried(looks)]
    IN  /\ stats # looks
        /\ <<a.item, b.item>> \in Recipe /\ Data(a).type = Data(b).type
        /\ taros - PotCost >= -MaxDebt
        /\ taros' = taros - PotCost
        /\ items' = IF success
                    THEN [items EXCEPT ![Carried(looks)] = Of(a.item, LooksOf(b) * Half),
                                       ![Carried(stats)] = NoItem]
                    ELSE items
        /\ UNCHANGED <<battery, banks, buyback, worn, stimpak>>

-----------------------------------------------------------------------------
(***************************************************************************)
(* Time, and leaving and coming back.                                      *)
(***************************************************************************)

\* A time limit runs out.
Expire(pos) ==
    /\ items[pos].item \in DOMAIN Expired
    /\ items' = [items EXCEPT ![pos].item = Expired[@]]
    /\ UNCHANGED <<taros, battery, banks, buyback, worn, stimpak>>

\* removeExpiredVehicles when the player is loaded, and checkItemExpire when it
\* enters, for the one that is left for the client to see go.
Swept(its) ==
    [pos \in Position |-> IF its[pos].item \in OutOfTime /\ (pos[1] = "EQUIP" => pos = Worn)
                          THEN NoItem ELSE its[pos]]

\* The player leaves and is loaded again: enterPlayer, addPlayer.
Relog ==
    /\ items' = Swept(items)
    /\ statsOf' = Restated(items')
    /\ buyback' = <<>> /\ activeBank' = 0 /\ riding' = FALSE /\ stimpak' = {}
    /\ UNCHANGED <<taros, battery, BankOwnership>>

GoodsNext ==
    \/ \E from, to \in Position : ItemMove(from, to)
    \/ \E s \in Place : DeleteItem(s) \/ UseCard(s)
    \/ \E b \in Bank : OpenBank(b)
    \/ \E s \in Place, inside \in Item : OpenChest(s, inside)
    \/ \E w, n \in {0, BatteryUnit}, crate, event \in DOMAIN Content \cup {None} :
        MobDrop(w, n, crate, event)
    \/ \E s \in Place, slot \in DOMAIN NanoStyle : UseGumball(s, slot)
    \/ \E slot \in DOMAIN NanoStyle : GumballEnds(slot)
    \/ VehicleOn \/ VehicleOff
    \/ \E item \in Item, n \in 1 .. 2 : VendorBuyItem(item, n)
    \/ \E s \in Place : \E n \in {1, items[Carried(s)].opt} : VendorSell(s, n)
    \/ \E i \in DOMAIN buyback : VendorBuyback(i)
    \/ \E weapon \in BOOLEAN : BuyBattery(1, weapon)
    \/ \E s, t \in Place, success \in BOOLEAN : Combine(s, t, success)
    \/ \E pos \in Position : Expire(pos)
    \/ Relog

GoodsSpec == GoodsInit /\ [][GoodsNext]_goodsVars

-----------------------------------------------------------------------------

\* The types of the variables; taros may be negative.
GoodsTypeOK ==
    /\ items \in [Position -> Stack]
    /\ taros \in -MaxDebt .. MaxTaros
    /\ batteryW \in 0 .. BatteryCap /\ batteryN \in 0 .. BatteryCap
    /\ BankOwnership \subseteq Bank /\ activeBank \in BankOwnership
    /\ buyback \in Seq(Stack) /\ Len(buyback) <= BuybackSize
    /\ riding \in BOOLEAN
    /\ stimpak \subseteq DOMAIN NanoStyle
    /\ statsOf \in [StatSlot -> Nat]

\* What a stack is worth at the price vendors pay, and all that the player owns.
Worth(stack) == IF stack.item = None THEN 0 ELSE Data(stack).sellPrice * Units(stack)
Estate(its) == SumFunction([pos \in Position |-> Worth(its[pos])])
Wealth == taros + Estate(items)

\* A drop: its taros, and crates where there was nothing.
Looted ==
    /\ taros' = taros + Drop /\ buyback' = buyback
    /\ \A pos \in Position :
         \/ items'[pos] = items[pos]
         \/ items[pos].item = None /\ \E crate \in DOMAIN Content : items'[pos] = Of(crate, 1)

\* A crate, and one of the things it may hold in its place.
Uncrated ==
    /\ taros' = taros /\ buyback' = buyback
    /\ \E s \in Place :
         /\ items[Carried(s)].item \in DOMAIN Content
         /\ \E inside \in Content[items[Carried(s)].item] : items'[Carried(s)] = Of(inside, 1)
         /\ \A pos \in Position \ {Carried(s)} : items'[pos] = items[pos]

NothingForFree ==
    \/ items' = items /\ taros' <= taros
    \/ Looted
    \/ Uncrated
    \/ Wealth' <= Wealth

\* Nobody gets richer by moving things about, selling them and buying them back,
\* whole or in parts: only drops and crates make a player wealthier, and those only by
\* what they give.  (The stacks of itemMoveHandler, the prices and the list of
\* vendorSell and vendorBuyback.)
NoFreeWealth == [][NothingForFree]_goodsVars

\* No stack is larger than its kind allows, but for what the croc pot marks.
StacksFit ==
    \A pos \in Position : items[pos].item # None /\ items[pos].opt < Half =>
        items[pos].opt <= Max({1, Data(items[pos]).stackSize})

\* A player fights with the equipment it wears: "set equipment stats serverside"
\* (Items.cpp:300), however things are swapped, worn out or lost.
StatsCurrent == statsOf = Computed(items)

\* Who rides has something in the vehicle slot to ride on (Items.cpp:294).
RidesSomething == riding => items[Worn].item # None

\* What belongs together stays together through every way to move, use up, wear and
\* lose things: counts and kinds, equipment and stats, the vehicle and its rider.
GoodsConsistent == StacksFit /\ StatsCurrent /\ RidesSomething
=============================================================================
