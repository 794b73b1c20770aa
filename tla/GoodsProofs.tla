----------------------------- MODULE GoodsProofs -----------------------------
(***************************************************************************)
(* What a player owns, its mail and its missions: the type invariants, and *)
(* what Goods checks on a small instance, for any items, recipes, prices,  *)
(* mails, tasks and rewards.  That nothing is earned for free and that     *)
(* mail makes nothing are about sums over all that is owned.  The three    *)
(* components share no variable, and each has its own part below; the last *)
(* part is about their composition with the buddies and the characters.    *)
(***************************************************************************)
EXTENDS MCGoods, CharactersProofs

-----------------------------------------------------------------------------
(***************************************************************************)
(* Belongings: what a player owns keeps its type, its stats are those of   *)
(* what it wears, it rides on something, and stacks stay within the size   *)
(* of their kind.                                                          *)
(***************************************************************************)

\* vendorSell remembers items, never an empty place.
SoldSomething == \A i \in 1 .. Len(buyback) : buyback[i].item # None

GoodsInv == GoodsTypeOK /\ 0 \in BankOwnership /\ SoldSomething /\ StatsCurrent /\ RidesSomething

\* A stack that StacksFit allows, and of those that are used up one by one the croc
\* pot has marked none; one that was sold comes back as it was.
FitsIn(stack) ==
    stack.item # None /\ (stack.opt < Half \/ Data(stack).type = GeneralType)
        => stack.opt <= Max({1, Data(stack).stackSize})
AllFit == \A pos \in Position : FitsIn(items[pos])
SoldFits == \A i \in 1 .. Len(buyback) : FitsIn(buyback[i]) /\ buyback[i].opt < Half
StacksInv == AllFit /\ SoldFits

\* Nobody puts a gumball or a bank card into the croc pot.  The client offers it
\* equipment only; the server asks for the same type and a known level gap
\* (Vendor.cpp:321, 329).
PotTakesEquipment == \A pair \in Recipe : ItemData[pair[1]].type # GeneralType

-----------------------------------------------------------------------------
(***************************************************************************)
(* Positions and stacks.                                                   *)
(***************************************************************************)
LEMMA HalfType == Half \in Nat /\ Half > 1
  BY SMT DEF Half

LEMMA Positions ==
    /\ Worn \in Position
    /\ \A s \in Place : Carried(s) \in Position /\ Carried(s) # Worn /\ Carried(s)[1] = "INVENTORY"
    /\ \A i \in StatSlot : <<"EQUIP", i>> \in Position /\ <<"EQUIP", i>> # Worn
    /\ \A s \in Place, i \in StatSlot : Carried(s) # <<"EQUIP", i>>
  <1>1. Worn \in Position
    BY BelongingsAssumption DEF Position, Worn
  <1>2. ASSUME NEW s \in Place
        PROVE  Carried(s) \in Position /\ Carried(s) # Worn /\ Carried(s)[1] = "INVENTORY"
    BY DEF Position, Worn, Carried
  <1>3. ASSUME NEW i \in StatSlot PROVE <<"EQUIP", i>> \in Position /\ <<"EQUIP", i>> # Worn
    BY BelongingsAssumption DEF Position, Worn
  <1>4. ASSUME NEW s \in Place, NEW i \in StatSlot PROVE Carried(s) # <<"EQUIP", i>>
    BY DEF Carried
  <1> QED
    BY <1>1, <1>2, <1>3, <1>4

LEMMA KindTypes ==
    ASSUME NEW k \in Item
    PROVE  /\ k # None /\ ItemData[k] \in ItemType
           /\ ItemData[k].id \in Nat /\ ItemData[k].type \in Nat
           /\ ItemData[k].buyPrice \in Nat /\ ItemData[k].sellPrice \in Nat
           /\ ItemData[k].stackSize \in 0 .. Half - 1
  BY BelongingsAssumption DEF ItemType

\* The size of a kind.
LEMMA SizeOfKind ==
    ASSUME NEW k \in Item
    PROVE  /\ Max({1, ItemData[k].stackSize}) \in 1 .. Half - 1
           /\ ItemData[k].stackSize <= Max({1, ItemData[k].stackSize})
  <1>1. ItemData[k].stackSize \in 0 .. Half - 1 /\ Half \in Nat /\ Half > 1
    BY KindTypes, HalfType
  <1>2. 1 \in Int /\ ItemData[k].stackSize \in Int
    BY <1>1
  <1>3. Max({1, ItemData[k].stackSize})
          = IF 1 <= ItemData[k].stackSize THEN ItemData[k].stackSize ELSE 1
    BY <1>2, MaxOfTwo
  <1> QED
    BY <1>1, <1>3

LEMMA StackTypes ==
    /\ NoItem \in Stack /\ NoItem.item = None /\ FitsIn(NoItem)
    /\ \A k \in Item \cup {None}, n \in Nat : Of(k, n) \in Stack /\ Of(k, n).item = k /\ Of(k, n).opt = n
    /\ \A stack \in Stack : stack.item \in Item \cup {None} /\ stack.opt \in Nat
    /\ \A stack \in Stack, n \in Nat :
         LET now == [stack EXCEPT !.opt = n]
         IN  now \in Stack /\ now.item = stack.item /\ now.opt = n
  BY DEF NoItem, Of, Stack, FitsIn

\* One is never too many of a kind.
LEMMA OneFits ==
    ASSUME NEW k \in Item, NEW n \in Nat, n = 1 \/ n <= ItemData[k].stackSize
    PROVE  Of(k, n) \in Stack /\ FitsIn(Of(k, n))
  <1>1. Of(k, n) \in Stack /\ Of(k, n).item = k /\ Of(k, n).opt = n
    BY StackTypes
  <1>2. n <= Max({1, ItemData[k].stackSize})
    BY SizeOfKind, KindTypes, HalfType
  <1> QED
    BY <1>1, <1>2 DEF FitsIn, Data

LEMMA FewerFit ==
    ASSUME NEW stack \in Stack, FitsIn(stack), stack.opt < Half \/ Data(stack).type = GeneralType, NEW n \in Nat, n <= stack.opt
    PROVE  FitsIn([stack EXCEPT !.opt = n])
  <1>1. /\ [stack EXCEPT !.opt = n].item = stack.item /\ [stack EXCEPT !.opt = n].opt = n
        /\ stack.opt \in Nat /\ Half \in Nat
    BY StackTypes, HalfType
  <1>2. CASE stack.item = None
    BY <1>1, <1>2 DEF FitsIn
  <1>3. CASE stack.item # None
    <2>1. stack.item \in Item
      BY <1>3, StackTypes
    <2>2. Max({1, ItemData[stack.item].stackSize}) \in Nat
      BY <2>1, SizeOfKind, HalfType
    <2> QED
      BY <1>1, <1>3, <2>2 DEF FitsIn, Data
  <1> QED
    BY <1>2, <1>3

-----------------------------------------------------------------------------
(***************************************************************************)
(* Changing what is in one place.                                          *)
(***************************************************************************)

\* A player's stats depend on its equipment.
LEMMA SameStats ==
    ASSUME NEW a, NEW b, \A i \in StatSlot : a[<<"EQUIP", i>>] = b[<<"EQUIP", i>>]
    PROVE  Computed(a) = Computed(b)
  BY DEF Computed

LEMMA ComputedType ==
    ASSUME NEW a \in [Position -> Stack]
    PROVE  Computed(a) \in [StatSlot -> Nat]
  <1>1. ASSUME NEW i \in StatSlot, a[<<"EQUIP", i>>].item # None
        PROVE  ItemData[a[<<"EQUIP", i>>].item].id \in Nat
    <2>1. a[<<"EQUIP", i>>] \in Stack
      BY Positions
    <2>2. a[<<"EQUIP", i>>].item \in Item
      BY <1>1, <2>1, StackTypes
    <2> QED
      BY <2>2, KindTypes
  <1> QED
    BY <1>1 DEF Computed

LEMMA BagChange ==
    ASSUME NEW its \in [Position -> Stack], NEW s \in Place, NEW stack \in Stack
    PROVE  LET now == [its EXCEPT ![Carried(s)] = stack]
           IN  /\ now \in [Position -> Stack]
               /\ Computed(now) = Computed(its) /\ now[Worn] = its[Worn]
               /\ (\A pos \in Position : FitsIn(its[pos])) /\ FitsIn(stack)
                     => \A pos \in Position : FitsIn(now[pos])
  <1> DEFINE now == [its EXCEPT ![Carried(s)] = stack]
  <1>1. Carried(s) \in Position
    BY Positions
  <1>2. /\ now \in [Position -> Stack] /\ now[Carried(s)] = stack
        /\ \A pos \in Position : pos # Carried(s) => now[pos] = its[pos]
    BY <1>1
  <1> HIDE DEF now
  <1>3. \A i \in StatSlot : now[<<"EQUIP", i>>] = its[<<"EQUIP", i>>]
    BY <1>2, Positions
  <1>4. Computed(now) = Computed(its)
    BY <1>3, SameStats
  <1>5. now[Worn] = its[Worn]
    BY <1>2, Positions
  <1>6. ASSUME \A pos \in Position : FitsIn(its[pos]), FitsIn(stack), NEW pos \in Position
        PROVE  FitsIn(now[pos])
    BY <1>2, <1>6
  <1>7. /\ now \in [Position -> Stack]
        /\ Computed(now) = Computed(its) /\ now[Worn] = its[Worn]
        /\ (\A pos \in Position : FitsIn(its[pos])) /\ FitsIn(stack)
                     => \A pos \in Position : FitsIn(now[pos])
    BY <1>2, <1>4, <1>5, <1>6
  <1> QED
    BY <1>7 DEF now

\* An inventory place that the code has found to be free.
LEMMA FreePlace ==
    ASSUME NEW S \in SUBSET Place, S # {}
    PROVE  Min(S) \in S
  BY MinIsLeast DEF Place

-----------------------------------------------------------------------------
(***************************************************************************)
(* The parts of the invariant that an action may disturb.                  *)
(***************************************************************************)
PurseOK ==
    /\ taros \in -MaxDebt .. MaxTaros
    /\ batteryW \in 0 .. BatteryCap /\ batteryN \in 0 .. BatteryCap
    /\ BankOwnership \subseteq Bank /\ activeBank \in BankOwnership /\ 0 \in BankOwnership
    /\ stimpak \subseteq DOMAIN NanoStyle
SoldOK ==
    /\ buyback \in Seq(Stack) /\ Len(buyback) <= BuybackSize
    /\ \A i \in 1 .. Len(buyback) : buyback[i].item # None
ThingsOK ==
    items \in [Position -> Stack] /\ riding \in BOOLEAN /\ StatsCurrent /\ RidesSomething

LEMMA GoodsParts == GoodsInv <=> PurseOK /\ SoldOK /\ ThingsOK
  <1>1. items \in [Position -> Stack] /\ StatsCurrent => statsOf \in [StatSlot -> Nat]
    BY ComputedType DEF StatsCurrent
  <1> QED
    BY <1>1 DEF GoodsInv, GoodsTypeOK, SoldSomething, PurseOK, SoldOK, ThingsOK

LEMMA GoodsPartsNext == PurseOK' /\ SoldOK' /\ ThingsOK' => GoodsInv'
  <1>1. items' \in [Position -> Stack] /\ StatsCurrent' => statsOf' \in [StatSlot -> Nat]
    BY ComputedType DEF StatsCurrent
  <1> QED
    BY <1>1 DEF GoodsInv, GoodsTypeOK, SoldSomething, PurseOK, SoldOK, ThingsOK

LEMMA PurseStays ==
    ASSUME PurseOK, UNCHANGED <<taros, battery, banks, stimpak>>
    PROVE  PurseOK'
  BY DEF PurseOK, battery, banks

LEMMA SoldStays ==
    ASSUME UNCHANGED buyback
    PROVE  (SoldOK => SoldOK') /\ (SoldFits => SoldFits')
  BY DEF SoldOK, SoldFits, FitsIn, Data

LEMMA ThingsStay ==
    ASSUME UNCHANGED <<items, worn>>
    PROVE  (ThingsOK => ThingsOK') /\ (AllFit => AllFit')
  BY DEF ThingsOK, AllFit, FitsIn, worn, StatsCurrent, RidesSomething, Computed, Data

LEMMA CarryOnly ==
    ASSUME ThingsOK, NEW s \in Place, NEW stack \in Stack,
           items' = [items EXCEPT ![Carried(s)] = stack], UNCHANGED worn
    PROVE  ThingsOK' /\ (AllFit /\ FitsIn(stack) => AllFit')
  <1>1. items \in [Position -> Stack] /\ StatsCurrent /\ RidesSomething /\ riding \in BOOLEAN
        /\ riding' = riding /\ statsOf' = statsOf
    BY DEF ThingsOK, worn
  <1>2. /\ items' \in [Position -> Stack]
        /\ Computed(items') = Computed(items) /\ items'[Worn] = items[Worn]
        /\ (\A pos \in Position : FitsIn(items[pos])) /\ FitsIn(stack)
                     => \A pos \in Position : FitsIn(items'[pos])
    BY <1>1, BagChange
  <1>3. StatsCurrent' /\ RidesSomething'
    BY <1>1, <1>2 DEF StatsCurrent, RidesSomething
  <1>4. AllFit /\ FitsIn(stack) => AllFit'
    BY <1>2 DEF AllFit, FitsIn, Data
  <1> QED
    BY <1>1, <1>2, <1>3, <1>4 DEF ThingsOK

LEMMA ItemsType ==
    ASSUME ThingsOK, NEW pos \in Position
    PROVE  /\ items[pos] \in Stack /\ items[pos].item \in Item \cup {None} /\ items[pos].opt \in Nat
           /\ AllFit => FitsIn(items[pos])
  BY StackTypes DEF ThingsOK, AllFit, FitsIn

-----------------------------------------------------------------------------
(***************************************************************************)
(* Moving, using and opening.                                              *)
(***************************************************************************)
Kept == GoodsInv' /\ (StacksInv => StacksInv')

LEMMA StackedFits ==
    ASSUME NEW from \in Stack, NEW to \in Stack, Together(from, to)
    PROVE  \A i \in {1, 2} : Stacked(from, to)[i] \in Stack /\ FitsIn(Stacked(from, to)[i])
  <1> DEFINE k == to.item
             size == ItemData[k].stackSize
             all == from.opt + to.opt
  <1>1. /\ k \in Item /\ from.item = k /\ from.opt \in Nat /\ to.opt \in Nat
        /\ from.opt < size /\ to.opt < size
    BY StackTypes DEF Together, Data
  <1>2. size \in Nat
    BY <1>1, KindTypes, HalfType
  <1>3. CASE all > size
    <2>1. Stacked(from, to) = <<Of(k, all - size), Of(k, size)>>
      BY <1>1, <1>3 DEF Stacked, Data
    <2>2. all - size \in Nat /\ all - size <= size /\ size <= size
      BY <1>1, <1>2, <1>3
    <2> HIDE DEF size, all, k
    <2>3. Of(k, all - size) \in Stack /\ FitsIn(Of(k, all - size))
      BY <1>1, <2>2, OneFits DEF size
    <2>4. Of(k, size) \in Stack /\ FitsIn(Of(k, size))
      BY <1>1, <1>2, <2>2, OneFits DEF size
    <2> QED
      BY <2>1, <2>3, <2>4
  <1>4. CASE ~(all > size)
    <2>1. Stacked(from, to) = <<NoItem, Of(k, all)>>
      BY <1>1, <1>4 DEF Stacked, Data
    <2>2. all \in Nat /\ all <= size
      BY <1>1, <1>2, <1>4
    <2> HIDE DEF size, all, k
    <2>3. Of(k, all) \in Stack /\ FitsIn(Of(k, all))
      BY <1>1, <2>2, OneFits DEF size
    <2> QED
      BY <2>1, <2>3, StackTypes
  <1> QED
    BY <1>3, <1>4

LEMMA ItemMoveKeeps ==
    ASSUME GoodsInv, NEW from \in Position, NEW to \in Position, ItemMove(from, to)
    PROVE  Kept
  <1> DEFINE two == Stacked(items[from], items[to])
  <1>1. PurseOK' /\ SoldOK' /\ (SoldFits => SoldFits') /\ ThingsOK
    BY GoodsParts, PurseStays, SoldStays DEF ItemMove
  <1>2. \E a, b \in Stack :
          /\ items' = [items EXCEPT ![from] = a, ![to] = b]
          /\ AllFit => FitsIn(a) /\ FitsIn(b)
    <2>1. CASE Together(items[from], items[to])
      <3>1. two[1] \in Stack /\ two[2] \in Stack /\ FitsIn(two[1]) /\ FitsIn(two[2])
        BY <1>1, <2>1, ItemsType, StackedFits
      <3>2. items' = [items EXCEPT ![from] = two[1], ![to] = two[2]]
        BY <2>1 DEF ItemMove
      <3> QED
        BY <3>1, <3>2
    <2>2. CASE ~Together(items[from], items[to])
      <3>1. items' = [items EXCEPT ![from] = items[to], ![to] = items[from]]
        BY <2>2 DEF ItemMove
      <3> QED
        BY <1>1, <3>1, ItemsType
    <2> QED
      BY <2>1, <2>2
  <1>3. PICK a, b \in Stack :
          /\ items' = [items EXCEPT ![from] = a, ![to] = b]
          /\ AllFit => FitsIn(a) /\ FitsIn(b)
    BY <1>2
  <1>4. /\ items' \in [Position -> Stack]
        /\ \A pos \in Position : items'[pos] = IF pos = to THEN b ELSE IF pos = from THEN a ELSE items[pos]
    BY <1>1, <1>3 DEF ThingsOK
  <1>5. AllFit => AllFit'
    <2>1. ASSUME AllFit, NEW pos \in Position PROVE FitsIn(items'[pos])
      BY <1>3, <1>4, <2>1 DEF AllFit, FitsIn
    <2> QED
      BY <2>1 DEF AllFit, FitsIn, Data
  <1>6. riding' \in BOOLEAN /\ StatsCurrent' /\ RidesSomething'
    <2>1. CASE "EQUIP" \in {from[1], to[1]}
      <3>1. riding' = StillRiding(items') /\ statsOf' = Computed(items')
        BY <2>1 DEF ItemMove, Restated
      <3> QED
        BY <1>1, <3>1 DEF StillRiding, StatsCurrent, RidesSomething, ThingsOK
    <2>2. CASE "EQUIP" \notin {from[1], to[1]}
      <3>0. ASSUME NEW i, <<"EQUIP", i>> \in Position
            PROVE  items'[<<"EQUIP", i>>] = items[<<"EQUIP", i>>]
        <4>1. <<"EQUIP", i>>[1] = "EQUIP"
          OBVIOUS
        <4>2. <<"EQUIP", i>> # from /\ <<"EQUIP", i>> # to
          BY <2>2, <4>1
        <4> QED
          BY <1>4, <3>0, <4>2
      <3>1. \A i \in StatSlot : items'[<<"EQUIP", i>>] = items[<<"EQUIP", i>>]
        BY <3>0, Positions
      <3>2. items'[Worn] = items[Worn]
        BY <3>0, Positions DEF Worn
      <3>3. Computed(items') = Computed(items)
        BY <3>1, SameStats
      <3>4. riding' = riding /\ statsOf' = statsOf
        BY <2>2 DEF ItemMove, worn
      <3> QED
        BY <1>1, <3>2, <3>3, <3>4 DEF StatsCurrent, RidesSomething, ThingsOK
    <2> QED
      BY <2>1, <2>2
  <1> QED
    BY <1>1, <1>4, <1>5, <1>6, GoodsPartsNext DEF Kept, StacksInv, ThingsOK

LEMMA DeleteItemKeeps ==
    ASSUME GoodsInv, NEW s \in Place, DeleteItem(s)
    PROVE  Kept
  <1>1. PurseOK' /\ SoldOK' /\ (SoldFits => SoldFits') /\ ThingsOK
    BY GoodsParts, PurseStays, SoldStays DEF DeleteItem
  <1>2. ThingsOK' /\ (AllFit => AllFit')
    BY <1>1, CarryOnly, StackTypes DEF DeleteItem
  <1> QED
    BY <1>1, <1>2, GoodsPartsNext DEF Kept, StacksInv

LEMMA OneLessFits ==
    ASSUME NEW stack \in Stack, stack.opt > 0
    PROVE  /\ OneLess(stack) \in Stack
           /\ FitsIn(stack) /\ (stack.opt < Half \/ Data(stack).type = GeneralType) => FitsIn(OneLess(stack))
  <1>1. stack.opt \in Nat
    BY StackTypes
  <1>2. CASE stack.opt = 1
    BY <1>2, StackTypes DEF OneLess
  <1>3. CASE stack.opt # 1
    <2>1. stack.opt - 1 \in Nat /\ stack.opt - 1 <= stack.opt
      BY <1>1
    <2>2. OneLess(stack) = [stack EXCEPT !.opt = stack.opt - 1]
      BY <1>3 DEF OneLess
    <2> QED
      BY <2>1, <2>2, StackTypes, FewerFit
  <1> QED
    BY <1>2, <1>3

LEMMA UseCardKeeps ==
    ASSUME GoodsInv, NEW s \in Place, UseCard(s)
    PROVE  Kept
  <1> DEFINE used == items[Carried(s)]
  <1>1. ThingsOK /\ PurseOK /\ Carried(s) \in Position
    BY GoodsParts, Positions
  <1>2. SoldOK' /\ (SoldFits => SoldFits')
    BY GoodsParts, SoldStays DEF UseCard
  <1>3. used \in Stack /\ used.opt > 0 /\ used.item \in DOMAIN Card
    BY <1>1, ItemsType DEF UseCard
  <1>4. Data(used).type = GeneralType /\ Card[used.item] \in Bank
    BY <1>3, BelongingsAssumption DEF Data
  <1>5. OneLess(used) \in Stack /\ (AllFit => FitsIn(OneLess(used)))
    <2>1. AllFit => FitsIn(used)
      BY <1>1 DEF AllFit
    <2> QED
      BY <1>3, <1>4, <2>1, OneLessFits
  <1>6. ThingsOK' /\ (AllFit => AllFit')
    BY <1>1, <1>5, CarryOnly DEF UseCard
  <1>7. PurseOK'
    BY <1>1, <1>4 DEF UseCard, PurseOK, battery
  <1> QED
    BY <1>2, <1>6, <1>7, GoodsPartsNext DEF Kept, StacksInv

LEMMA UseGumballKeeps ==
    ASSUME GoodsInv, NEW s \in Place, NEW slot \in DOMAIN NanoStyle, UseGumball(s, slot)
    PROVE  Kept
  <1> DEFINE chewed == items[Carried(s)]
  <1>1. ThingsOK /\ PurseOK /\ Carried(s) \in Position
    BY GoodsParts, Positions
  <1>2. SoldOK' /\ (SoldFits => SoldFits')
    BY GoodsParts, SoldStays DEF UseGumball
  <1>3. chewed \in Stack /\ chewed.opt > 0 /\ chewed.item \in DOMAIN Gumball
    BY <1>1, ItemsType DEF UseGumball
  <1>4. Data(chewed).type = GeneralType
    BY <1>3, BelongingsAssumption DEF Data
  <1>5. OneLess(chewed) \in Stack /\ (AllFit => FitsIn(OneLess(chewed)))
    <2>1. AllFit => FitsIn(chewed)
      BY <1>1 DEF AllFit
    <2> QED
      BY <1>3, <1>4, <2>1, OneLessFits
  <1>6. ThingsOK' /\ (AllFit => AllFit')
    BY <1>1, <1>5, CarryOnly DEF UseGumball
  <1>7. PurseOK'
    BY <1>1 DEF UseGumball, PurseOK, battery, banks
  <1> QED
    BY <1>2, <1>6, <1>7, GoodsPartsNext DEF Kept, StacksInv

LEMMA GumballEndsKeeps ==
    ASSUME GoodsInv, NEW slot \in DOMAIN NanoStyle, GumballEnds(slot)
    PROVE  Kept
  <1>1. SoldOK' /\ (SoldFits => SoldFits') /\ ThingsOK' /\ (AllFit => AllFit')
    BY GoodsParts, SoldStays, ThingsStay DEF GumballEnds
  <1>2. PurseOK'
    BY GoodsParts DEF GumballEnds, PurseOK, battery, banks
  <1> QED
    BY <1>1, <1>2, GoodsPartsNext DEF Kept, StacksInv

LEMMA OpenBankKeeps ==
    ASSUME GoodsInv, NEW b \in Bank, OpenBank(b)
    PROVE  Kept
  <1>1. SoldOK' /\ (SoldFits => SoldFits') /\ ThingsOK' /\ (AllFit => AllFit')
    BY GoodsParts, SoldStays, ThingsStay DEF OpenBank
  <1>2. PurseOK'
    BY GoodsParts DEF OpenBank, PurseOK, battery
  <1> QED
    BY <1>1, <1>2, GoodsPartsNext DEF Kept, StacksInv

LEMMA OpenChestKeeps ==
    ASSUME GoodsInv, NEW s \in Place, NEW inside \in Item, OpenChest(s, inside)
    PROVE  Kept
  <1>1. PurseOK' /\ SoldOK' /\ (SoldFits => SoldFits') /\ ThingsOK
    BY GoodsParts, PurseStays, SoldStays DEF OpenChest
  <1>2. Of(inside, 1) \in Stack /\ FitsIn(Of(inside, 1))
    BY OneFits
  <1>3. ThingsOK' /\ (AllFit => AllFit')
    BY <1>1, <1>2, CarryOnly DEF OpenChest
  <1> QED
    BY <1>1, <1>3, GoodsPartsNext DEF Kept, StacksInv

LEMMA WithCrateKeeps ==
    ASSUME NEW its \in [Position -> Stack], NEW loot \in DOMAIN Content \cup {None}
    PROVE  /\ WithCrate(its, loot) \in [Position -> Stack]
           /\ Computed(WithCrate(its, loot)) = Computed(its)
           /\ WithCrate(its, loot)[Worn] = its[Worn]
           /\ (\A pos \in Position : FitsIn(its[pos]))
                => \A pos \in Position : FitsIn(WithCrate(its, loot)[pos])
  <1> DEFINE free == {s \in Place : its[Carried(s)].item = None}
             f == Min(free)
  <1>1. CASE loot = None \/ free = {}
    BY <1>1 DEF WithCrate
  <1>2. CASE loot # None /\ free # {}
    <2>1. f \in Place
      BY <1>2, FreePlace
    <2>2. Of(loot, 1) \in Stack /\ FitsIn(Of(loot, 1))
      BY <1>2, OneFits, BelongingsAssumption
    <2>3. WithCrate(its, loot) = [its EXCEPT ![Carried(f)] = Of(loot, 1)]
      BY <1>2 DEF WithCrate
    <2> HIDE DEF f
    <2> QED
      BY <2>1, <2>2, <2>3, BagChange
  <1> QED
    BY <1>1, <1>2

LEMMA CappedType ==
    ASSUME NEW n \in Nat
    PROVE  Capped(n) \in 0 .. BatteryCap /\ Capped(n) <= n /\ (Capped(n) = n \/ Capped(n) = BatteryCap)
  BY MinOfTwo, BelongingsAssumption DEF Capped

LEMMA MobDropKeeps ==
    ASSUME GoodsInv, NEW w \in {0, BatteryUnit}, NEW n \in {0, BatteryUnit},
           NEW loot \in DOMAIN Content \cup {None}, NEW event \in DOMAIN Content \cup {None},
           MobDrop(w, n, loot, event)
    PROVE  Kept
  <1> DEFINE first == WithCrate(items, loot)
  <1>1. ThingsOK /\ PurseOK /\ items \in [Position -> Stack] /\ (AllFit => \A pos \in Position : FitsIn(items[pos]))
    BY GoodsParts DEF ThingsOK, AllFit
  <1>2. SoldOK' /\ (SoldFits => SoldFits')
    BY GoodsParts, SoldStays DEF MobDrop
  <1>3. PurseOK'
    <2>1. batteryW + w \in Nat /\ batteryN + n \in Nat
      BY <1>1, BelongingsAssumption DEF PurseOK
    <2>2. batteryW' \in 0 .. BatteryCap /\ batteryN' \in 0 .. BatteryCap
      BY <2>1, CappedType DEF MobDrop
    <2>3. taros' \in -MaxDebt .. MaxTaros
      BY <1>1, BelongingsAssumption DEF PurseOK, MobDrop
    <2> QED
      BY <1>1, <2>2, <2>3 DEF MobDrop, PurseOK, banks
  <1>4. /\ first \in [Position -> Stack] /\ Computed(first) = Computed(items) /\ first[Worn] = items[Worn]
        /\ AllFit => \A pos \in Position : FitsIn(first[pos])
    BY <1>1, WithCrateKeeps
  <1> HIDE DEF first
  <1>5. /\ items' = WithCrate(first, event) /\ riding' = riding /\ statsOf' = statsOf
    BY DEF MobDrop, first, worn
  <1>6. /\ items' \in [Position -> Stack]
        /\ Computed(items') = Computed(items) /\ items'[Worn] = items[Worn]
        /\ AllFit => \A pos \in Position : FitsIn(items'[pos])
    BY <1>4, <1>5, WithCrateKeeps
  <1>7. ThingsOK'
    BY <1>1, <1>5, <1>6 DEF ThingsOK, StatsCurrent, RidesSomething
  <1>8. AllFit => AllFit'
    BY <1>6 DEF AllFit, FitsIn, Data
  <1> QED
    BY <1>2, <1>3, <1>7, <1>8, GoodsPartsNext DEF Kept, StacksInv

LEMMA VehicleKeeps ==
    ASSUME GoodsInv, VehicleOn \/ VehicleOff
    PROVE  Kept
  <1>1. PurseOK' /\ SoldOK' /\ (SoldFits => SoldFits') /\ ThingsOK
    BY GoodsParts, PurseStays, SoldStays DEF VehicleOn, VehicleOff
  <1>2. CASE UNCHANGED items
    <2>1. ThingsOK'
      BY <1>1, <1>2 DEF VehicleOn, VehicleOff, ThingsOK, StatsCurrent, RidesSomething, Computed
    <2>2. AllFit => AllFit'
      BY <1>2 DEF AllFit, FitsIn, Data
    <2> QED
      BY <1>1, <2>1, <2>2, GoodsPartsNext DEF Kept, StacksInv
  <1>3. CASE ~UNCHANGED items
    <2>1. items' = [items EXCEPT ![Worn] = NoItem] /\ ~riding /\ riding' = riding /\ statsOf' = statsOf
      BY <1>3 DEF VehicleOn, VehicleOff
    <2>2. /\ items' \in [Position -> Stack] /\ items'[Worn] = NoItem
          /\ \A pos \in Position : pos # Worn => items'[pos] = items[pos]
      BY <1>1, <2>1, StackTypes, Positions DEF ThingsOK
    <2>3. Computed(items') = Computed(items)
      BY <2>2, Positions, SameStats
    <2>4. ThingsOK'
      BY <1>1, <2>1, <2>2, <2>3 DEF ThingsOK, StatsCurrent, RidesSomething
    <2>5. AllFit => AllFit'
      <3>1. ASSUME AllFit, NEW pos \in Position PROVE FitsIn(items'[pos])
        BY <2>2, <3>1, StackTypes DEF AllFit
      <3> QED
        BY <3>1 DEF AllFit, FitsIn, Data
    <2> QED
      BY <1>1, <2>4, <2>5, GoodsPartsNext DEF Kept, StacksInv
  <1> QED
    BY <1>2, <1>3

-----------------------------------------------------------------------------
(***************************************************************************)
(* Vendors, and time.                                                      *)
(***************************************************************************)
LEMMA ReceiveKeeps ==
    ASSUME ThingsOK, FreePlaces(Inven) # {}, NEW stack \in Stack, Receive(stack), UNCHANGED worn
    PROVE  ThingsOK' /\ (AllFit /\ FitsIn(stack) => AllFit')
  <1> DEFINE f == Min(FreePlaces(Inven))
  <1>1. FreePlaces(Inven) \in SUBSET Place
    BY DEF FreePlaces
  <1>2. f \in Place
    BY <1>1, FreePlace
  <1>3. items' = [items EXCEPT ![Carried(f)] = stack]
    BY DEF Receive
  <1> HIDE DEF f
  <1> QED
    BY <1>2, <1>3, CarryOnly

\* Units is one or the count.
LEMMA UnitsType ==
    ASSUME NEW stack \in Stack
    PROVE  Units(stack) \in Nat
  BY StackTypes DEF Units

LEMMA ProductType ==
    ASSUME NEW a \in Nat, NEW b \in Nat
    PROVE  a * b \in Nat
  OBVIOUS

LEMMA VendorBuyItemKeeps ==
    ASSUME GoodsInv, NEW item \in Item, NEW n \in 1 .. 2, VendorBuyItem(item, n)
    PROVE  Kept
  <1> DEFINE cost == ItemData[item].buyPrice * Units(Of(item, n))
  <1>1. ThingsOK /\ PurseOK /\ n \in Nat
    BY GoodsParts
  <1>2. SoldOK' /\ (SoldFits => SoldFits')
    BY GoodsParts, SoldStays DEF VendorBuyItem
  <1>3. Of(item, n) \in Stack /\ FitsIn(Of(item, n))
    BY <1>1, OneFits DEF VendorBuyItem
  <1>4. cost \in Nat
    BY <1>3, UnitsType, KindTypes, ProductType
  <1>5. cost <= taros /\ FreePlaces(Inven) # {} /\ taros' = taros - cost
    BY DEF VendorBuyItem, CanPay
  <1>6. ThingsOK' /\ (AllFit => AllFit')
    BY <1>1, <1>3, <1>5, ReceiveKeeps DEF VendorBuyItem
  <1> HIDE DEF cost
  <1>7. taros' \in -MaxDebt .. MaxTaros
    BY <1>1, <1>4, <1>5, BelongingsAssumption DEF PurseOK
  <1>8. PurseOK'
    BY <1>1, <1>7 DEF PurseOK, VendorBuyItem, battery, banks
  <1> QED
    BY <1>2, <1>6, <1>8, GoodsPartsNext DEF Kept, StacksInv

\* What is remembered of what was sold.
LEMMA RememberedOK ==
    ASSUME SoldOK, NEW stack \in Stack, stack.item # None, buyback' = Remembered(stack)
    PROVE  SoldOK' /\ (SoldFits /\ FitsIn(stack) /\ stack.opt < Half => SoldFits')
  <1> DEFINE longer == Append(buyback, stack)
  <1>1. buyback \in Seq(Stack) /\ Len(buyback) \in Nat /\ Len(buyback) <= BuybackSize /\ BuybackSize \in Nat
    BY LenProperties, BelongingsAssumption DEF SoldOK
  <1>2. /\ longer \in Seq(Stack) /\ Len(longer) = Len(buyback) + 1
        /\ \A i \in 1 .. Len(buyback) : longer[i] = buyback[i]
        /\ longer[Len(buyback) + 1] = stack
    BY <1>1, AppendProperties
  <1> HIDE DEF longer
  <1>3. \A i \in 1 .. Len(longer) : longer[i] = stack \/ \E j \in 1 .. Len(buyback) : longer[i] = buyback[j]
    BY <1>1, <1>2
  <1>4. /\ buyback' \in Seq(Stack) /\ Len(buyback') <= BuybackSize
        /\ \A i \in 1 .. Len(buyback') :
             buyback'[i] = stack \/ \E j \in 1 .. Len(buyback) : buyback'[i] = buyback[j]
    <2>1. CASE Len(longer) > BuybackSize
      <3>1. buyback' = Tail(longer) /\ longer # <<>>
        BY <1>1, <1>2, <2>1, EmptySeq DEF Remembered, longer
      <3>2. /\ Tail(longer) \in Seq(Stack) /\ Len(Tail(longer)) = Len(longer) - 1
            /\ \A i \in 1 .. Len(Tail(longer)) : Tail(longer)[i] = longer[i + 1]
        BY <1>2, <3>1, HeadTailProperties
      <3>3. \A i \in 1 .. Len(Tail(longer)) : i + 1 \in 1 .. Len(longer)
        BY <1>1, <1>2, <3>2
      <3>4. Len(Tail(longer)) <= BuybackSize
        BY <1>1, <1>2, <3>2
      <3> QED
        BY <1>3, <3>1, <3>2, <3>3, <3>4
    <2>2. CASE ~(Len(longer) > BuybackSize)
      <3>1. buyback' = longer
        BY <2>2 DEF Remembered, longer
      <3> QED
        BY <1>1, <1>2, <1>3, <2>2, <3>1
    <2> QED
      BY <2>1, <2>2
  <1>5. SoldOK'
    BY <1>4 DEF SoldOK
  <1>6. ASSUME SoldFits, FitsIn(stack), stack.opt < Half, NEW i \in 1 .. Len(buyback')
        PROVE  FitsIn(buyback'[i]) /\ buyback'[i].opt < Half
    BY <1>4, <1>6 DEF SoldFits
  <1> QED
    BY <1>5, <1>6 DEF SoldFits, FitsIn, Data

LEMMA VendorSellKeeps ==
    ASSUME GoodsInv, NEW s \in Place, NEW n \in {1, items[Carried(s)].opt}, VendorSell(s, n)
    PROVE  Kept
  <1> DEFINE stack == items[Carried(s)]
             left == IF stack.opt > n THEN [stack EXCEPT !.opt = @ - n] ELSE NoItem
             sold == [stack EXCEPT !.opt = n]
             price == Data(stack).sellPrice * n
  <1>1. ThingsOK /\ PurseOK /\ SoldOK /\ Carried(s) \in Position
    BY GoodsParts, Positions
  <1>2. stack \in Stack /\ stack.item \in Item /\ stack.opt \in Nat /\ (AllFit => FitsIn(stack))
    BY <1>1, ItemsType DEF VendorSell
  <1>3. n \in Nat /\ n <= stack.opt /\ stack.opt < Half /\ stack.item # None
    BY <1>2 DEF VendorSell
  <1>4. sold \in Stack /\ sold.item = stack.item /\ sold.opt = n /\ (AllFit => FitsIn(sold)) /\ sold.opt < Half
    <2>1. sold \in Stack /\ sold.item = stack.item /\ sold.opt = n
      BY <1>2, <1>3, StackTypes
    <2>2. AllFit => FitsIn(sold)
      BY <1>2, <1>3, FewerFit
    <2>3. n < Half
      BY <1>2, <1>3, HalfType
    <2> QED
      BY <2>1, <2>2, <2>3
  <1>5. left \in Stack /\ (AllFit => FitsIn(left))
    <2>1. CASE stack.opt > n
      <3>1. left = [stack EXCEPT !.opt = stack.opt - n] /\ stack.opt - n \in Nat /\ stack.opt - n <= stack.opt
        BY <1>2, <1>3, <2>1
      <3> QED
        BY <1>2, <1>3, <3>1, StackTypes, FewerFit
    <2>2. CASE ~(stack.opt > n)
      BY <2>2, StackTypes
    <2> QED
      BY <2>1, <2>2
  <1>6. price \in Nat
    BY <1>2, <1>3, KindTypes, ProductType DEF Data
  <1>7. taros' = taros + price /\ taros + price <= MaxTaros
    BY DEF VendorSell
  <1>8. items' = [items EXCEPT ![Carried(s)] = left] /\ buyback' = Remembered(sold) /\ UNCHANGED worn
    BY DEF VendorSell
  <1> HIDE DEF left, sold, price
  <1>9. PurseOK'
    <2>1. taros' \in -MaxDebt .. MaxTaros
      BY <1>1, <1>6, <1>7, BelongingsAssumption DEF PurseOK
    <2> QED
      BY <1>1, <2>1 DEF PurseOK, VendorSell, battery, banks
  <1>10. ThingsOK' /\ (AllFit => AllFit')
    BY <1>1, <1>5, <1>8, CarryOnly
  <1>11. SoldOK' /\ (SoldFits /\ AllFit => SoldFits')
    BY <1>1, <1>3, <1>4, <1>8, RememberedOK
  <1> QED
    BY <1>9, <1>10, <1>11, GoodsPartsNext DEF Kept, StacksInv

LEMMA VendorBuybackKeeps ==
    ASSUME GoodsInv, NEW i \in DOMAIN buyback, VendorBuyback(i)
    PROVE  Kept
  <1> DEFINE stack == buyback[i]
             cost == Data(stack).sellPrice * Units(stack)
  <1>1. ThingsOK /\ PurseOK /\ SoldOK /\ buyback \in Seq(Stack) /\ i \in 1 .. Len(buyback)
    BY GoodsParts, LenProperties DEF SoldOK
  <1>2. stack \in Stack /\ stack.item \in Item /\ (SoldFits => FitsIn(stack))
    BY <1>1, ElementOfSeq, StackTypes DEF SoldOK, SoldFits
  <1>3. SoldOK' /\ (SoldFits => SoldFits')
    <2>1. /\ buyback' \in Seq(Stack) /\ Len(buyback') <= Len(buyback)
          /\ \A k \in 1 .. Len(buyback') : \E j \in 1 .. Len(buyback) : buyback'[k] = buyback[j]
      BY <1>1, RemoveFirstProperties DEF VendorBuyback, Without
    <2>2. Len(buyback') \in Nat /\ Len(buyback) \in Nat /\ BuybackSize \in Nat
      BY <1>1, <2>1, LenProperties, BelongingsAssumption
    <2>3. SoldOK'
      BY <1>1, <2>1, <2>2 DEF SoldOK
    <2>4. ASSUME SoldFits, NEW k \in 1 .. Len(buyback')
          PROVE  FitsIn(buyback'[k]) /\ buyback'[k].opt < Half
      BY <2>1, <2>4 DEF SoldFits
    <2> QED
      BY <2>3, <2>4 DEF SoldFits, FitsIn, Data
  <1>4. cost \in Nat
    BY <1>2, UnitsType, KindTypes, ProductType DEF Data
  <1>5. CASE CanPay(cost)
    <2>1. taros' = taros - cost /\ Receive(stack) /\ UNCHANGED <<battery, banks, worn, stimpak>>
      BY <1>5 DEF VendorBuyback
    <2>2. cost <= taros /\ FreePlaces(Inven) # {}
      BY <1>5 DEF CanPay
    <2>3. ThingsOK' /\ (AllFit /\ FitsIn(stack) => AllFit')
      BY <1>1, <1>2, <2>1, <2>2, ReceiveKeeps
    <2> HIDE DEF cost
    <2>4. taros' \in -MaxDebt .. MaxTaros
      BY <1>1, <1>4, <2>1, <2>2, BelongingsAssumption DEF PurseOK
    <2>5. PurseOK'
      BY <1>1, <2>1, <2>4 DEF PurseOK, battery, banks
    <2> QED
      BY <1>2, <1>3, <2>3, <2>5, GoodsPartsNext DEF Kept, StacksInv
  <1>6. CASE ~CanPay(cost)
    <2>1. UNCHANGED <<items, taros, battery, banks, worn, stimpak>>
      BY <1>6 DEF VendorBuyback
    <2> QED
      BY <1>1, <1>3, <2>1, PurseStays, ThingsStay, GoodsPartsNext DEF Kept, StacksInv
  <1> QED
    BY <1>5, <1>6

LEMMA BuyBatteryKeeps ==
    ASSUME GoodsInv, NEW weapon \in BOOLEAN, BuyBattery(1, weapon)
    PROVE  Kept /\ items' = items /\ taros' <= taros
  <1>1. PurseOK
    BY GoodsParts
  <1>2. SoldOK' /\ (SoldFits => SoldFits') /\ ThingsOK' /\ (AllFit => AllFit')
    BY GoodsParts, SoldStays, ThingsStay DEF BuyBattery
  <1>3. /\ 1 * BatteryUnit = BatteryUnit /\ BatteryUnit \in Nat /\ BatteryCap \in Nat
        /\ taros \in -MaxDebt .. MaxTaros /\ batteryW \in 0 .. BatteryCap /\ batteryN \in 0 .. BatteryCap
    BY <1>1, BelongingsAssumption DEF PurseOK
  <1>4. ASSUME NEW b \in 0 .. BatteryCap
        PROVE  LET now == Capped(b + BatteryUnit)
               IN  now \in 0 .. BatteryCap /\ now - b \in 0 .. BatteryUnit
    <2>1. b + BatteryUnit \in Nat
      BY <1>3
    <2> QED
      BY <1>3, <2>1, CappedType
  <1>5. taros >= BatteryUnit /\ taros' = taros - (batteryW' + batteryN' - batteryW - batteryN)
    BY <1>3 DEF BuyBattery
  <1>6. /\ batteryW' \in 0 .. BatteryCap /\ batteryN' \in 0 .. BatteryCap
        /\ batteryW' + batteryN' - batteryW - batteryN \in 0 .. BatteryUnit
    <2>1. CASE weapon
      <3>1. batteryW' = Capped(batteryW + BatteryUnit) /\ batteryN' = batteryN
        BY <1>3, <2>1 DEF BuyBattery
      <3>2. batteryW' \in 0 .. BatteryCap /\ batteryW' - batteryW \in 0 .. BatteryUnit
        BY <1>3, <1>4, <3>1
      <3>3. batteryW' + batteryN' - batteryW - batteryN = batteryW' - batteryW
        BY <1>3, <3>1, <3>2
      <3> QED
        BY <1>3, <3>1, <3>2, <3>3
    <2>2. CASE ~weapon
      <3>1. batteryN' = Capped(batteryN + BatteryUnit) /\ batteryW' = batteryW
        BY <1>3, <2>2 DEF BuyBattery
      <3>2. batteryN' \in 0 .. BatteryCap /\ batteryN' - batteryN \in 0 .. BatteryUnit
        BY <1>3, <1>4, <3>1
      <3>3. batteryW' + batteryN' - batteryW - batteryN = batteryN' - batteryN
        BY <1>3, <3>1, <3>2
      <3> QED
        BY <1>3, <3>1, <3>2, <3>3
    <2>3. weapon \/ ~weapon
      OBVIOUS
    <2> QED
      BY <2>1, <2>2, <2>3
  <1>7. taros' \in -MaxDebt .. MaxTaros /\ taros' <= taros
    <2>1. PICK d \in 0 .. BatteryUnit : d = batteryW' + batteryN' - batteryW - batteryN
      BY <1>6
    <2>2. taros' = taros - d
      BY <1>5, <2>1
    <2>3. MaxDebt \in Nat /\ MaxTaros \in Nat
      BY BelongingsAssumption
    <2> QED
      BY <1>3, <1>5, <2>2, <2>3
  <1>8. PurseOK'
    BY <1>1, <1>6, <1>7 DEF BuyBattery, PurseOK, banks
  <1>9. items' = items
    BY DEF BuyBattery
  <1> QED
    BY <1>2, <1>7, <1>8, <1>9, GoodsPartsNext DEF Kept, StacksInv

\* What the croc pot makes is marked by the looks in the upper half of its count.
LEMMA LooksType ==
    ASSUME NEW stack \in Stack, stack.item \in Item
    PROVE  LooksOf(stack) * Half \in Nat /\ (LooksOf(stack) * Half = 0 \/ LooksOf(stack) * Half >= Half)
  <1>1. stack.opt \in Nat /\ Half \in Nat /\ Half > 1 /\ Data(stack).id \in Nat
    BY StackTypes, HalfType, KindTypes DEF Data
  <1>2. LooksOf(stack) \in Nat
    <2>1. stack.opt \div Half \in Int
      BY <1>1
    <2> QED
      BY <1>1, <2>1 DEF LooksOf
  <1>3. ASSUME NEW n \in Nat PROVE n * Half \in Nat /\ (n * Half = 0 \/ n * Half >= Half)
    <2>1. CASE n = 0
      BY <1>1, <2>1
    <2>2. CASE n >= 1
      <3>1. n - 1 \in Nat /\ (n - 1) * Half \in Nat
        BY <1>1, <2>2
      <3>2. n * Half = (n - 1) * Half + Half
        BY <1>1
      <3> QED
        BY <1>1, <3>1, <3>2
    <2> QED
      BY <2>1, <2>2
  <1> QED
    BY <1>2, <1>3

LEMMA CombineKeeps ==
    ASSUME GoodsInv, NEW s \in Place, NEW t \in Place, NEW success \in BOOLEAN, Combine(s, t, success)
    PROVE  GoodsInv' /\ (PotTakesEquipment /\ StacksInv => StacksInv')
  <1> DEFINE a == items[Carried(s)]
             b == items[Carried(t)]
             made == Of(a.item, LooksOf(b) * Half)
  <1>1. ThingsOK /\ PurseOK /\ Carried(s) \in Position /\ Carried(t) \in Position
    BY GoodsParts, Positions
  <1>2. SoldOK' /\ (SoldFits => SoldFits')
    BY GoodsParts, SoldStays DEF Combine
  <1>3. PurseOK'
    <2>1. taros' \in -MaxDebt .. MaxTaros
      BY <1>1, BelongingsAssumption DEF PurseOK, Combine
    <2> QED
      BY <1>1, <2>1 DEF PurseOK, Combine, battery, banks
  <1>4. a.item \in Item /\ b.item \in Item /\ b \in Stack
    <2>1. Recipe \subseteq Item \X Item
      BY BelongingsAssumption
    <2> QED
      BY <1>1, <2>1, ItemsType DEF Combine
  <1>5. made \in Stack /\ made.item = a.item /\ made.opt = LooksOf(b) * Half
    BY <1>4, LooksType, StackTypes
  <1>6. PotTakesEquipment => FitsIn(made)
    <2>1. ASSUME PotTakesEquipment PROVE Data(made).type # GeneralType
      <3>1. <<a.item, b.item>> \in Recipe /\ <<a.item, b.item>>[1] = a.item
        BY DEF Combine
      <3> QED
        BY <1>5, <2>1, <3>1 DEF PotTakesEquipment, Data
    <2>2. made.opt < Half => made.opt = 0
      BY <1>4, <1>5, LooksType, HalfType
    <2>3. Max({1, Data(made).stackSize}) \in Nat
      BY <1>4, <1>5, SizeOfKind, HalfType DEF Data
    <2> QED
      BY <1>5, <2>1, <2>2, <2>3 DEF FitsIn
  <1> HIDE DEF made
  <1>7. CASE success
    <2>1. items' = [items EXCEPT ![Carried(t)] = made, ![Carried(s)] = NoItem] /\ UNCHANGED worn
      BY <1>7 DEF Combine, made
    <2>2. items \in [Position -> Stack] /\ (AllFit => \A pos \in Position : FitsIn(items[pos]))
      BY <1>1 DEF ThingsOK, AllFit
    <2> DEFINE its == [items EXCEPT ![Carried(t)] = made]
    <2>3. /\ its \in [Position -> Stack] /\ Computed(its) = Computed(items) /\ its[Worn] = items[Worn]
          /\ AllFit /\ FitsIn(made) => \A pos \in Position : FitsIn(its[pos])
      BY <1>5, <2>2, BagChange
    <2>4. items' = [its EXCEPT ![Carried(s)] = NoItem]
      BY <1>1, <2>1, <2>2
    <2> HIDE DEF its
    <2>5. /\ items' \in [Position -> Stack] /\ Computed(items') = Computed(its) /\ items'[Worn] = its[Worn]
          /\ (\A pos \in Position : FitsIn(its[pos])) => \A pos \in Position : FitsIn(items'[pos])
      <3>1. NoItem \in Stack /\ FitsIn(NoItem)
        BY StackTypes
      <3> QED
        BY <2>3, <2>4, <3>1, BagChange
    <2>6. ThingsOK'
      BY <1>1, <2>1, <2>3, <2>5 DEF ThingsOK, StatsCurrent, RidesSomething, worn
    <2>7. AllFit /\ FitsIn(made) => AllFit'
      BY <2>3, <2>5 DEF AllFit, FitsIn, Data
    <2> QED
      BY <1>2, <1>3, <1>6, <2>6, <2>7, GoodsPartsNext DEF StacksInv
  <1>8. CASE ~success
    <2>1. UNCHANGED <<items, worn>>
      BY <1>8 DEF Combine
    <2> QED
      BY <1>1, <1>2, <1>3, <2>1, ThingsStay, GoodsPartsNext DEF StacksInv
  <1>9. success \/ ~success
    OBVIOUS
  <1> QED
    BY <1>7, <1>8, <1>9

LEMMA ExpireKeeps ==
    ASSUME GoodsInv, NEW pos \in Position, Expire(pos)
    PROVE  Kept
  <1> DEFINE old == items[pos]
             now == [old EXCEPT !.item = Expired[old.item]]
  <1>1. PurseOK' /\ SoldOK' /\ (SoldFits => SoldFits') /\ ThingsOK
    BY GoodsParts, PurseStays, SoldStays DEF Expire
  <1>2. items \in [Position -> Stack] /\ old \in Stack /\ old.item \in DOMAIN Expired
    BY <1>1 DEF ThingsOK, Expire
  <1>3. old.item \in Item /\ Expired[old.item] \in Item /\ ItemData[Expired[old.item]] = ItemData[old.item]
    BY <1>2, BelongingsAssumption
  <1>4. now \in Stack /\ now.item = Expired[old.item] /\ now.opt = old.opt /\ now.item # None /\ old.item # None
    BY <1>2, <1>3, KindTypes DEF Stack
  <1>5. FitsIn(old) => FitsIn(now)
    BY <1>3, <1>4 DEF FitsIn, Data
  <1>6. /\ items' \in [Position -> Stack] /\ items'[pos] = now
        /\ \A q \in Position : q # pos => items'[q] = items[q]
    <2>1. items' = [items EXCEPT ![pos] = now]
      BY DEF Expire
    <2> QED
      BY <1>2, <1>4, <2>1
  <1>7. riding' = riding /\ statsOf' = statsOf
    BY DEF Expire, worn
  <1> HIDE DEF now
  <1>8. Computed(items') = Computed(items)
    <2>1. ASSUME NEW i \in StatSlot
          PROVE  /\ items'[<<"EQUIP", i>>].item = None <=> items[<<"EQUIP", i>>].item = None
                 /\ items[<<"EQUIP", i>>].item # None
                      => ItemData[items'[<<"EQUIP", i>>].item] = ItemData[items[<<"EQUIP", i>>].item]
      <3>1. <<"EQUIP", i>> \in Position
        BY Positions
      <3>2. CASE <<"EQUIP", i>> = pos
        BY <1>3, <1>4, <1>6, <3>2
      <3>3. CASE <<"EQUIP", i>> # pos
        BY <1>6, <3>1, <3>3
      <3> QED
        BY <3>2, <3>3
    <2> QED
      BY <2>1 DEF Computed
  <1>9. ThingsOK'
    <2>1. items'[Worn].item = None <=> items[Worn].item = None
      <3>1. CASE Worn = pos
        BY <1>4, <1>6, <3>1
      <3>2. CASE Worn # pos
        BY <1>6, <3>2, Positions
      <3> QED
        BY <3>1, <3>2
    <2> QED
      BY <1>1, <1>6, <1>7, <1>8, <2>1 DEF ThingsOK, StatsCurrent, RidesSomething
  <1>10. AllFit => AllFit'
    <2>1. ASSUME AllFit, NEW q \in Position PROVE FitsIn(items'[q])
      <3>1. FitsIn(items[q]) /\ FitsIn(old)
        BY <2>1 DEF AllFit
      <3> QED
        BY <1>5, <1>6, <3>1
    <2> QED
      BY <2>1 DEF AllFit, FitsIn, Data
  <1> QED
    BY <1>1, <1>9, <1>10, GoodsPartsNext DEF Kept, StacksInv

LEMMA RelogKeeps ==
    ASSUME GoodsInv, Relog
    PROVE  Kept
  <1>1. PurseOK /\ ThingsOK /\ items \in [Position -> Stack] /\ items' = Swept(items)
    BY GoodsParts DEF ThingsOK, Relog
  <1>2. PurseOK'
    <2>1. 0 \in BankOwnership
      BY <1>1 DEF PurseOK
    <2> QED
      BY <1>1, <2>1 DEF Relog, PurseOK, battery
  <1>3. SoldOK' /\ SoldFits'
    <2>1. buyback' = <<>> /\ Len(<<>>) = 0 /\ <<>> \in Seq(Stack) /\ BuybackSize \in Nat
      BY EmptySeq, BelongingsAssumption DEF Relog
    <2> QED
      BY <2>1 DEF SoldOK, SoldFits
  <1>4. /\ items' \in [Position -> Stack]
        /\ \A pos \in Position : items'[pos] = items[pos] \/ items'[pos] = NoItem
    BY <1>1, StackTypes DEF Swept
  <1>5. ThingsOK'
    BY <1>4 DEF ThingsOK, Relog, Restated, StatsCurrent, RidesSomething
  <1>6. AllFit => AllFit'
    <2>1. ASSUME AllFit, NEW pos \in Position PROVE FitsIn(items'[pos])
      BY <1>4, <2>1, StackTypes DEF AllFit
    <2> QED
      BY <2>1 DEF AllFit, FitsIn, Data
  <1> QED
    BY <1>2, <1>3, <1>5, <1>6, GoodsPartsNext DEF Kept, StacksInv

-----------------------------------------------------------------------------
(***************************************************************************)
(* The specification.                                                      *)
(***************************************************************************)
LEMMA GoodsStart == GoodsInit => GoodsInv /\ StacksInv
  <1> SUFFICES ASSUME GoodsInit PROVE GoodsInv /\ StacksInv
    OBVIOUS
  <1>1. items \in StartItems /\ items \in [Position -> Stack]
    BY BelongingsAssumption DEF GoodsInit
  <1>2. /\ MaxTaros \in Nat /\ MaxDebt \in Nat /\ StartTaros \in 0 .. MaxTaros
        /\ BatteryCap \in Nat /\ StartBattery \in 0 .. BatteryCap /\ 0 \in Bank /\ BuybackSize \in Nat
    BY BelongingsAssumption
  <1>3. PurseOK
    BY <1>2 DEF GoodsInit, PurseOK
  <1>4. SoldOK /\ SoldFits
    <2>1. buyback = <<>> /\ Len(<<>>) = 0 /\ <<>> \in Seq(Stack)
      BY EmptySeq DEF GoodsInit
    <2> QED
      BY <1>2, <2>1 DEF SoldOK, SoldFits
  <1>5. ThingsOK
    BY <1>1 DEF GoodsInit, ThingsOK, StatsCurrent, RidesSomething
  <1>6. AllFit
    BY <1>1, BelongingsAssumption DEF AllFit, FitsIn, Data
  <1> QED
    BY <1>3, <1>4, <1>5, <1>6, GoodsParts DEF StacksInv

LEMMA GoodsStutters ==
    ASSUME UNCHANGED goodsVars
    PROVE  (GoodsInv => GoodsInv') /\ (StacksInv => StacksInv')
  <1>1. UNCHANGED <<taros, battery, banks, stimpak>> /\ UNCHANGED <<items, worn>> /\ UNCHANGED buyback
    BY DEF goodsVars
  <1> QED
    BY <1>1, PurseStays, SoldStays, ThingsStay, GoodsParts, GoodsPartsNext DEF StacksInv

LEMMA GoodsStep ==
    ASSUME GoodsInv, [GoodsNext]_goodsVars
    PROVE  GoodsInv' /\ (PotTakesEquipment /\ StacksInv => StacksInv')
  <1> DEFINE Goal == GoodsInv' /\ (PotTakesEquipment /\ StacksInv => StacksInv')
  <1>1. ASSUME Kept PROVE Goal
    BY <1>1 DEF Kept
  <1>2. ASSUME NEW from \in Position, NEW to \in Position, ItemMove(from, to) PROVE Goal
    BY <1>1, <1>2, ItemMoveKeeps
  <1>3. ASSUME NEW s \in Place, DeleteItem(s) \/ UseCard(s) PROVE Goal
    BY <1>1, <1>3, DeleteItemKeeps, UseCardKeeps
  <1>4. ASSUME NEW b \in Bank, OpenBank(b) PROVE Goal
    BY <1>1, <1>4, OpenBankKeeps
  <1>5. ASSUME NEW s \in Place, NEW inside \in Item, OpenChest(s, inside) PROVE Goal
    BY <1>1, <1>5, OpenChestKeeps
  <1>6. ASSUME NEW w \in {0, BatteryUnit}, NEW n \in {0, BatteryUnit},
               NEW loot \in DOMAIN Content \cup {None}, NEW event \in DOMAIN Content \cup {None},
               MobDrop(w, n, loot, event)
        PROVE  Goal
    BY <1>1, <1>6, MobDropKeeps
  <1>7. ASSUME NEW s \in Place, NEW slot \in DOMAIN NanoStyle, UseGumball(s, slot) PROVE Goal
    BY <1>1, <1>7, UseGumballKeeps
  <1>8. ASSUME NEW slot \in DOMAIN NanoStyle, GumballEnds(slot) PROVE Goal
    BY <1>1, <1>8, GumballEndsKeeps
  <1>9. ASSUME VehicleOn \/ VehicleOff PROVE Goal
    BY <1>1, <1>9, VehicleKeeps
  <1>10. ASSUME NEW item \in Item, NEW n \in 1 .. 2, VendorBuyItem(item, n) PROVE Goal
    BY <1>1, <1>10, VendorBuyItemKeeps
  <1>11. ASSUME NEW s \in Place, NEW n \in {1, items[Carried(s)].opt}, VendorSell(s, n) PROVE Goal
    BY <1>1, <1>11, VendorSellKeeps
  <1>12. ASSUME NEW i \in DOMAIN buyback, VendorBuyback(i) PROVE Goal
    BY <1>1, <1>12, VendorBuybackKeeps
  <1>13. ASSUME NEW weapon \in BOOLEAN, BuyBattery(1, weapon) PROVE Goal
    BY <1>1, <1>13, BuyBatteryKeeps
  <1>14. ASSUME NEW s \in Place, NEW t \in Place, NEW success \in BOOLEAN, Combine(s, t, success) PROVE Goal
    BY <1>14, CombineKeeps
  <1>15. ASSUME NEW pos \in Position, Expire(pos) PROVE Goal
    BY <1>1, <1>15, ExpireKeeps
  <1>16. ASSUME Relog PROVE Goal
    BY <1>1, <1>16, RelogKeeps
  <1>17. ASSUME UNCHANGED goodsVars PROVE Goal
    BY <1>17, GoodsStutters
  <1> HIDE DEF Goal
  <1>18. Goal
    BY <1>2, <1>3, <1>4, <1>5, <1>6, <1>7, <1>8, <1>9, <1>10, <1>11, <1>12, <1>13, <1>14, <1>15, <1>16, <1>17
       DEF GoodsNext
  <1> QED
    BY <1>18 DEF Goal

\* The variables keep their types: taros within their bounds, both batteries below
\* the cap, a bank open that the player owns, no more sold than is remembered
\* (Items.cpp, Vendor.cpp).
THEOREM GoodsTyping == GoodsSpec => []GoodsTypeOK
  <1>1. GoodsInit => GoodsInv
    BY GoodsStart
  <1>2. GoodsInv /\ [GoodsNext]_goodsVars => GoodsInv'
    BY GoodsStep
  <1>3. GoodsInv => GoodsTypeOK
    BY DEF GoodsInv
  <1> QED
    BY <1>1, <1>2, <1>3, PTL DEF GoodsSpec

\* Whatever is moved, used up, expires or is loaded again, a player fights with the
\* equipment it wears and rides on something (Items.cpp:294, 300).
THEOREM EquipmentIsCurrent == GoodsSpec => [](StatsCurrent /\ RidesSomething)
  <1>1. GoodsInit => GoodsInv
    BY GoodsStart
  <1>2. GoodsInv /\ [GoodsNext]_goodsVars => GoodsInv'
    BY GoodsStep
  <1>3. GoodsInv => StatsCurrent /\ RidesSomething
    BY DEF GoodsInv
  <1> QED
    BY <1>1, <1>2, <1>3, PTL DEF GoodsSpec

\* Counts and kinds stay together too: moving, buying, selling in parts, buying
\* back and using up never make a stack larger than its kind, as long as no
\* gumball or bank card is put into the croc pot.
THEOREM GoodsStayConsistent ==
    ASSUME PotTakesEquipment
    PROVE  GoodsSpec => []GoodsConsistent
  <1>1. GoodsInit => GoodsInv /\ StacksInv
    BY GoodsStart
  <1>2. GoodsInv /\ StacksInv /\ [GoodsNext]_goodsVars => GoodsInv' /\ StacksInv'
    BY GoodsStep
  <1>3. GoodsInv /\ StacksInv => GoodsConsistent
    BY DEF GoodsInv, StacksInv, AllFit, FitsIn, GoodsConsistent, StacksFit
  <1> QED
    BY <1>1, <1>2, <1>3, PTL DEF GoodsSpec

-----------------------------------------------------------------------------
(***************************************************************************)
(* Wealth: what an action does to the places adds up.                      *)
(***************************************************************************)

\* Equipment does not stack: what the croc pot writes into a count is no count.
EquipmentIsSingle == \A pair \in Recipe : ~Stackable(pair[1])

LEMMA PositionsFinite == IsFiniteSet(Position)
  <1>1. IsFiniteSet(EquipSlot) /\ IsFiniteSet(Bank) /\ BankSize \in Nat /\ InvenSize \in Nat
    BY BelongingsAssumption
  <1>2. Cardinality(Bank) \in Nat
    BY <1>1, FS_CardinalityType
  <1>3. Cardinality(Bank) * BankSize \in Nat
    BY <1>1, <1>2
  <1>4. IsFiniteSet(AllBankPlaces) /\ IsFiniteSet(Place)
    BY <1>1, <1>3, FS_Interval DEF AllBankPlaces, Place
  <1>5. IsFiniteSet({"EQUIP"}) /\ IsFiniteSet({"INVENTORY"}) /\ IsFiniteSet({"BANK"})
    BY FS_Singleton
  <1>6. /\ IsFiniteSet({"EQUIP"} \X EquipSlot) /\ IsFiniteSet({"INVENTORY"} \X Place)
        /\ IsFiniteSet({"BANK"} \X AllBankPlaces)
    BY <1>1, <1>4, <1>5, FS_Product
  <1> QED
    BY <1>6, FS_Union DEF Position

LEMMA Products ==
    ASSUME NEW a \in Nat, NEW m \in Nat, NEW n \in Nat
    PROVE  /\ a * m \in Nat /\ a * (m + n) = a * m + a * n
           /\ m <= n => a * m <= a * n
  <1>1. a * m \in Nat /\ a * (m + n) = a * m + a * n
    OBVIOUS
  <1>2. ASSUME m <= n PROVE a * m <= a * n
    <2>1. n - m \in Nat /\ a * (n - m) \in Nat
      BY <1>2
    <2>2. a * n = a * m + a * (n - m)
      OBVIOUS
    <2>3. a * n \in Nat
      OBVIOUS
    <2> QED
      BY <1>1, <2>1, <2>2, <2>3
  <1> QED
    BY <1>1, <1>2

LEMMA WorthIs ==
    ASSUME NEW stack \in Stack
    PROVE  /\ Worth(stack) \in Nat
           /\ stack.item = None => Worth(stack) = 0
           /\ stack.item # None =>
                /\ Worth(stack) = Data(stack).sellPrice * Units(stack)
                /\ Data(stack).sellPrice \in Nat /\ Units(stack) \in Nat
  <1>1. stack.item # None => Data(stack).sellPrice \in Nat
    BY StackTypes, KindTypes DEF Data
  <1> QED
    BY <1>1, UnitsType, ProductType DEF Worth

LEMMA NothingIsWorth == Worth(NoItem) = 0
  BY DEF Worth, NoItem

LEMMA EstateIs ==
    ASSUME NEW its
    PROVE  Estate(its) = SumFunctionOnSet([pos \in Position |-> Worth(its[pos])], Position)
  BY DEF Estate, SumFunction

LEMMA EstateType ==
    ASSUME NEW its \in [Position -> Stack]
    PROVE  Estate(its) \in Int
  <1> DEFINE f == [pos \in Position |-> Worth(its[pos])]
  <1>1. \A pos \in Position : f[pos] \in Int
    BY WorthIs
  <1>2. SumFunctionOnSet(f, Position) \in Int
    <2> HIDE DEF f
    <2> QED
      BY <1>1, PositionsFinite, SumRemove
  <1> QED
    BY <1>2, EstateIs

\* Places that are worth less add up to less.
LEMMA EstateLess ==
    ASSUME NEW its \in [Position -> Stack], NEW now \in [Position -> Stack],
           \A pos \in Position : Worth(now[pos]) <= Worth(its[pos])
    PROVE  Estate(now) <= Estate(its)
  <1> DEFINE f == [pos \in Position |-> Worth(its[pos])]
             g == [pos \in Position |-> Worth(now[pos])]
  <1>1. \A pos \in Position : f[pos] \in Int /\ g[pos] \in Int /\ g[pos] <= f[pos]
    BY WorthIs
  <1>2. SumFunctionOnSet(g, Position) <= SumFunctionOnSet(f, Position)
    <2> HIDE DEF f, g
    <2> QED
      BY <1>1, PositionsFinite, SumLess
  <1> QED
    BY <1>2, EstateIs

\* One place changes.
LEMMA EstateChange ==
    ASSUME NEW its \in [Position -> Stack], NEW now \in [Position -> Stack], NEW pos \in Position,
           DiffersAt(its, now, Position, pos)
    PROVE  Estate(now) = Estate(its) - Worth(its[pos]) + Worth(now[pos])
  <1> DEFINE f == [q \in Position |-> Worth(its[q])]
             g == [q \in Position |-> Worth(now[q])]
  <1>1. Integral(f, Position) /\ Integral(g, Position)
    BY WorthIs DEF Integral
  <1>2. g[pos] = Worth(now[pos]) /\ f[pos] = Worth(its[pos])
    OBVIOUS
  <1>3. DiffersAt(f, g, Position, pos)
    BY DEF DiffersAt
  <1>4. SumFunctionOnSet(f, Position) = Estate(its) /\ SumFunctionOnSet(g, Position) = Estate(now)
    BY EstateIs
  <1> HIDE DEF f, g
  <1>5. SumFunctionOnSet(g, Position) = SumFunctionOnSet(f, Position) - f[pos] + g[pos]
    BY <1>1, <1>3, PositionsFinite, SumDiffers
  <1> QED
    BY <1>2, <1>4, <1>5

LEMMA PurseTypes ==
    /\ GoodsInv => items \in [Position -> Stack] /\ taros \in Int
    /\ GoodsInv' => items' \in [Position -> Stack] /\ taros' \in Int
  <1>1. MaxDebt \in Nat /\ MaxTaros \in Nat
    BY BelongingsAssumption
  <1>2. GoodsInv => items \in [Position -> Stack] /\ taros \in -MaxDebt .. MaxTaros
    BY DEF GoodsInv, GoodsTypeOK
  <1>3. GoodsInv' => items' \in [Position -> Stack] /\ taros' \in -MaxDebt .. MaxTaros
    BY DEF GoodsInv, GoodsTypeOK
  <1> QED
    BY <1>1, <1>2, <1>3

\* The purse and one place change, and together they are not worth more.
LEMMA OneTraded ==
    ASSUME GoodsInv, GoodsInv', NEW pos \in Position, NEW stack \in Stack,
           items' = [items EXCEPT ![pos] = stack],
           taros' + Worth(stack) <= taros + Worth(items[pos])
    PROVE  NothingForFree
  <1>1. items \in [Position -> Stack] /\ items' \in [Position -> Stack] /\ taros \in Int /\ taros' \in Int
    BY PurseTypes
  <1>2. Estate(items') = Estate(items) - Worth(items[pos]) + Worth(stack)
    <2>1. DiffersAt(items, items', Position, pos) /\ items'[pos] = stack
      BY <1>1 DEF DiffersAt
    <2> QED
      BY <1>1, <2>1, EstateChange
  <1>3. Estate(items) \in Int /\ Worth(items[pos]) \in Int /\ Worth(stack) \in Int
    BY <1>1, EstateType, WorthIs
  <1>4. taros' + Estate(items') <= taros + Estate(items)
    BY <1>1, <1>2, <1>3
  <1>5. Wealth = taros + Estate(items) /\ Wealth' = taros' + Estate(items')
    BY DEF Wealth, Estate, Worth, Data, Units
  <1> QED
    BY <1>4, <1>5 DEF NothingForFree

\* So with two places.
LEMMA TwoTraded ==
    ASSUME GoodsInv, GoodsInv', NEW p \in Position, NEW q \in Position, p # q,
           NEW a \in Stack, NEW b \in Stack,
           items' = [items EXCEPT ![p] = a, ![q] = b],
           taros' + Worth(a) + Worth(b) <= taros + Worth(items[p]) + Worth(items[q])
    PROVE  NothingForFree
  <1> DEFINE its == [items EXCEPT ![p] = a]
  <1>1. items \in [Position -> Stack] /\ items' \in [Position -> Stack] /\ taros \in Int /\ taros' \in Int
    BY PurseTypes
  <1>2. its \in [Position -> Stack] /\ its[q] = items[q] /\ its[p] = a /\ items'[q] = b
    BY <1>1
  <1>3. DiffersAt(items, its, Position, p) /\ DiffersAt(its, items', Position, q)
    BY <1>1 DEF DiffersAt
  <1> HIDE DEF its
  <1>4. Estate(its) = Estate(items) - Worth(items[p]) + Worth(a)
    <2>1. Estate(its) = Estate(items) - Worth(items[p]) + Worth(its[p])
      BY <1>1, <1>2, <1>3, EstateChange
    <2> QED
      BY <1>2, <2>1
  <1>0. Estate(items') = Estate(its) - Worth(items[q]) + Worth(b)
    <2>1. Estate(items') = Estate(its) - Worth(its[q]) + Worth(items'[q])
      BY <1>1, <1>2, <1>3, EstateChange
    <2> QED
      BY <1>2, <2>1
  <1>5. /\ Estate(items) \in Int /\ Worth(items[p]) \in Int /\ Worth(items[q]) \in Int
        /\ Worth(a) \in Int /\ Worth(b) \in Int
    BY <1>1, EstateType, WorthIs
  <1>6. taros' + Estate(items') <= taros + Estate(items)
    BY <1>0, <1>1, <1>4, <1>5
  <1>7. Wealth = taros + Estate(items) /\ Wealth' = taros' + Estate(items')
    BY DEF Wealth, Estate, Worth, Data, Units
  <1> QED
    BY <1>6, <1>7 DEF NothingForFree

\* Two stacks that are put together are as many as before.
LEMMA StackedWorth ==
    ASSUME NEW from \in Stack, NEW to \in Stack, Together(from, to)
    PROVE  Worth(Stacked(from, to)[1]) + Worth(Stacked(from, to)[2]) = Worth(from) + Worth(to)
  <1> DEFINE k == to.item
             size == ItemData[k].stackSize
             all == from.opt + to.opt
             price == ItemData[k].sellPrice
  <1>1. /\ k \in Item /\ from.item = k /\ from.opt \in Nat /\ to.opt \in Nat /\ Stackable(k)
        /\ Data(to) = ItemData[k] /\ k # None
    BY StackTypes, KindTypes DEF Together, Data
  <1>2. size \in Nat /\ price \in Nat
    BY <1>1, KindTypes, HalfType
  <1>3. \A n \in Nat : Worth(Of(k, n)) = price * n
    BY <1>1, StackTypes DEF Worth, Units, Data
  <1>4. Worth(from) = price * from.opt /\ Worth(to) = price * to.opt
    BY <1>1 DEF Worth, Units, Data
  <1>5. Stacked(from, to) = IF all > size THEN <<Of(k, all - size), Of(k, size)>> ELSE <<NoItem, Of(k, all)>>
    BY <1>1 DEF Stacked
  <1>6. all \in Nat /\ price * all = price * from.opt + price * to.opt
    BY <1>1, <1>2, Products
  <1> HIDE DEF size, all, k, price
  <1>7. CASE all > size
    <2>1. all - size \in Nat /\ (all - size) + size = all
      BY <1>2, <1>6, <1>7
    <2>2. price * ((all - size) + size) = price * (all - size) + price * size
      BY <1>2, <2>1, Products
    <2>3. Worth(Of(k, all - size)) = price * (all - size) /\ Worth(Of(k, size)) = price * size
      BY <1>2, <1>3, <2>1
    <2> QED
      BY <1>4, <1>5, <1>6, <1>7, <2>1, <2>2, <2>3
  <1>8. CASE ~(all > size)
    <2>1. price * all \in Nat
      BY <1>2, <1>6, ProductType
    <2>2. Worth(NoItem) = 0 /\ Worth(Of(k, all)) = price * all
      BY <1>3, <1>6, NothingIsWorth
    <2> QED
      BY <1>4, <1>5, <1>6, <1>8, <2>1, <2>2
  <1> QED
    BY <1>7, <1>8

LEMMA MovedForFree ==
    ASSUME GoodsInv, GoodsInv', NEW from \in Position, NEW to \in Position, ItemMove(from, to)
    PROVE  NothingForFree
  <1> DEFINE a == items[from]
             b == items[to]
             two == Stacked(a, b)
  <1>1. a \in Stack /\ b \in Stack /\ from # to /\ taros' = taros /\ taros \in Int
    BY BelongingsAssumption DEF GoodsInv, GoodsTypeOK, ItemMove
  <1>2. Worth(a) \in Nat /\ Worth(b) \in Nat
    BY <1>1, WorthIs
  <1>3. CASE Together(a, b)
    <2>1. items' = [items EXCEPT ![from] = two[1], ![to] = two[2]]
      BY <1>3 DEF ItemMove
    <2>2. two[1] \in Stack /\ two[2] \in Stack /\ Worth(two[1]) + Worth(two[2]) = Worth(a) + Worth(b)
      BY <1>1, <1>3, StackedFits, StackedWorth
    <2>3. Worth(two[1]) \in Nat /\ Worth(two[2]) \in Nat
      BY <2>2, WorthIs
    <2> HIDE DEF two
    <2>4. taros' + Worth(two[1]) + Worth(two[2]) <= taros + Worth(a) + Worth(b)
      BY <1>1, <1>2, <2>2, <2>3
    <2> QED
      BY <1>1, <2>1, <2>2, <2>4, TwoTraded
  <1>4. CASE ~Together(a, b)
    <2>1. items' = [items EXCEPT ![from] = b, ![to] = a]
      BY <1>4 DEF ItemMove
    <2>2. taros' + Worth(b) + Worth(a) <= taros + Worth(a) + Worth(b)
      BY <1>1, <1>2
    <2> QED
      BY <1>1, <2>1, <2>2, TwoTraded
  <1> QED
    BY <1>3, <1>4

LEMMA OneLessWorth ==
    ASSUME NEW stack \in Stack, stack.item # None, stack.opt > 0
    PROVE  OneLess(stack) \in Stack /\ Worth(OneLess(stack)) <= Worth(stack)
  <1>1. Worth(stack) \in Nat /\ stack.opt \in Nat
    BY WorthIs, StackTypes
  <1>2. CASE stack.opt = 1
    BY <1>1, <1>2, NothingIsWorth, StackTypes DEF OneLess
  <1>3. CASE stack.opt # 1
    <2> DEFINE left == [stack EXCEPT !.opt = stack.opt - 1]
    <2>1. OneLess(stack) = left /\ stack.opt - 1 \in Nat
      BY <1>1, <1>3 DEF OneLess
    <2>2. left \in Stack /\ left.item = stack.item /\ left.opt = stack.opt - 1
      BY <2>1, StackTypes
    <2> HIDE DEF left
    <2>3. Units(left) \in Nat /\ Units(stack) \in Nat /\ Units(left) <= Units(stack)
      BY <1>1, <2>1, <2>2, UnitsType DEF Units
    <2>4. Data(left) = Data(stack) /\ Data(stack).sellPrice \in Nat
      BY <2>2, WorthIs DEF Data
    <2>5. Data(stack).sellPrice * Units(left) <= Data(stack).sellPrice * Units(stack)
      BY <2>3, <2>4, Products
    <2> QED
      BY <2>1, <2>2, <2>4, <2>5, WorthIs
  <1> QED
    BY <1>2, <1>3

\* Something is taken from a place of the inventory, or made less.
LEMMA LessCarried ==
    ASSUME GoodsInv, GoodsInv', NEW s \in Place, NEW stack \in Stack, taros' = taros,
           items' = [items EXCEPT ![Carried(s)] = stack], Worth(stack) <= Worth(items[Carried(s)])
    PROVE  NothingForFree
  <1>1. items \in [Position -> Stack] /\ taros \in Int /\ Carried(s) \in Position
    BY PurseTypes, Positions
  <1>2. Worth(items[Carried(s)]) \in Int /\ Worth(stack) \in Int
    BY <1>1, WorthIs
  <1>3. taros' + Worth(stack) <= taros + Worth(items[Carried(s)])
    BY <1>1, <1>2
  <1> QED
    BY <1>1, <1>3, OneTraded

LEMMA UsedForFree ==
    ASSUME GoodsInv, GoodsInv', NEW s \in Place,
           DeleteItem(s) \/ UseCard(s) \/ \E slot \in DOMAIN NanoStyle : UseGumball(s, slot)
    PROVE  NothingForFree
  <1> DEFINE used == items[Carried(s)]
  <1>1. used \in Stack /\ Worth(used) \in Nat /\ taros' = taros
    BY PurseTypes, Positions, WorthIs DEF DeleteItem, UseCard, UseGumball
  <1>2. CASE DeleteItem(s)
    <2>1. NoItem \in Stack /\ Worth(NoItem) <= Worth(used)
      BY <1>1, NothingIsWorth, StackTypes
    <2> QED
      BY <1>1, <1>2, <2>1, LessCarried DEF DeleteItem
  <1>3. CASE UseCard(s) \/ \E slot \in DOMAIN NanoStyle : UseGumball(s, slot)
    <2>1. /\ used.opt > 0 /\ used.item \in DOMAIN Card \cup DOMAIN Gumball
          /\ items' = [items EXCEPT ![Carried(s)] = OneLess(used)]
      BY <1>3 DEF UseCard, UseGumball
    <2>2. used.item # None
      BY <2>1, BelongingsAssumption
    <2>3. OneLess(used) \in Stack /\ Worth(OneLess(used)) <= Worth(used)
      BY <1>1, <2>1, <2>2, OneLessWorth
    <2> QED
      BY <1>1, <2>1, <2>3, LessCarried
  <1> QED
    BY <1>2, <1>3

LEMMA ChestIsUncrated ==
    ASSUME GoodsInv, NEW s \in Place, NEW inside \in Item, OpenChest(s, inside)
    PROVE  Uncrated
  <1>1. Carried(s) \in Position /\ items \in [Position -> Stack]
    BY PurseTypes, Positions
  <1>2. /\ items[Carried(s)].item \in DOMAIN Content /\ inside \in Content[items[Carried(s)].item]
        /\ items' = [items EXCEPT ![Carried(s)] = Of(inside, 1)] /\ taros' = taros /\ buyback' = buyback
    BY DEF OpenChest
  <1>3. items'[Carried(s)] = Of(inside, 1) /\ \A pos \in Position \ {Carried(s)} : items'[pos] = items[pos]
    BY <1>1, <1>2
  <1> QED
    BY <1>2, <1>3 DEF Uncrated

\* A loot goes to a place where there was nothing.
LEMMA WithCrateAdds ==
    ASSUME NEW its \in [Position -> Stack], NEW loot \in DOMAIN Content \cup {None}
    PROVE  \A pos \in Position :
             \/ WithCrate(its, loot)[pos] = its[pos]
             \/ /\ its[pos].item = None /\ loot \in DOMAIN Content
                /\ WithCrate(its, loot)[pos] = Of(loot, 1)
  <1> DEFINE free == {s \in Place : its[Carried(s)].item = None}
             f == Min(free)
  <1>1. CASE loot = None \/ free = {}
    BY <1>1 DEF WithCrate
  <1>2. CASE loot # None /\ free # {}
    <2>1. f \in free /\ f \in Place
      BY <1>2, FreePlace
    <2>2. WithCrate(its, loot) = [its EXCEPT ![Carried(f)] = Of(loot, 1)] /\ its[Carried(f)].item = None
      BY <1>2, <2>1 DEF WithCrate
    <2>3. Carried(f) \in Position
      BY <2>1, Positions
    <2> HIDE DEF f
    <2> QED
      BY <1>2, <2>2, <2>3
  <1> QED
    BY <1>1, <1>2

LEMMA DropIsLooted ==
    ASSUME GoodsInv, NEW w \in {0, BatteryUnit}, NEW n \in {0, BatteryUnit},
           NEW loot \in DOMAIN Content \cup {None}, NEW event \in DOMAIN Content \cup {None},
           MobDrop(w, n, loot, event)
    PROVE  Looted
  <1> DEFINE first == WithCrate(items, loot)
  <1>1. items \in [Position -> Stack]
    BY PurseTypes
  <1>2. first \in [Position -> Stack]
    BY <1>1, WithCrateKeeps
  <1>3. \A pos \in Position :
          first[pos] = items[pos]
          \/ (items[pos].item = None /\ loot \in DOMAIN Content /\ first[pos] = Of(loot, 1))
    BY <1>1, WithCrateAdds
  <1>4. items' = WithCrate(first, event) /\ taros' = taros + Drop /\ buyback' = buyback
    BY DEF MobDrop
  <1> HIDE DEF first
  <1>5. \A pos \in Position :
          items'[pos] = first[pos]
          \/ (first[pos].item = None /\ event \in DOMAIN Content /\ items'[pos] = Of(event, 1))
    BY <1>2, <1>4, WithCrateAdds
  <1>6. loot \in DOMAIN Content => loot # None /\ Of(loot, 1).item = loot
    BY BelongingsAssumption DEF Of
  <1>7. ASSUME NEW pos \in Position
        PROVE  \/ items'[pos] = items[pos]
               \/ items[pos].item = None /\ \E c \in DOMAIN Content : items'[pos] = Of(c, 1)
    BY <1>3, <1>5, <1>6
  <1> QED
    BY <1>4, <1>7 DEF Looted

LEMMA RodeForFree ==
    ASSUME GoodsInv, GoodsInv', VehicleOn \/ VehicleOff
    PROVE  NothingForFree
  <1>1. taros' = taros /\ taros \in Int /\ Worn \in Position /\ items[Worn] \in Stack
    BY PurseTypes, Positions DEF VehicleOn, VehicleOff
  <1>2. CASE items' = items
    BY <1>1, <1>2 DEF NothingForFree
  <1>3. CASE items' # items
    <2>1. items' = [items EXCEPT ![Worn] = NoItem] /\ NoItem \in Stack
      BY <1>3, StackTypes DEF VehicleOn, VehicleOff
    <2>2. Worth(NoItem) = 0 /\ Worth(items[Worn]) \in Nat
      BY <1>1, NothingIsWorth, WorthIs
    <2>3. taros' + Worth(NoItem) <= taros + Worth(items[Worn])
      BY <1>1, <2>2
    <2> QED
      BY <1>1, <2>1, <2>3, OneTraded
  <1> QED
    BY <1>2, <1>3

\* What is bought goes to an empty place, and costs at least what it is worth.
LEMMA ReceivedForFree ==
    ASSUME GoodsInv, GoodsInv', FreePlaces(Inven) # {}, NEW stack \in Stack, Receive(stack),
           taros' + Worth(stack) <= taros
    PROVE  NothingForFree
  <1> DEFINE f == Min(FreePlaces(Inven))
  <1>1. FreePlaces(Inven) \in SUBSET Place /\ FreePlaces(Inven) # {}
    BY DEF FreePlaces
  <1>2. f \in FreePlaces(Inven) /\ f \in Place
    BY <1>1, FreePlace
  <1>3. items' = [items EXCEPT ![Carried(f)] = stack]
    BY DEF Receive
  <1> HIDE DEF f
  <1>4. items[Carried(f)].item = None
    BY <1>2 DEF FreePlaces, Inven
  <1>5. items[Carried(f)] \in Stack /\ Carried(f) \in Position /\ taros \in Int
    BY <1>2, PurseTypes, Positions
  <1>6. Worth(items[Carried(f)]) = 0
    BY <1>4, <1>5, WorthIs
  <1>7. taros' + Worth(stack) <= taros + Worth(items[Carried(f)])
    BY <1>5, <1>6
  <1> QED
    BY <1>3, <1>5, <1>7, OneTraded

LEMMA BoughtForFree ==
    ASSUME GoodsInv, GoodsInv', NEW item \in Item, NEW n \in 1 .. 2, VendorBuyItem(item, n)
    PROVE  NothingForFree
  <1> DEFINE stack == Of(item, n)
             cost == ItemData[item].buyPrice * Units(stack)
  <1>1. stack \in Stack /\ stack.item = item /\ item # None
    BY StackTypes, KindTypes
  <1>2. /\ Units(stack) \in Nat /\ ItemData[item].sellPrice \in Nat /\ ItemData[item].buyPrice \in Nat
        /\ ItemData[item].sellPrice <= ItemData[item].buyPrice
    BY <1>1, UnitsType, KindTypes, BelongingsAssumption
  <1>3. Worth(stack) = ItemData[item].sellPrice * Units(stack)
    BY <1>1, WorthIs DEF Data
  <1>4. taros' = taros - cost /\ FreePlaces(Inven) # {} /\ Receive(stack) /\ taros \in Int
    BY PurseTypes DEF VendorBuyItem, CanPay
  <1> HIDE DEF stack
  <1>5. Units(stack) * ItemData[item].sellPrice <= Units(stack) * ItemData[item].buyPrice
    BY <1>2, Products
  <1>6. Worth(stack) <= cost /\ cost \in Nat /\ Worth(stack) \in Nat
    <2>1. cost = Units(stack) * ItemData[item].buyPrice /\ Worth(stack) = Units(stack) * ItemData[item].sellPrice
      BY <1>2, <1>3
    <2>2. cost \in Nat /\ Worth(stack) \in Nat
      BY <1>1, <1>2, ProductType, WorthIs
    <2> QED
      BY <1>5, <2>1, <2>2
  <1> HIDE DEF cost
  <1>7. taros' + Worth(stack) <= taros
    BY <1>4, <1>6
  <1> QED
    BY <1>1, <1>4, <1>7, ReceivedForFree

\* Of a kind that does not stack there is one in a place, so that nobody is paid for more.
LEMMA SoldForFree ==
    ASSUME GoodsInv, GoodsInv', AllFit, NEW s \in Place, NEW n \in {1, items[Carried(s)].opt}, VendorSell(s, n)
    PROVE  NothingForFree
  <1> DEFINE stack == items[Carried(s)]
             left == IF stack.opt > n THEN [stack EXCEPT !.opt = stack.opt - n] ELSE NoItem
             price == Data(stack).sellPrice
  <1>1. taros \in Int /\ Carried(s) \in Position /\ stack \in Stack
    BY PurseTypes, Positions
  <1>2. stack.item # None /\ n <= stack.opt /\ stack.opt < Half /\ stack.opt \in Nat /\ n \in Nat
    BY <1>1, StackTypes DEF VendorSell
  <1>3. taros' = taros + price * n
    BY DEF VendorSell
  <1>4. items' = [items EXCEPT ![Carried(s)] = left]
    BY <1>2 DEF VendorSell
  <1>5. price \in Nat /\ Worth(stack) = price * Units(stack) /\ Units(stack) \in Nat
    BY <1>1, <1>2, WorthIs
  <1>6. Stackable(stack.item) \/ stack.opt <= 1
    <2>1. SUFFICES ASSUME ~Stackable(stack.item) PROVE stack.opt <= 1
      OBVIOUS
    <2>2. stack.item \in Item /\ FitsIn(stack)
      BY <1>1, <1>2, StackTypes DEF AllFit
    <2>3. Data(stack).stackSize <= 1 /\ Data(stack).stackSize \in Nat
      BY <2>1, <2>2, KindTypes, HalfType DEF Stackable, Data
    <2>4. Max({1, Data(stack).stackSize}) = 1
      BY <2>3, MaxOfTwo
    <2> QED
      BY <1>2, <2>2, <2>4 DEF FitsIn
  <1>7. left \in Stack /\ Worth(left) \in Nat /\ price * n \in Nat /\ Worth(left) + price * n <= Worth(stack)
    <2>0. price * n \in Nat
      BY <1>2, <1>5, ProductType
    <2>1. CASE stack.opt > n
      <3> DEFINE rest == [stack EXCEPT !.opt = stack.opt - n]
      <3>1. left = rest /\ stack.opt - n \in Nat
        BY <1>2, <2>1
      <3>2. rest \in Stack /\ rest.item = stack.item /\ rest.opt = stack.opt - n
        BY <1>1, <3>1, StackTypes
      <3> HIDE DEF rest
      <3>3. CASE Stackable(stack.item)
        <4>1. Worth(rest) = price * (stack.opt - n) /\ Worth(stack) = price * stack.opt
          BY <1>2, <1>5, <3>2, <3>3 DEF Worth, Units, Data
        <4>2. price * ((stack.opt - n) + n) = price * (stack.opt - n) + price * n
          BY <1>2, <1>5, <3>1, Products
        <4>3. (stack.opt - n) + n = stack.opt
          BY <1>2
        <4>4. Worth(rest) \in Nat
          BY <3>2, WorthIs
        <4>5. Worth(rest) + price * n = Worth(stack)
          BY <4>1, <4>2, <4>3
        <4>6. Worth(stack) \in Nat
          BY <1>1, WorthIs
        <4> HIDE DEF price, left
        <4> QED
          BY <2>0, <3>1, <3>2, <4>4, <4>5, <4>6
      <3>4. CASE ~Stackable(stack.item)
        <4>1. FALSE
          BY <1>2, <2>1, <3>4, <1>6
        <4> QED
          BY <4>1
      <3> QED
        BY <3>3, <3>4
    <2>2. CASE ~(stack.opt > n)
      <3>1. left = NoItem /\ n = stack.opt
        BY <1>2, <2>2
      <3>2. n <= Units(stack)
        BY <1>2, <1>6, <3>1 DEF Units
      <3>3. price * n <= price * Units(stack)
        BY <1>2, <1>5, <3>2, Products
      <3>4. Worth(NoItem) = 0 /\ NoItem \in Stack
        BY NothingIsWorth, StackTypes
      <3> HIDE DEF price, left
      <3> QED
        BY <1>5, <2>0, <3>1, <3>3, <3>4
    <2> QED
      BY <2>1, <2>2
  <1>8. Worth(stack) \in Nat
    BY <1>1, WorthIs
  <1> HIDE DEF price, left
  <1>9. taros' + Worth(left) <= taros + Worth(stack)
    BY <1>1, <1>3, <1>7, <1>8
  <1> QED
    BY <1>1, <1>4, <1>7, <1>9, OneTraded

LEMMA BoughtBackForFree ==
    ASSUME GoodsInv, GoodsInv', NEW i \in DOMAIN buyback, VendorBuyback(i)
    PROVE  NothingForFree
  <1> DEFINE stack == buyback[i]
             cost == Data(stack).sellPrice * Units(stack)
  <1>1. SoldOK /\ buyback \in Seq(Stack) /\ i \in 1 .. Len(buyback)
    BY GoodsParts, LenProperties DEF SoldOK
  <1>2. stack \in Stack /\ stack.item # None
    BY <1>1, ElementOfSeq DEF SoldOK
  <1>3. Worth(stack) = cost /\ cost \in Nat /\ taros \in Int
    BY <1>2, WorthIs, PurseTypes
  <1>4. CASE CanPay(cost)
    <2>1. taros' = taros - cost /\ Receive(stack) /\ FreePlaces(Inven) # {}
      BY <1>4 DEF VendorBuyback, CanPay
    <2> HIDE DEF cost
    <2>2. taros' + Worth(stack) <= taros
      BY <1>3, <2>1
    <2> QED
      BY <1>2, <2>1, <2>2, ReceivedForFree
  <1>5. CASE ~CanPay(cost)
    <2>1. items' = items /\ taros' = taros
      BY <1>5 DEF VendorBuyback
    <2> QED
      BY <1>3, <2>1 DEF NothingForFree
  <1> QED
    BY <1>4, <1>5

\* The croc pot takes two and gives one that is worth as much as the first.
LEMMA CombinedForFree ==
    ASSUME EquipmentIsSingle, GoodsInv, GoodsInv',
           NEW s \in Place, NEW t \in Place, NEW success \in BOOLEAN, Combine(s, t, success)
    PROVE  NothingForFree
  <1> DEFINE a == items[Carried(s)]
             b == items[Carried(t)]
             made == Of(a.item, LooksOf(b) * Half)
  <1>1. taros \in Int /\ Carried(s) \in Position /\ Carried(t) \in Position /\ a \in Stack /\ b \in Stack
    BY PurseTypes, Positions
  <1>2. s # t /\ <<a.item, b.item>> \in Recipe /\ taros' = taros - PotCost /\ PotCost \in Nat
    BY BelongingsAssumption DEF Combine
  <1>3. CASE success
    <2>1. items' = [items EXCEPT ![Carried(t)] = made, ![Carried(s)] = NoItem]
      BY <1>3 DEF Combine
    <2>2. a.item \in Item /\ b.item \in Item /\ ~Stackable(a.item)
      <3>1. Recipe \subseteq Item \X Item
        BY BelongingsAssumption
      <3>2. <<a.item, b.item>>[1] = a.item
        OBVIOUS
      <3> QED
        BY <1>2, <3>1, <3>2 DEF EquipmentIsSingle
    <2>3. made \in Stack /\ made.item = a.item
      BY <1>1, <2>2, LooksType, StackTypes
    <2>4. a.item # None
      BY <2>2, KindTypes
    <2> HIDE DEF made
    <2>5. Worth(made) = Worth(a)
      BY <2>2, <2>3, <2>4 DEF Worth, Units, Data
    <2>6. Worth(NoItem) = 0 /\ NoItem \in Stack /\ Worth(a) \in Nat /\ Worth(b) \in Nat
      BY <1>1, NothingIsWorth, StackTypes, WorthIs
    <2>7. taros' + Worth(made) + Worth(NoItem) <= taros + Worth(b) + Worth(a)
      BY <1>1, <1>2, <2>5, <2>6
    <2>8. Carried(t) # Carried(s)
      BY <1>2 DEF Carried
    <2> QED
      BY <1>1, <2>1, <2>3, <2>6, <2>7, <2>8, TwoTraded
  <1>4. CASE ~success
    <2>1. items' = items /\ taros' <= taros
      BY <1>1, <1>2, <1>4 DEF Combine
    <2> QED
      BY <2>1 DEF NothingForFree
  <1>5. success \/ ~success
    OBVIOUS
  <1> QED
    BY <1>3, <1>4, <1>5

\* What is out of time is worth as much as before.
LEMMA ExpiredForFree ==
    ASSUME GoodsInv, GoodsInv', NEW pos \in Position, Expire(pos)
    PROVE  NothingForFree
  <1> DEFINE old == items[pos]
             now == [old EXCEPT !.item = Expired[old.item]]
  <1>1. taros \in Int /\ taros' = taros /\ old \in Stack /\ old.item \in DOMAIN Expired
    BY PurseTypes DEF Expire
  <1>2. old.item \in Item /\ Expired[old.item] \in Item /\ ItemData[Expired[old.item]] = ItemData[old.item]
    BY <1>1, BelongingsAssumption
  <1>3. /\ now \in Stack /\ now.item = Expired[old.item] /\ now.opt = old.opt
        /\ now.item # None /\ old.item # None
    BY <1>1, <1>2, KindTypes DEF Stack
  <1>4. items' = [items EXCEPT ![pos] = now]
    BY DEF Expire
  <1> HIDE DEF now
  <1>5. Worth(now) = Worth(old)
    BY <1>2, <1>3 DEF Worth, Units, Data, Stackable
  <1>6. Worth(old) \in Nat
    BY <1>1, WorthIs
  <1>7. taros' + Worth(now) <= taros + Worth(old)
    BY <1>1, <1>5, <1>6
  <1> QED
    BY <1>3, <1>4, <1>7, OneTraded

LEMMA RelogForFree ==
    ASSUME GoodsInv, GoodsInv', Relog
    PROVE  NothingForFree
  <1>1. items \in [Position -> Stack] /\ items' \in [Position -> Stack] /\ taros \in Int /\ taros' = taros
    BY PurseTypes DEF Relog
  <1>2. ASSUME NEW pos \in Position PROVE Worth(items'[pos]) <= Worth(items[pos])
    <2>1. items'[pos] = items[pos] \/ items'[pos] = NoItem
      BY DEF Relog, Swept
    <2>2. Worth(items[pos]) \in Nat /\ Worth(NoItem) = 0
      BY <1>1, WorthIs, NothingIsWorth
    <2> QED
      BY <2>1, <2>2
  <1>3. Estate(items') <= Estate(items) /\ Estate(items) \in Int /\ Estate(items') \in Int
    BY <1>1, <1>2, EstateLess, EstateType
  <1>4. Wealth = taros + Estate(items) /\ Wealth' = taros' + Estate(items')
    BY DEF Wealth, Estate, Worth, Data, Units
  <1>5. Wealth' <= Wealth
    BY <1>1, <1>3, <1>4
  <1> QED
    BY <1>5 DEF NothingForFree

LEMMA OthersForFree ==
    ASSUME GoodsInv, items' = items, taros' = taros
    PROVE  NothingForFree
  BY PurseTypes DEF NothingForFree

LEMMA StepForFree ==
    ASSUME EquipmentIsSingle, GoodsInv, GoodsInv', AllFit, GoodsNext
    PROVE  NothingForFree
  <1>2. ASSUME NEW from \in Position, NEW to \in Position, ItemMove(from, to) PROVE NothingForFree
    BY <1>2, MovedForFree
  <1>3. ASSUME NEW s \in Place, DeleteItem(s) \/ UseCard(s) PROVE NothingForFree
    BY <1>3, UsedForFree
  <1>4. ASSUME NEW b \in Bank, OpenBank(b) PROVE NothingForFree
    BY <1>4, OthersForFree DEF OpenBank
  <1>5. ASSUME NEW s \in Place, NEW inside \in Item, OpenChest(s, inside) PROVE NothingForFree
    BY <1>5, ChestIsUncrated DEF NothingForFree
  <1>6. ASSUME NEW w \in {0, BatteryUnit}, NEW n \in {0, BatteryUnit},
               NEW loot \in DOMAIN Content \cup {None}, NEW event \in DOMAIN Content \cup {None},
               MobDrop(w, n, loot, event)
        PROVE  NothingForFree
    BY <1>6, DropIsLooted DEF NothingForFree
  <1>7. ASSUME NEW s \in Place, NEW slot \in DOMAIN NanoStyle, UseGumball(s, slot) PROVE NothingForFree
    BY <1>7, UsedForFree
  <1>8. ASSUME NEW slot \in DOMAIN NanoStyle, GumballEnds(slot) PROVE NothingForFree
    BY <1>8, OthersForFree DEF GumballEnds
  <1>9. ASSUME VehicleOn \/ VehicleOff PROVE NothingForFree
    BY <1>9, RodeForFree
  <1>10. ASSUME NEW item \in Item, NEW n \in 1 .. 2, VendorBuyItem(item, n) PROVE NothingForFree
    BY <1>10, BoughtForFree
  <1>11. ASSUME NEW s \in Place, NEW n \in {1, items[Carried(s)].opt}, VendorSell(s, n) PROVE NothingForFree
    BY <1>11, SoldForFree
  <1>12. ASSUME NEW i \in DOMAIN buyback, VendorBuyback(i) PROVE NothingForFree
    BY <1>12, BoughtBackForFree
  <1>13. ASSUME NEW weapon \in BOOLEAN, BuyBattery(1, weapon) PROVE NothingForFree
    BY <1>13, BuyBatteryKeeps DEF NothingForFree
  <1>14. ASSUME NEW s \in Place, NEW t \in Place, NEW success \in BOOLEAN, Combine(s, t, success)
         PROVE  NothingForFree
    BY <1>14, CombinedForFree
  <1>15. ASSUME NEW pos \in Position, Expire(pos) PROVE NothingForFree
    BY <1>15, ExpiredForFree
  <1>16. ASSUME Relog PROVE NothingForFree
    BY <1>16, RelogForFree
  <1> QED
    BY <1>2, <1>3, <1>4, <1>5, <1>6, <1>7, <1>8, <1>9, <1>10, <1>11, <1>12, <1>13, <1>14, <1>15, <1>16
       DEF GoodsNext

\* For any items, prices, stack sizes and recipes: whatever is moved, split, put together,
\* bought, sold, bought back, used up, combined or lost, taros and the worth of all that
\* the player owns do not grow together, but for drops and crates (itemMoveHandler,
\* vendorSell, vendorBuyback, vendorCombineItems).
THEOREM WealthIsEarned ==
    ASSUME PotTakesEquipment, EquipmentIsSingle
    PROVE  GoodsSpec => NoFreeWealth
  <1>1. GoodsInit => GoodsInv /\ StacksInv
    BY GoodsStart
  <1>2. GoodsInv /\ StacksInv /\ [GoodsNext]_goodsVars => GoodsInv' /\ StacksInv'
    BY GoodsStep
  <1>3. GoodsInv /\ StacksInv /\ GoodsInv' /\ [GoodsNext]_goodsVars => [NothingForFree]_goodsVars
    BY StepForFree DEF StacksInv
  <1> QED
    BY <1>1, <1>2, <1>3, PTL DEF GoodsSpec, NoFreeWealth

-----------------------------------------------------------------------------
(***************************************************************************)
(* Mail: the types of the mail system, and what the misplaced postage can  *)
(* cost at most.                                                           *)
(***************************************************************************)

MailInv == MailTypeOK /\ DebtBounded

-----------------------------------------------------------------------------
(***************************************************************************)
(* Postage and stacks.                                                     *)
(***************************************************************************)
LEMMA PostageGrows ==
    ASSUME NEW n \in Nat, n <= EmailSlots
    PROVE  Postage(n) \in Nat /\ Postage(n) <= Postage(EmailSlots) /\ Postage(EmailSlots) \in Nat
  <1>1. PostageBase \in Nat /\ PostageItem \in Nat /\ EmailSlots \in Nat
    BY MailAssumption
  <1>2. EmailSlots - n \in Nat /\ PostageItem * (EmailSlots - n) \in Nat
    BY <1>1
  <1>3. PostageItem * EmailSlots = PostageItem * n + PostageItem * (EmailSlots - n)
    BY <1>1
  <1>4. PostageItem * n \in Nat /\ PostageItem * EmailSlots \in Nat
    BY <1>1
  <1> QED
    BY <1>1, <1>2, <1>3, <1>4 DEF Postage

LEMMA MailStacks ==
    /\ NoItem \in Stack
    /\ \A k \in Item \cup {None}, n \in Nat : Of(k, n) \in Stack
    /\ \A stack \in Stack : stack.item \in Item \cup {None} /\ stack.opt \in Nat
  BY DEF NoItem, Of, Stack

LEMMA PickTypes == \A pick \in [slot : Place, n : 1 .. 2] : pick.slot \in Place /\ pick.n \in Nat
  OBVIOUS

\* The attachments of a request, collected slot by slot: stacks, and not more than
\* there are slots.
Collected(p, picks, all) ==
    /\ all[{}] = <<>>
    /\ \A T \in SUBSET AttSlot : T # {} =>
         /\ Max(T) \in T
         /\ all[T] = IF picks[Max(T)] = NoPick THEN all[T \ {Max(T)}]
                     ELSE Append(all[T \ {Max(T)}], Attachment(p, picks[Max(T)]))
    /\ \A T \in SUBSET AttSlot : all[T] \in Seq(Stack) /\ Len(all[T]) <= Cardinality(T)

LEMMA AttachmentsFold ==
    ASSUME MailTypeOK, NEW p \in Player, NEW picks \in Requests
    PROVE  \E all : Collected(p, picks, all) /\ Attachments(p, picks) = all[AttSlot]
  <1> DEFINE D == DOMAIN picks
             added(list, i) == IF picks[i] = NoPick THEN list ELSE Append(list, Attachment(p, picks[i]))
             step == [x \in D \X Seq(Stack) |-> added(x[2], x[1])]
             last == [T \in SUBSET D |-> Max(T)]
             Body(it) == it = [T \in SUBSET D |-> IF T = {} THEN <<>>
                                                  ELSE LET x == Max(T) IN added(it[T \ {x}], x)]
             all == CHOOSE it : Body(it)
  <1>1. EmailSlots \in Nat /\ D = 1 .. EmailSlots /\ IsFiniteSet(D) /\ Cardinality(D) = EmailSlots
    BY MailAssumption, FS_Interval DEF Requests, AttSlot
  <1>2. ASSUME NEW i \in D, NEW list \in Seq(Stack)
        PROVE  added(list, i) \in Seq(Stack) /\ Len(added(list, i)) <= Len(list) + 1
    <2>1. CASE picks[i] = NoPick
      BY <2>1, LenProperties
    <2>2. CASE picks[i] # NoPick
      <3>1. picks[i].slot \in Place /\ picks[i].n \in Nat
        BY <1>1, <2>2, PickTypes DEF Requests, AttSlot
      <3>2. Attachment(p, picks[i]) \in Stack
        BY <3>1, MailStacks DEF Attachment, MailTypeOK
      <3>3. Append(list, Attachment(p, picks[i])) \in Seq(Stack)
            /\ Len(Append(list, Attachment(p, picks[i]))) = Len(list) + 1
        BY <3>2, AppendProperties
      <3> QED
        BY <2>2, <3>3, LenProperties
    <2> QED
      BY <2>1, <2>2
  <1>3. step \in [D \X Seq(Stack) -> Seq(Stack)]
    BY <1>2
  <1>4. \A T \in SUBSET D : T # {} => last[T] \in T
    <2>1. ASSUME NEW T \in SUBSET D, T # {} PROVE Max(T) \in T
      <3>1. T \in SUBSET (0 .. EmailSlots)
        BY <1>1
      <3> QED
        BY <1>1, <2>1, <3>1, MaxIsGreatest
    <2> QED
      BY <2>1
  <1>5. \E it \in [SUBSET D -> Seq(Stack)] : IsFold(it, D, <<>>, step, last)
    <2>1. <<>> \in Seq(Stack)
      BY EmptySeq
    <2> HIDE DEF D, step, last
    <2> QED
      BY <1>1, <1>3, <1>4, <2>1, FoldExists
  <1>6. PICK it \in [SUBSET D -> Seq(Stack)] : IsFold(it, D, <<>>, step, last)
    BY <1>5
  <1>7. Body(it)
    <2>1. ASSUME NEW T \in SUBSET D, T # {}
          PROVE  step[<<last[T], it[T \ {last[T]}]>>] = added(it[T \ {Max(T)}], Max(T))
      <3>1. last[T] = Max(T) /\ Max(T) \in D /\ T \ {Max(T)} \in SUBSET D
        BY <1>4, <2>1
      <3>2. it[T \ {Max(T)}] \in Seq(Stack)
        BY <3>1
      <3> QED
        BY <3>1, <3>2
    <2> HIDE DEF step, last, added
    <2> QED
      BY <1>6, <2>1 DEF IsFold
  <1>8. Body(all)
    <2> HIDE DEF Body
    <2> QED
      BY <1>7
  <1>9. Attachments(p, picks) = all[D]
    BY DEF Attachments, FoldLeft, MapThenFoldSet
  <1>10. \A T \in SUBSET D : T # {} => Max(T) \in T
    BY <1>4
  <1> HIDE DEF all, step, last
  <1> DEFINE Good == {T \in SUBSET D : all[T] \in Seq(Stack) /\ Len(all[T]) <= Cardinality(T)}
  <1>11. {} \in Good
    <2>1. all[{}] = <<>> /\ {} \in SUBSET D
      BY <1>8
    <2>2. <<>> \in Seq(Stack) /\ Len(<<>>) = 0 /\ Cardinality({}) = 0
      BY EmptySeq, FS_EmptySet
    <2>3. all[{}] \in Seq(Stack) /\ Len(all[{}]) <= Cardinality({})
      BY <2>1, <2>2
    <2> HIDE DEF D, Body
    <2> QED
      BY <2>1, <2>3
  <1>12. ASSUME NEW T \in SUBSET D, T # {}, \A x \in T : T \ {x} \in Good
         PROVE  T \in Good
    <2> DEFINE x == Max(T)
               R == T \ {x}
    <2>1. x \in T /\ x \in D
      BY <1>10, <1>12
    <2>2. all[R] \in Seq(Stack) /\ Len(all[R]) <= Cardinality(R)
      BY <1>12, <2>1
    <2>3. all[T] = added(all[R], x)
      <3> HIDE DEF added
      <3> QED
        BY <1>8, <1>12
    <2> HIDE DEF x, added
    <2>4. all[T] \in Seq(Stack) /\ Len(all[T]) <= Len(all[R]) + 1
      BY <1>2, <2>1, <2>2, <2>3
    <2>5. IsFiniteSet(T) /\ Cardinality(T) \in Nat /\ Cardinality(R) = Cardinality(T) - 1
      BY <1>1, <2>1, FS_Subset, FS_RemoveElement, FS_CardinalityType
    <2>6. Len(all[R]) \in Nat /\ Len(all[T]) \in Nat
      BY <2>2, <2>4, LenProperties
    <2> QED
      BY <2>2, <2>4, <2>5, <2>6
  <1>13. \A T \in SUBSET D : T \in Good
    <2>1. IsFiniteSet(D)
      BY <1>1
    <2> HIDE DEF Good, D, added, Body
    <2>2. \A T \in SUBSET D : T # {} /\ (\A x \in T : T \ {x} \in Good) => T \in Good
      BY <1>12
    <2> QED
      BY <2>1, <2>2, <1>11, SubsetInduction
  <1>14. D = AttSlot /\ all[{}] = <<>>
    BY <1>1, <1>8 DEF AttSlot
  <1>15. ASSUME NEW T \in SUBSET AttSlot, T # {}
         PROVE  /\ Max(T) \in T
                /\ all[T] = IF picks[Max(T)] = NoPick THEN all[T \ {Max(T)}]
                            ELSE Append(all[T \ {Max(T)}], Attachment(p, picks[Max(T)]))
    BY <1>8, <1>10, <1>14, <1>15
  <1>16. \A T \in SUBSET AttSlot : all[T] \in Seq(Stack) /\ Len(all[T]) <= Cardinality(T)
    BY <1>13, <1>14
  <1>17. Collected(p, picks, all)
    <2> HIDE DEF Good, D, Body, added
    <2> QED
      BY <1>14, <1>15, <1>16 DEF Collected
  <1>18. Attachments(p, picks) = all[AttSlot]
    <2> HIDE DEF Body, Good
    <2> QED
      BY <1>9, <1>14
  <1> QED
    BY <1>17, <1>18

LEMMA AttachmentsType ==
    ASSUME MailTypeOK, NEW p \in Player, NEW picks \in Requests
    PROVE  Attachments(p, picks) \in Seq(Stack) /\ Len(Attachments(p, picks)) <= EmailSlots
  <1>1. PICK all : Collected(p, picks, all) /\ Attachments(p, picks) = all[AttSlot]
    BY AttachmentsFold
  <1>2. all[AttSlot] \in Seq(Stack) /\ Len(all[AttSlot]) <= Cardinality(AttSlot)
    BY <1>1 DEF Collected
  <1>3. Cardinality(AttSlot) = EmailSlots
    BY MailAssumption, FS_Interval DEF AttSlot
  <1> QED
    BY <1>1, <1>2, <1>3

\* What a whole mail is unpacked to, slot by slot: an inventory again.
FilledUp(inv, stacks, all) ==
    /\ all[{}] = inv
    /\ \A T \in SUBSET AttSlot : T # {} =>
         /\ Max(T) \in T
         /\ all[T] = IF FreePlaces(all[T \ {Max(T)}]) = {} THEN all[T \ {Max(T)}]
                     ELSE PutFirst(all[T \ {Max(T)}], stacks[Max(T)])
    /\ \A T \in SUBSET AttSlot : all[T] \in [Place -> Stack]

LEMMA UnpackedFold ==
    ASSUME NEW inv \in [Place -> Stack], NEW stacks \in [AttSlot -> Stack]
    PROVE  \E all : FilledUp(inv, stacks, all) /\ Unpacked(inv, stacks) = all[AttSlot]
  <1> DEFINE D == DOMAIN stacks
             Bag == [Place -> Stack]
             added(to, i) == IF FreePlaces(to) = {} THEN to ELSE PutFirst(to, stacks[i])
             step == [x \in D \X Bag |-> added(x[2], x[1])]
             last == [T \in SUBSET D |-> Max(T)]
             Body(it) == it = [T \in SUBSET D |-> IF T = {} THEN inv
                                                  ELSE LET x == Max(T) IN added(it[T \ {x}], x)]
             all == CHOOSE it : Body(it)
  <1>1. EmailSlots \in Nat /\ D = 1 .. EmailSlots /\ IsFiniteSet(D)
    BY MailAssumption, FS_Interval DEF AttSlot
  <1>2. ASSUME NEW i \in D, NEW to \in Bag PROVE added(to, i) \in Bag
    BY <1>1 DEF PutFirst, AttSlot
  <1>3. step \in [D \X Bag -> Bag]
    <2> HIDE DEF added, Bag, D
    <2> QED
      BY <1>2
  <1>4. ASSUME NEW T \in SUBSET D, T # {} PROVE Max(T) \in T
    <2>1. T \in SUBSET (0 .. EmailSlots)
      BY <1>1
    <2> QED
      BY <1>1, <1>4, <2>1, MaxIsGreatest
  <1>5. \A T \in SUBSET D : T # {} => last[T] \in T
    BY <1>4
  <1>6. inv \in Bag
    OBVIOUS
  <1>7. \E it \in [SUBSET D -> Bag] : IsFold(it, D, inv, step, last)
    <2> HIDE DEF D, step, last, Bag
    <2> QED
      BY <1>1, <1>3, <1>5, <1>6, FoldExists
  <1>8. PICK it \in [SUBSET D -> Bag] : IsFold(it, D, inv, step, last)
    BY <1>7
  <1>9. Body(it)
    <2>1. ASSUME NEW T \in SUBSET D, T # {}
          PROVE  step[<<last[T], it[T \ {last[T]}]>>] = added(it[T \ {Max(T)}], Max(T))
      <3>1. last[T] = Max(T) /\ Max(T) \in D /\ T \ {Max(T)} \in SUBSET D
        BY <1>4, <2>1
      <3>2. it[T \ {Max(T)}] \in Bag
        BY <3>1
      <3> HIDE DEF added, Bag
      <3> QED
        BY <3>1, <3>2
    <2> HIDE DEF step, last, added
    <2> QED
      BY <1>8, <2>1 DEF IsFold
  <1>10. Body(all)
    <2> HIDE DEF Body
    <2> QED
      BY <1>9
  <1>11. Unpacked(inv, stacks) = all[D]
    BY DEF Unpacked, FoldLeft, MapThenFoldSet
  <1> HIDE DEF all, step, last, Bag, added
  <1> DEFINE Good == {T \in SUBSET D : all[T] \in Bag}
  <1>12. {} \in Good
    <2>1. all[{}] = inv /\ {} \in SUBSET D
      BY <1>10
    <2> HIDE DEF D, Body
    <2> QED
      BY <1>6, <2>1
  <1>13. ASSUME NEW T \in SUBSET D, T # {}, \A x \in T : T \ {x} \in Good
         PROVE  T \in Good
    <2>1. Max(T) \in T /\ Max(T) \in D
      BY <1>4, <1>13
    <2>2. all[T \ {Max(T)}] \in Bag
      BY <1>13, <2>1
    <2>3. all[T] = added(all[T \ {Max(T)}], Max(T))
      BY <1>10, <1>13
    <2>4. all[T] \in Bag
      BY <1>2, <2>1, <2>2, <2>3
    <2> HIDE DEF D, Body
    <2> QED
      BY <2>4
  <1>14. \A T \in SUBSET D : T \in Good
    <2>1. IsFiniteSet(D)
      BY <1>1
    <2> HIDE DEF Good, D, Body
    <2>2. \A T \in SUBSET D : T # {} /\ (\A x \in T : T \ {x} \in Good) => T \in Good
      BY <1>13
    <2> QED
      BY <2>1, <2>2, <1>12, SubsetInduction
  <1>15. D = AttSlot /\ all[{}] = inv
    BY <1>1, <1>10 DEF AttSlot
  <1>16. ASSUME NEW T \in SUBSET AttSlot, T # {}
         PROVE  /\ Max(T) \in T
                /\ all[T] = IF FreePlaces(all[T \ {Max(T)}]) = {} THEN all[T \ {Max(T)}]
                            ELSE PutFirst(all[T \ {Max(T)}], stacks[Max(T)])
    <2>1. Max(T) \in T
      BY <1>4, <1>15, <1>16
    <2>2. all[T] = added(all[T \ {Max(T)}], Max(T))
      <3> HIDE DEF added
      <3> QED
        BY <1>10, <1>15, <1>16
    <2> QED
      BY <2>1, <2>2 DEF added
  <1>17. \A T \in SUBSET AttSlot : all[T] \in [Place -> Stack]
    BY <1>14, <1>15 DEF Bag
  <1>18. FilledUp(inv, stacks, all)
    <2> HIDE DEF Good, D, Body
    <2> QED
      BY <1>15, <1>16, <1>17 DEF FilledUp
  <1>19. Unpacked(inv, stacks) = all[AttSlot]
    <2> HIDE DEF Body, Good
    <2> QED
      BY <1>11, <1>15
  <1> QED
    BY <1>18, <1>19

LEMMA UnpackedType ==
    ASSUME NEW inv \in [Place -> Stack], NEW stacks \in [AttSlot -> Stack]
    PROVE  Unpacked(inv, stacks) \in [Place -> Stack]
  <1>1. PICK all : FilledUp(inv, stacks, all) /\ Unpacked(inv, stacks) = all[AttSlot]
    BY UnpackedFold
  <1> QED
    BY <1>1 DEF FilledUp

-----------------------------------------------------------------------------
(***************************************************************************)
(* The actions.                                                            *)
(***************************************************************************)
LEMMA ListedExist ==
    ASSUME NEW p \in Player, NEW i \in Listed(p)
    PROVE  i \in Exists(p) /\ i \in Index /\ mails[p][i] # NoMail
  BY DEF Listed, Page, Exists

LEMMA MailTypes ==
    ASSUME MailTypeOK, NEW p \in Player
    PROVE  /\ money[p] \in Int /\ inven[p] \in [Place -> Stack]
           /\ \A i \in Index : attached[p][i] \in [AttSlot -> Stack]
           /\ \A i \in Listed(p) : i \in Index /\ mails[p][i] \in EmailData /\ mails[p][i].Taros \in Nat
           /\ \A i \in Listed(p), mail \in EmailData : Updated(p, i, mail) \in EmailData
  <1>1. \A i \in Listed(p) : i \in Index /\ mails[p][i] \in EmailData
    BY ListedExist DEF MailTypeOK
  <1>2. \A i \in Listed(p), mail \in EmailData : Updated(p, i, mail) \in EmailData
    <2>1. ASSUME NEW i \in Listed(p), NEW mail \in EmailData PROVE Updated(p, i, mail) \in EmailData
      <3>1. (mail.Taros > 0 \/ \E k \in AttSlot : attached[p][i][k] # NoItem) \in BOOLEAN
        BY Zenon
      <3> QED
        BY <3>1 DEF Updated, EmailData
    <2> QED
      BY <2>1
  <1>3. \A mail \in EmailData : mail.Taros \in Nat
    BY DEF EmailData
  <1> QED
    BY <1>1, <1>2, <1>3 DEF MailTypeOK

LEMMA ReadKeeps ==
    ASSUME MailInv, NEW p \in Player, NEW i \in Index, EmailRead(p, i)
    PROVE  MailInv'
  <1>1. i \in Listed(p) /\ mails[p][i] \in EmailData
    BY MailTypes DEF EmailRead, MailInv
  <1>2. [mails[p][i] EXCEPT !.ReadFlag = TRUE] \in EmailData
    BY <1>1 DEF EmailData
  <1>3. Updated(p, i, [mails[p][i] EXCEPT !.ReadFlag = TRUE]) \in EmailData
    BY <1>1, <1>2, MailTypes DEF MailInv
  <1>4. mails' \in [Player -> [Index -> EmailData \cup {NoMail}]]
    BY <1>3 DEF EmailRead, MailInv, MailTypeOK
  <1> QED
    BY <1>4 DEF EmailRead, MailInv, MailTypeOK, DebtBounded

LEMMA ReceiveTarosKeeps ==
    ASSUME MailInv, NEW p \in Player, NEW i \in Index, EmailReceiveTaros(p, i)
    PROVE  MailInv'
  <1>1. i \in Listed(p) /\ mails[p][i] \in EmailData /\ mails[p][i].Taros \in Nat /\ money[p] \in Int
    BY MailTypes DEF EmailReceiveTaros, MailInv
  <1>2. Emptied(mails[p][i]) \in EmailData
    BY <1>1 DEF EmailData, Emptied
  <1>3. Updated(p, i, Emptied(mails[p][i])) \in EmailData
    BY <1>1, <1>2, MailTypes DEF MailInv
  <1>4. mails' \in [Player -> [Index -> EmailData \cup {NoMail}]]
    BY <1>3 DEF EmailReceiveTaros, MailInv, MailTypeOK
  <1>5. /\ money' \in [Player -> Int]
        /\ \A q \in Player : money'[q] = IF q = p THEN money[p] + mails[p][i].Taros ELSE money[q]
    BY <1>1 DEF EmailReceiveTaros, MailInv, MailTypeOK
  <1>6. DebtBounded'
    <2>1. ASSUME NEW q \in Player PROVE money'[q] >= -2 * Postage(EmailSlots)
      <3>1. money[q] >= -2 * Postage(EmailSlots) /\ money[q] \in Int
        BY DEF MailInv, DebtBounded, MailTypeOK
      <3>2. EmailSlots \in Nat /\ Postage(EmailSlots) \in Nat
        BY PostageGrows, MailAssumption
      <3> QED
        BY <1>1, <1>5, <3>1, <3>2
    <2> QED
      BY <2>1 DEF DebtBounded
  <1> QED
    BY <1>4, <1>5, <1>6 DEF EmailReceiveTaros, MailInv, MailTypeOK

LEMMA ReceiveItemsKeeps ==
    ASSUME MailInv, NEW p \in Player, NEW i \in Index,
           EmailReceiveItemAll(p, i) \/ \E k \in AttSlot, s \in Place : EmailReceiveItemSingle(p, i, k, s)
    PROVE  MailInv'
  <1>1. inven[p] \in [Place -> Stack] /\ attached[p][i] \in [AttSlot -> Stack]
    BY MailTypes DEF MailInv
  <1>2. UNCHANGED <<money, mails>> /\ attached' = AllDeleted(p, i)
    BY DEF EmailReceiveItemAll, EmailReceiveItemSingle, SlotDeleted, AllDeleted
  <1>3. attached' \in [Player -> [Index -> [AttSlot -> Stack]]]
    BY <1>2, MailStacks DEF AllDeleted, MailInv, MailTypeOK
  <1>4. inven' \in [Player -> [Place -> Stack]]
    <2>1. CASE EmailReceiveItemAll(p, i)
      BY <1>1, <2>1, UnpackedType DEF EmailReceiveItemAll, MailInv, MailTypeOK
    <2>2. CASE \E k \in AttSlot, s \in Place : EmailReceiveItemSingle(p, i, k, s)
      BY <1>1, <2>2 DEF EmailReceiveItemSingle, MailInv, MailTypeOK
    <2> QED
      BY <2>1, <2>2
  <1> QED
    BY <1>2, <1>3, <1>4 DEF MailInv, MailTypeOK, DebtBounded

LEMMA EmailDeleteKeeps ==
    ASSUME MailInv, NEW p \in Player, NEW indices \in SUBSET Index, EmailDelete(p, indices)
    PROVE  MailInv'
  <1>1. mails' \in [Player -> [Index -> EmailData \cup {NoMail}]]
    BY DEF EmailDelete, MailInv, MailTypeOK
  <1> QED
    BY <1>1 DEF EmailDelete, MailInv, MailTypeOK, DebtBounded

\* What has been picked is in the inventory.
LEMMA ChosenTypes ==
    ASSUME MailTypeOK, NEW p \in Player, NEW picks \in Requests
    PROVE  /\ \A k \in Chosen(picks) : Attachment(p, picks[k]) \in Stack
           /\ Cardinality(Chosen(picks)) \in Nat /\ Cardinality(Chosen(picks)) <= EmailSlots
  <1>1. ASSUME NEW k \in Chosen(picks) PROVE Attachment(p, picks[k]) \in Stack
    <2>1. picks[k].slot \in Place /\ picks[k].n \in Nat
      BY PickTypes DEF Requests, Chosen
    <2> QED
      BY <2>1, MailStacks DEF Attachment, MailTypeOK
  <1>2. IsFiniteSet(AttSlot) /\ Cardinality(AttSlot) = EmailSlots
    BY FS_Interval, MailAssumption DEF AttSlot
  <1>3. Chosen(picks) \subseteq AttSlot
    BY DEF Chosen
  <1> QED
    BY <1>1, <1>2, <1>3, FS_Subset, FS_CardinalityType

LEMMA EmailSendFailKeeps ==
    ASSUME MailInv, NEW p \in Player, NEW to \in Player \cup {None}, NEW cash \in 0 .. MaxCash,
           NEW picks \in Requests, EmailSendFail(p, to, cash, picks)
    PROVE  MailInv'
  <1>1. \A k \in Chosen(picks) : Attachment(p, picks[k]) \in Stack
    BY ChosenTypes DEF MailInv
  <1>2. inven[p] \in [Place -> Stack]
    BY DEF MailInv, MailTypeOK
  <1>3. ASSUME NEW s \in Slots(picks)
        PROVE  (CHOOSE k \in Chosen(picks) : picks[k].slot = s) \in Chosen(picks)
    <2>1. \E k \in Chosen(picks) : picks[k].slot = s
      BY DEF Slots
    <2> QED
      BY <2>1
  <1>4. GivenBack(p, inven[p], picks) \in [Place -> Stack]
    BY <1>1, <1>2, <1>3 DEF GivenBack
  <1>5. inven' \in [Player -> [Place -> Stack]]
    BY <1>4 DEF EmailSendFail, MailInv, MailTypeOK
  <1> QED
    BY <1>5 DEF EmailSendFail, MailInv, MailTypeOK, DebtBounded

LEMMA EmailSendKeeps ==
    ASSUME MailInv, NEW p \in Player, NEW to \in Player \cup {None}, NEW cash \in 0 .. MaxCash,
           NEW picks \in Requests, EmailSend(p, to, cash, picks)
    PROVE  MailInv'
  <1> DEFINE stacks == Attachments(p, picks)
             i == NextEmailIndex(to)
             mail == [Taros |-> cash, ReadFlag |-> FALSE, ItemFlag |-> cash > 0 \/ stacks # <<>>]
             n == Cardinality(Chosen(picks))
  <1>1. to \in Player /\ i \in Index /\ cash \in Nat /\ money[p] \in Int
    BY MailAssumption DEF EmailSend, CanSend, MailInv, MailTypeOK
  <1>2. stacks \in Seq(Stack) /\ Len(stacks) \in Nat /\ Len(stacks) <= EmailSlots
    BY AttachmentsType, LenProperties DEF MailInv
  <1>3. n \in Nat /\ n <= EmailSlots
    BY ChosenTypes DEF MailInv
  <1>4. mail \in EmailData
    <2>1. (cash > 0 \/ stacks # <<>>) \in BOOLEAN
      BY Zenon
    <2> QED
      BY <1>1, <2>1 DEF EmailData
  <1>5. Rows(to, i, stacks) \in [AttSlot -> Stack]
    <2>1. ASSUME NEW k \in AttSlot PROVE (IF k <= Len(stacks) THEN stacks[k] ELSE attached[to][i][k]) \in Stack
      <3>1. CASE k <= Len(stacks)
        <4>1. k \in 1 .. Len(stacks)
          BY <1>2, <3>1 DEF AttSlot
        <4> QED
          BY <1>2, <3>1, <4>1, ElementOfSeq
      <3>2. CASE ~(k <= Len(stacks))
        BY <1>1, <3>2 DEF MailInv, MailTypeOK
      <3> QED
        BY <3>1, <3>2
    <2> QED
      BY <2>1 DEF Rows
  <1>6. /\ money' = [money EXCEPT ![p] = money[p] - cash - Postage(Len(stacks))]
        /\ inven' = [inven EXCEPT ![p] = Taken(inven[p], Slots(picks))]
        /\ mails' = [mails EXCEPT ![to][i] = mail]
        /\ attached' = [attached EXCEPT ![to][i] = Rows(to, i, stacks)]
        /\ cash <= money[p] + Postage(n)
    BY DEF EmailSend, CanSend, CashFits, MailInv, MailTypeOK
  <1> HIDE DEF stacks, i, mail, n
  <1>7. mails' \in [Player -> [Index -> EmailData \cup {NoMail}]]
    BY <1>1, <1>4, <1>6 DEF MailInv, MailTypeOK
  <1>8. attached' \in [Player -> [Index -> [AttSlot -> Stack]]]
    BY <1>1, <1>5, <1>6 DEF MailInv, MailTypeOK
  <1>9. inven' \in [Player -> [Place -> Stack]]
    <2>1. Taken(inven[p], Slots(picks)) \in [Place -> Stack]
      BY MailStacks DEF Taken, MailInv, MailTypeOK
    <2> QED
      BY <1>6, <2>1 DEF MailInv, MailTypeOK
  <1>10. /\ Postage(n) \in Nat /\ Postage(n) <= Postage(EmailSlots)
         /\ Postage(Len(stacks)) \in Nat /\ Postage(Len(stacks)) <= Postage(EmailSlots)
         /\ Postage(EmailSlots) \in Nat
    BY <1>2, <1>3, PostageGrows
  <1>11. /\ money' \in [Player -> Int]
         /\ \A q \in Player : money'[q] = IF q = p THEN money[p] - cash - Postage(Len(stacks)) ELSE money[q]
    <2>1. money[p] - cash - Postage(Len(stacks)) \in Int
      BY <1>1, <1>10
    <2> QED
      BY <1>6, <2>1 DEF MailInv, MailTypeOK
  <1>12. DebtBounded'
    <2>1. ASSUME NEW q \in Player PROVE money'[q] >= -2 * Postage(EmailSlots)
      <3>1. money[q] >= -2 * Postage(EmailSlots) /\ money[q] \in Int
        BY DEF MailInv, DebtBounded, MailTypeOK
      <3> QED
        BY <1>1, <1>6, <1>10, <1>11, <3>1
    <2> QED
      BY <2>1 DEF DebtBounded
  <1> QED
    BY <1>7, <1>8, <1>9, <1>11, <1>12 DEF MailInv, MailTypeOK

-----------------------------------------------------------------------------
(***************************************************************************)
(* The specification.                                                      *)
(***************************************************************************)
LEMMA MailStart == MailInit => MailInv
  <1> SUFFICES ASSUME MailInit PROVE MailInv
    OBVIOUS
  <1>1. MailTypeOK
    BY MailAssumption, MailStacks DEF MailInit, MailTypeOK
  <1>2. DebtBounded
    <2>1. ASSUME NEW p \in Player PROVE money[p] >= -2 * Postage(EmailSlots)
      <3>1. money[p] \in Nat /\ Postage(EmailSlots) \in Nat
        BY PostageGrows, MailAssumption DEF MailInit
      <3> QED
        BY <3>1
    <2> QED
      BY <2>1 DEF DebtBounded
  <1> QED
    BY <1>1, <1>2 DEF MailInv

LEMMA MailStep ==
    ASSUME MailInv, [MailNext]_mailVars
    PROVE  MailInv'
  <1>1. CASE UNCHANGED mailVars
    BY <1>1 DEF mailVars, MailInv, MailTypeOK, DebtBounded
  <1>2. CASE MailNext
    <2>1. PICK p \in Player :
            \/ \E to \in Player \cup {None}, cash \in 0 .. MaxCash, picks \in Requests :
                 EmailSend(p, to, cash, picks) \/ EmailSendFail(p, to, cash, picks)
            \/ \E i \in Index :
                 \/ EmailRead(p, i) \/ EmailReceiveTaros(p, i) \/ EmailReceiveItemAll(p, i)
                 \/ \E k \in AttSlot, s \in Place : EmailReceiveItemSingle(p, i, k, s)
            \/ \E indices \in SUBSET Index : EmailDelete(p, indices)
      BY <1>2 DEF MailNext
    <2>2. CASE \E to \in Player \cup {None}, cash \in 0 .. MaxCash, picks \in Requests :
                 EmailSend(p, to, cash, picks) \/ EmailSendFail(p, to, cash, picks)
      BY <2>2, EmailSendKeeps, EmailSendFailKeeps
    <2>3. CASE \E i \in Index :
                 \/ EmailRead(p, i) \/ EmailReceiveTaros(p, i) \/ EmailReceiveItemAll(p, i)
                 \/ \E k \in AttSlot, s \in Place : EmailReceiveItemSingle(p, i, k, s)
      BY <2>3, ReadKeeps, ReceiveTarosKeeps, ReceiveItemsKeeps
    <2>4. CASE \E indices \in SUBSET Index : EmailDelete(p, indices)
      BY <2>4, EmailDeleteKeeps
    <2> QED
      BY <2>1, <2>2, <2>3, <2>4
  <1> QED
    BY <1>1, <1>2

\* The types of the mail system, attachments in their rows included, through
\* everything that is sent, returned and unpacked (Email.cpp, db/email.cpp).
THEOREM MailTyping == MailSpec => []MailTypeOK
  <1>1. MailInv => MailTypeOK
    BY DEF MailInv
  <1> QED
    BY <1>1, MailStart, MailStep, PTL DEF MailSpec

\* Nobody owes more than twice the largest postage, though the check counts the
\* postage to what the sender has (Email.cpp:243).
THEOREM MailDebtBounded == MailSpec => []DebtBounded
  <1>1. MailInv => DebtBounded
    BY DEF MailInv
  <1> QED
    BY <1>1, MailStart, MailStep, PTL DEF MailSpec

-----------------------------------------------------------------------------
(***************************************************************************)
(* Mail makes nothing: sums of taros.                                      *)
(***************************************************************************)
Box == [Index -> EmailData \cup {NoMail}]

LEMMA MailSets ==
    IsFiniteSet(Player) /\ IsFiniteSet(Index) /\ IsFiniteSet(AttSlot) /\ IsFiniteSet(Place)
  BY MailAssumption, FS_Interval DEF Index, AttSlot, Place

LEMMA CashType ==
    /\ Cash(NoMail) = 0
    /\ \A mail \in EmailData : mail # NoMail /\ Cash(mail) = mail.Taros /\ Cash(mail) \in Nat
  BY DEF Cash, EmailData, NoMail

Cashes(box) == [i \in Index |-> Cash(box[i])]

LEMMA CashesType ==
    ASSUME NEW box \in Box
    PROVE  Cashes(box) \in [Index -> Int] /\ Enclosed(box) = SumFunction(Cashes(box)) /\ Enclosed(box) \in Int
  <1>1. Cashes(box) \in [Index -> Nat]
    BY CashType DEF Cashes, Box
  <1>2. SumFunction(Cashes(box)) \in Nat
    BY <1>1, MailSets, SumOfNats
  <1> QED
    BY <1>1, <1>2 DEF Enclosed, Cashes

\* One mail changes.
LEMMA EnclosedChange ==
    ASSUME NEW box \in Box, NEW now \in Box, NEW i \in Index, DiffersAt(box, now, Index, i)
    PROVE  Enclosed(now) = Enclosed(box) - Cash(box[i]) + Cash(now[i])
  <1>1. DiffersAt(Cashes(box), Cashes(now), Index, i)
    BY DEF DiffersAt, Cashes
  <1>2. SumFunction(Cashes(now)) = SumFunction(Cashes(box)) - Cashes(box)[i] + Cashes(now)[i]
    BY <1>1, CashesType, MailSets, SumAt
  <1>3. Cashes(box)[i] = Cash(box[i]) /\ Cashes(now)[i] = Cash(now[i])
    BY DEF Cashes
  <1> QED
    BY <1>2, <1>3, CashesType

Totals(purses, boxes) == [p \in Player |-> purses[p] + Enclosed(boxes[p])]

LEMMA TotalsType ==
    ASSUME NEW purses \in [Player -> Int], NEW boxes \in [Player -> Box]
    PROVE  Totals(purses, boxes) \in [Player -> Int] /\ TarosOf(purses, boxes) = SumFunction(Totals(purses, boxes))
  <1>1. \A p \in Player : purses[p] \in Int /\ Enclosed(boxes[p]) \in Int
    BY CashesType
  <1> QED
    BY <1>1 DEF Totals, TarosOf

\* Taros go from a purse to a mailbox or back.
LEMMA TarosMove ==
    ASSUME NEW purses \in [Player -> Int], NEW purses2 \in [Player -> Int],
           NEW boxes \in [Player -> Box], NEW boxes2 \in [Player -> Box],
           NEW p \in Player, NEW q \in Player,
           DiffersAt(purses, purses2, Player, p), DiffersAt(boxes, boxes2, Player, q),
           purses2[p] + Enclosed(boxes2[q]) <= purses[p] + Enclosed(boxes[q])
    PROVE  TarosOf(purses2, boxes2) <= TarosOf(purses, boxes)
  <1> DEFINE f == Totals(purses, boxes)
             g == Totals(purses2, boxes)
             h == Totals(purses2, boxes2)
  <1>1. f \in [Player -> Int] /\ g \in [Player -> Int] /\ h \in [Player -> Int]
    BY TotalsType
  <1>2. DiffersAt(f, g, Player, p)
    BY DEF DiffersAt, Totals
  <1>3. DiffersAt(g, h, Player, q)
    BY DEF DiffersAt, Totals
  <1>4. f[p] = purses[p] + Enclosed(boxes[p]) /\ g[p] = purses2[p] + Enclosed(boxes[p])
    BY DEF Totals
  <1>5. g[q] = purses2[q] + Enclosed(boxes[q]) /\ h[q] = purses2[q] + Enclosed(boxes2[q])
    BY DEF Totals
  <1>6. /\ purses[p] \in Int /\ purses2[p] \in Int /\ purses2[q] \in Int
        /\ Enclosed(boxes[p]) \in Int /\ Enclosed(boxes[q]) \in Int /\ Enclosed(boxes2[q]) \in Int
    BY CashesType
  <1>7. TarosOf(purses, boxes) = SumFunction(f) /\ TarosOf(purses2, boxes2) = SumFunction(h)
    BY TotalsType
  <1> HIDE DEF f, g, h
  <1>8. SumFunction(g) = SumFunction(f) - f[p] + g[p] /\ SumFunction(f) \in Int /\ SumFunction(g) \in Int
    BY <1>1, <1>2, MailSets, SumAt
  <1>9. SumFunction(h) = SumFunction(g) - g[q] + h[q] /\ SumFunction(h) \in Int
    BY <1>1, <1>3, MailSets, SumAt
  <1>10. g[p] - f[p] = purses2[p] - purses[p] /\ h[q] - g[q] = Enclosed(boxes2[q]) - Enclosed(boxes[q])
    BY <1>4, <1>5, <1>6
  <1>11. f[p] \in Int /\ g[p] \in Int /\ g[q] \in Int /\ h[q] \in Int
    BY <1>1
  <1> QED
    BY <1>6, <1>7, <1>8, <1>9, <1>10, <1>11

-----------------------------------------------------------------------------
(***************************************************************************)
(* Sums of items.                                                          *)
(***************************************************************************)
Bag == [Place -> Stack]
MailRow == [AttSlot -> Stack]
Table == [Index -> MailRow]

LEMMA CountIs ==
    ASSUME NEW item \in Item, NEW stack \in Stack
    PROVE  Count(stack, item) \in Nat /\ Count(NoItem, item) = 0
  BY MailStacks DEF Count, NoItem

BagCounts(inv, item) == [s \in Place |-> Count(inv[s], item)]
RowCounts(row, item) == [k \in AttSlot |-> Count(row[k], item)]
TableCounts(rows, item) == [i \in Index |-> InMail(rows[i], item)]

LEMMA BagCountsType ==
    ASSUME NEW item \in Item, NEW inv \in Bag
    PROVE  /\ BagCounts(inv, item) \in [Place -> Int]
           /\ Held(inv, item) = SumFunction(BagCounts(inv, item)) /\ Held(inv, item) \in Nat
  <1>1. BagCounts(inv, item) \in [Place -> Nat]
    BY CountIs DEF BagCounts, Bag
  <1>2. SumFunction(BagCounts(inv, item)) \in Nat
    BY <1>1, MailSets, SumOfNats
  <1> QED
    BY <1>1, <1>2 DEF Held, BagCounts

LEMMA RowCountsType ==
    ASSUME NEW item \in Item, NEW row \in MailRow
    PROVE  /\ RowCounts(row, item) \in [AttSlot -> Int]
           /\ InMail(row, item) = SumFunction(RowCounts(row, item)) /\ InMail(row, item) \in Nat
           /\ \A k \in AttSlot : Count(row[k], item) <= InMail(row, item)
  <1>1. RowCounts(row, item) \in [AttSlot -> Nat]
    BY CountIs DEF RowCounts, MailRow
  <1>2. /\ SumFunction(RowCounts(row, item)) \in Nat
        /\ \A k \in AttSlot : RowCounts(row, item)[k] <= SumFunction(RowCounts(row, item))
    BY <1>1, MailSets, SumOfNats
  <1>3. \A k \in AttSlot : RowCounts(row, item)[k] = Count(row[k], item)
    BY DEF RowCounts
  <1>4. InMail(row, item) = SumFunction(RowCounts(row, item))
    BY DEF InMail, RowCounts
  <1> QED
    BY <1>1, <1>2, <1>3, <1>4

LEMMA TableCountsType ==
    ASSUME NEW item \in Item, NEW rows \in Table
    PROVE  /\ TableCounts(rows, item) \in [Index -> Int]
           /\ Sent(rows, item) = SumFunction(TableCounts(rows, item)) /\ Sent(rows, item) \in Int
  <1>1. TableCounts(rows, item) \in [Index -> Nat]
    BY RowCountsType DEF TableCounts, Table
  <1>2. SumFunction(TableCounts(rows, item)) \in Nat
    BY <1>1, MailSets, SumOfNats
  <1> QED
    BY <1>1, <1>2 DEF Sent, TableCounts

\* One place, and one mail's rows, change.
LEMMA HeldChange ==
    ASSUME NEW item \in Item, NEW inv \in Bag, NEW now \in Bag, NEW s \in Place, DiffersAt(inv, now, Place, s)
    PROVE  Held(now, item) = Held(inv, item) - Count(inv[s], item) + Count(now[s], item)
  <1>1. DiffersAt(BagCounts(inv, item), BagCounts(now, item), Place, s)
    BY DEF DiffersAt, BagCounts
  <1>2. SumFunction(BagCounts(now, item))
          = SumFunction(BagCounts(inv, item)) - BagCounts(inv, item)[s] + BagCounts(now, item)[s]
    BY <1>1, BagCountsType, MailSets, SumAt
  <1>3. BagCounts(inv, item)[s] = Count(inv[s], item) /\ BagCounts(now, item)[s] = Count(now[s], item)
    BY DEF BagCounts
  <1> QED
    BY <1>2, <1>3, BagCountsType

LEMMA SentChange ==
    ASSUME NEW item \in Item, NEW rows \in Table, NEW now \in Table, NEW i \in Index,
           DiffersAt(rows, now, Index, i)
    PROVE  Sent(now, item) = Sent(rows, item) - InMail(rows[i], item) + InMail(now[i], item)
  <1>1. DiffersAt(TableCounts(rows, item), TableCounts(now, item), Index, i)
    BY DEF DiffersAt, TableCounts
  <1>2. SumFunction(TableCounts(now, item))
          = SumFunction(TableCounts(rows, item)) - TableCounts(rows, item)[i] + TableCounts(now, item)[i]
    BY <1>1, TableCountsType, MailSets, SumAt
  <1>3. TableCounts(rows, item)[i] = InMail(rows[i], item) /\ TableCounts(now, item)[i] = InMail(now[i], item)
    BY DEF TableCounts
  <1> QED
    BY <1>2, <1>3, TableCountsType

Belonging(bags, tables, item) == [p \in Player |-> Held(bags[p], item) + Sent(tables[p], item)]

LEMMA BelongingType ==
    ASSUME NEW item \in Item, NEW bags \in [Player -> Bag], NEW tables \in [Player -> Table]
    PROVE  /\ Belonging(bags, tables, item) \in [Player -> Int]
           /\ ItemsOf(bags, tables, item) = SumFunction(Belonging(bags, tables, item))
  <1>1. \A p \in Player : Held(bags[p], item) \in Int /\ Sent(tables[p], item) \in Int
    BY BagCountsType, TableCountsType
  <1> QED
    BY <1>1 DEF Belonging, ItemsOf

\* Items go from an inventory to the rows of a mail or back.
LEMMA ItemsMove ==
    ASSUME NEW item \in Item, NEW bags \in [Player -> Bag], NEW bags2 \in [Player -> Bag],
           NEW tables \in [Player -> Table], NEW tables2 \in [Player -> Table],
           NEW p \in Player, NEW q \in Player,
           DiffersAt(bags, bags2, Player, p), DiffersAt(tables, tables2, Player, q),
           Held(bags2[p], item) + Sent(tables2[q], item) <= Held(bags[p], item) + Sent(tables[q], item)
    PROVE  ItemsOf(bags2, tables2, item) <= ItemsOf(bags, tables, item)
  <1> DEFINE f == Belonging(bags, tables, item)
             g == Belonging(bags2, tables, item)
             h == Belonging(bags2, tables2, item)
  <1>1. f \in [Player -> Int] /\ g \in [Player -> Int] /\ h \in [Player -> Int]
    BY BelongingType
  <1>2. DiffersAt(f, g, Player, p)
    BY DEF DiffersAt, Belonging
  <1>3. DiffersAt(g, h, Player, q)
    BY DEF DiffersAt, Belonging
  <1>4. f[p] = Held(bags[p], item) + Sent(tables[p], item) /\ g[p] = Held(bags2[p], item) + Sent(tables[p], item)
    BY DEF Belonging
  <1>5. g[q] = Held(bags2[q], item) + Sent(tables[q], item) /\ h[q] = Held(bags2[q], item) + Sent(tables2[q], item)
    BY DEF Belonging
  <1>6. /\ Held(bags[p], item) \in Int /\ Held(bags2[p], item) \in Int /\ Held(bags2[q], item) \in Int
        /\ Sent(tables[p], item) \in Int /\ Sent(tables[q], item) \in Int /\ Sent(tables2[q], item) \in Int
    BY BagCountsType, TableCountsType
  <1>7. ItemsOf(bags, tables, item) = SumFunction(f) /\ ItemsOf(bags2, tables2, item) = SumFunction(h)
    BY BelongingType
  <1> HIDE DEF f, g, h
  <1>8. SumFunction(g) = SumFunction(f) - f[p] + g[p] /\ SumFunction(f) \in Int /\ SumFunction(g) \in Int
    BY <1>1, <1>2, MailSets, SumAt
  <1>9. SumFunction(h) = SumFunction(g) - g[q] + h[q] /\ SumFunction(h) \in Int
    BY <1>1, <1>3, MailSets, SumAt
  <1>10. /\ g[p] - f[p] = Held(bags2[p], item) - Held(bags[p], item)
         /\ h[q] - g[q] = Sent(tables2[q], item) - Sent(tables[q], item)
    BY <1>4, <1>5, <1>6
  <1>11. f[p] \in Int /\ g[p] \in Int /\ g[q] \in Int /\ h[q] \in Int
    BY <1>1
  <1> QED
    BY <1>6, <1>7, <1>8, <1>9, <1>10, <1>11

-----------------------------------------------------------------------------
(***************************************************************************)
(* What a mail is packed with and unpacked to.                             *)
(***************************************************************************)

\* As many of an item as a list of attachments has.
ListCounts(list, item) == [i \in 1 .. Len(list) |-> Count(list[i], item)]
InList(list, item) == SumFunction(ListCounts(list, item))

LEMMA InListType ==
    ASSUME NEW item \in Item, NEW list \in Seq(Stack)
    PROVE  /\ ListCounts(list, item) \in [1 .. Len(list) -> Int]
           /\ InList(list, item) \in Nat /\ (list = <<>> => InList(list, item) = 0)
  <1>1. IsFiniteSet(1 .. Len(list))
    BY LenProperties, FS_Interval
  <1>2. ListCounts(list, item) \in [1 .. Len(list) -> Nat]
    BY CountIs, ElementOfSeq DEF ListCounts
  <1>3. InList(list, item) \in Nat
    BY <1>1, <1>2, SumOfNats DEF InList
  <1>4. ASSUME list = <<>> PROVE InList(list, item) = 0
    <2>1. 1 .. Len(list) = {}
      BY <1>4, EmptySeq
    <2>2. InList(list, item) = SumFunctionOnSet(ListCounts(list, item), {})
      BY <1>2, <2>1 DEF InList, SumFunction
    <2>3. IsFiniteSet({}) /\ \A x \in {} : ListCounts(list, item)[x] \in Int
      BY FS_EmptySet
    <2> QED
      BY <2>2, <2>3, SumRemove
  <1> QED
    BY <1>2, <1>3, <1>4

LEMMA InListGrows ==
    ASSUME NEW item \in Item, NEW list \in Seq(Stack), NEW stack \in Stack
    PROVE  InList(Append(list, stack), item) = InList(list, item) + Count(stack, item)
  <1> DEFINE n == Len(list)
             longer == Append(list, stack)
             f == ListCounts(list, item)
             g == ListCounts(longer, item)
  <1>1. n \in Nat /\ longer \in Seq(Stack) /\ Len(longer) = n + 1 /\ longer[n + 1] = stack
        /\ \A i \in 1 .. n : longer[i] = list[i]
    BY LenProperties, AppendProperties
  <1> HIDE DEF longer
  <1>2. g \in [1 .. n + 1 -> Int] /\ f \in [1 .. n -> Int]
    BY <1>1, InListType
  <1>3. g[n + 1] = Count(stack, item) /\ \A i \in 1 .. n : g[i] = f[i]
    BY <1>1 DEF ListCounts
  <1>4. InList(longer, item) = SumFunctionOnSet(g, 1 .. n + 1) /\ InList(list, item) = SumFunctionOnSet(f, 1 .. n)
    BY <1>2 DEF InList, SumFunction
  <1> HIDE DEF n, f, g
  <1>5. IsFiniteSet(1 .. n + 1) /\ IsFiniteSet(1 .. n) /\ n + 1 \in 1 .. n + 1 /\ (1 .. n + 1) \ {n + 1} = 1 .. n
    <2>1. n \in Int /\ n + 1 \in Int /\ 1 \in Int
      BY <1>1
    <2>2. IsFiniteSet(1 .. n + 1) /\ IsFiniteSet(1 .. n)
      BY <2>1, FS_Interval
    <2>3. n + 1 \in 1 .. n + 1 /\ (1 .. n + 1) \ {n + 1} = 1 .. n
      BY <1>1
    <2> QED
      BY <2>2, <2>3
  <1>6. SumFunctionOnSet(g, 1 .. n + 1) = g[n + 1] + SumFunctionOnSet(g, 1 .. n)
    <2>1. \A i \in 1 .. n + 1 : g[i] \in Int
      BY <1>2
    <2>2. SumFunctionOnSet(g, 1 .. n + 1) = g[n + 1] + SumFunctionOnSet(g, (1 .. n + 1) \ {n + 1})
      BY <1>5, <2>1, SumRemove
    <2> QED
      BY <1>5, <2>2
  <1>7. SumFunctionOnSet(g, 1 .. n) = SumFunctionOnSet(f, 1 .. n)
    <2>1. \A i \in 1 .. n : f[i] \in Int /\ g[i] = f[i]
      BY <1>2, <1>3
    <2> QED
      BY <1>5, <2>1, SumSame
  <1>8. Count(stack, item) \in Int /\ InList(list, item) \in Int
    BY CountIs, InListType
  <1>9. InList(longer, item) = InList(list, item) + Count(stack, item)
    BY <1>3, <1>4, <1>6, <1>7, <1>8
  <1> QED
    BY <1>9 DEF longer

LEMMA HeldLess ==
    ASSUME NEW item \in Item, NEW inv \in Bag, NEW now \in Bag,
           \A s \in Place : Count(now[s], item) <= Count(inv[s], item)
    PROVE  Held(now, item) <= Held(inv, item)
  <1>1. Below(BagCounts(now, item), BagCounts(inv, item), Place)
    BY DEF Below, BagCounts
  <1> QED
    BY <1>1, BagCountsType, MailSets, SumBelow

\* A request takes what it attaches from different places, in which there is as much.
SlotsOf(picks, T) == {picks[k].slot : k \in T \cap Chosen(picks)}

LEMMA TakenType ==
    ASSUME NEW inv \in Bag, NEW slots
    PROVE  Taken(inv, slots) \in Bag
  BY MailStacks DEF Taken, Bag

LEMMA ChosenIs ==
    ASSUME MailTypeOK, NEW p \in Player, NEW picks \in Requests, ValidPicks(p, picks),
           NEW k \in AttSlot, picks[k] # NoPick, NEW item \in Item
    PROVE  /\ k \in Chosen(picks) /\ picks[k].slot \in Place
           /\ Attachment(p, picks[k]) \in Stack
           /\ Count(Attachment(p, picks[k]), item) <= Count(inven[p][picks[k].slot], item)
           /\ Count(inven[p][picks[k].slot], item) \in Nat
           /\ \A j \in Chosen(picks) : picks[j].slot = picks[k].slot => j = k
  <1>1. k \in Chosen(picks)
    BY DEF Chosen
  <1>2. picks[k].slot \in Place /\ picks[k].n \in Nat
    BY PickTypes DEF Requests
  <1>3. inven[p][picks[k].slot] \in Stack
    BY <1>2 DEF MailTypeOK
  <1>4. picks[k].n <= inven[p][picks[k].slot].opt /\ \A j \in Chosen(picks) : picks[j].slot = picks[k].slot => j = k
    BY <1>1 DEF ValidPicks
  <1>5. /\ Attachment(p, picks[k]).item = inven[p][picks[k].slot].item
        /\ Attachment(p, picks[k]).opt = picks[k].n
    BY DEF Attachment, Of
  <1>6. Attachment(p, picks[k]) \in Stack
    BY <1>1, ChosenTypes
  <1>7. Count(inven[p][picks[k].slot], item) \in Nat
    BY <1>3, CountIs
  <1>8. Count(Attachment(p, picks[k]), item) <= Count(inven[p][picks[k].slot], item)
    BY <1>4, <1>5, <1>7 DEF Count
  <1> QED
    BY <1>1, <1>2, <1>4, <1>6, <1>7, <1>8

LEMMA PackedFrom ==
    ASSUME MailTypeOK, NEW p \in Player, NEW picks \in Requests, ValidPicks(p, picks), NEW item \in Item
    PROVE  InList(Attachments(p, picks), item) + Held(Taken(inven[p], Slots(picks)), item) <= Held(inven[p], item)
  <1> DEFINE inv == inven[p]
             left(T) == Taken(inv, SlotsOf(picks, T))
  <1>1. PICK all : Collected(p, picks, all) /\ Attachments(p, picks) = all[AttSlot]
    BY AttachmentsFold
  <1>2. inv \in Bag
    BY DEF MailTypeOK, Bag
  <1> DEFINE Good == {T \in SUBSET AttSlot : InList(all[T], item) + Held(left(T), item) <= Held(inv, item)}
  <1>3. ASSUME NEW T \in SUBSET AttSlot
        PROVE  /\ left(T) \in Bag /\ Held(left(T), item) \in Nat /\ all[T] \in Seq(Stack)
               /\ InList(all[T], item) \in Nat
    BY <1>1, <1>2, TakenType, BagCountsType, InListType DEF Collected
  <1>4. {} \in Good
    <2>1. {} \in SUBSET AttSlot /\ all[{}] = <<>> /\ all[{}] \in Seq(Stack)
      BY <1>1, <1>3 DEF Collected
    <2>2. InList(all[{}], item) = 0
      BY <2>1, InListType
    <2>3. SlotsOf(picks, {}) = {}
      BY DEF SlotsOf
    <2>4. left({}) = inv
      BY <1>2, <2>3 DEF Taken, Bag
    <2>5. Held(inv, item) \in Nat
      BY <1>2, BagCountsType
    <2>6. InList(all[{}], item) + Held(left({}), item) <= Held(inv, item)
      BY <2>2, <2>4, <2>5
    <2> QED
      BY <2>1, <2>6
  <1>5. ASSUME NEW T \in SUBSET AttSlot, T # {}, \A x \in T : T \ {x} \in Good
        PROVE  T \in Good
    <2> DEFINE x == Max(T)
               R == T \ {x}
    <2>1. /\ x \in T
          /\ all[T] = IF picks[x] = NoPick THEN all[R] ELSE Append(all[R], Attachment(p, picks[x]))
      BY <1>1, <1>5 DEF Collected
    <2>2. R \in SUBSET AttSlot /\ InList(all[R], item) + Held(left(R), item) <= Held(inv, item) /\ x \in AttSlot
      BY <1>5, <2>1
    <2>3. T = R \cup {x} /\ x \notin R
      BY <2>1
    <2> HIDE DEF x, R, Good
    <2>4. CASE picks[x] = NoPick
      <3>1. SlotsOf(picks, T) = SlotsOf(picks, R)
        BY <2>3, <2>4 DEF SlotsOf, Chosen
      <3>2. all[T] = all[R]
        BY <2>1, <2>4
      <3>3. InList(all[T], item) + Held(left(T), item) <= Held(inv, item)
        BY <2>2, <3>1, <3>2
      <3> QED
        BY <3>3 DEF Good
    <2>5. CASE picks[x] # NoPick
      <3> DEFINE stack == Attachment(p, picks[x])
                 s == picks[x].slot
      <3>1. /\ x \in Chosen(picks) /\ s \in Place /\ stack \in Stack
            /\ Count(stack, item) <= Count(inv[s], item) /\ Count(inv[s], item) \in Nat
            /\ \A j \in Chosen(picks) : picks[j].slot = s => j = x
        BY <2>2, <2>5, ChosenIs
      <3>2. all[T] = Append(all[R], stack)
        BY <2>1, <2>5
      <3>3. s \notin SlotsOf(picks, R) /\ SlotsOf(picks, T) = SlotsOf(picks, R) \cup {s}
        BY <2>3, <3>1 DEF SlotsOf
      <3> HIDE DEF stack, s
      <3>4. left(R)[s] = inv[s] /\ left(T)[s] = NoItem
        BY <3>1, <3>3 DEF Taken
      <3>5. DiffersAt(left(R), left(T), Place, s)
        BY <3>3 DEF Taken, DiffersAt
      <3> HIDE DEF left
      <3>6. Held(left(T), item) = Held(left(R), item) - Count(left(R)[s], item) + Count(left(T)[s], item)
        BY <1>3, <2>2, <3>1, <3>5, HeldChange
      <3>7. Count(NoItem, item) = 0 /\ Count(stack, item) \in Nat
        BY <3>1, CountIs
      <3>8. InList(all[T], item) = InList(all[R], item) + Count(stack, item)
        BY <1>3, <2>2, <3>1, <3>2, InListGrows
      <3>9. /\ InList(all[R], item) \in Nat /\ Held(left(R), item) \in Nat /\ Held(inv, item) \in Nat
        BY <1>2, <1>3, <2>2, BagCountsType
      <3>10. Held(left(T), item) = Held(left(R), item) - Count(inv[s], item)
        BY <3>1, <3>4, <3>6, <3>7, <3>9
      <3>11. InList(all[T], item) + Held(left(T), item) <= Held(inv, item)
        BY <2>2, <3>1, <3>7, <3>8, <3>9, <3>10
      <3> QED
        BY <3>11 DEF Good
    <2> QED
      BY <2>4, <2>5
  <1>6. \A T \in SUBSET AttSlot : T \in Good
    <2> HIDE DEF Good
    <2> QED
      BY <1>4, <1>5, MailSets, SubsetInduction
  <1>7. AttSlot \in Good
    BY <1>6
  <1>8. SlotsOf(picks, AttSlot) = Slots(picks)
    BY DEF SlotsOf, Slots, Chosen
  <1> QED
    BY <1>1, <1>7, <1>8

\* The rows of a new mail, which nothing was in the way of.
LEMMA RowsHold ==
    ASSUME MailTypeOK, NEW to \in Player, NEW i \in Index, NEW stacks \in Seq(Stack),
           Len(stacks) <= EmailSlots, ~Clash(to, i, stacks), Rows(to, i, stacks) \in MailRow, NEW item \in Item
    PROVE  InMail(Rows(to, i, stacks), item) <= InMail(attached[to][i], item) + InList(stacks, item)
  <1> DEFINE old == attached[to][i]
             new == Rows(to, i, stacks)
             n == Len(stacks)
             P == 1 .. n
             f == RowCounts(old, item)
             g == RowCounts(new, item)
             h == ListCounts(stacks, item)
  <1>1. old \in MailRow /\ new \in MailRow
    BY DEF MailTypeOK, MailRow
  <1>2. n \in Nat /\ n <= EmailSlots /\ EmailSlots \in Nat
    BY LenProperties, MailAssumption
  <1>3. P \subseteq AttSlot /\ IsFiniteSet(P) /\ IsFiniteSet(AttSlot \ P)
    <2>1. P \subseteq AttSlot
      BY <1>2 DEF AttSlot
    <2> QED
      BY <2>1, MailSets, FS_Subset
  <1>4. f \in [AttSlot -> Int] /\ g \in [AttSlot -> Int] /\ h \in [P -> Int]
    BY <1>1, RowCountsType, InListType
  <1>5. ASSUME NEW k \in P PROVE g[k] = h[k] /\ f[k] = 0
    <2>1. k \in AttSlot /\ k <= n
      BY <1>2, <1>3
    <2>2. new[k] = stacks[k] /\ old[k] = NoItem
      BY <2>1 DEF Rows, Clash
    <2> QED
      BY <2>1, <2>2, CountIs DEF RowCounts, ListCounts
  <1>6. ASSUME NEW k \in AttSlot \ P PROVE g[k] = f[k]
    <2>1. k \in AttSlot /\ ~(k <= n)
      BY <1>2 DEF AttSlot
    <2>2. new[k] = old[k]
      BY <2>1 DEF Rows
    <2> QED
      BY <2>1, <2>2 DEF RowCounts
  <1>7. /\ InMail(old, item) = SumFunctionOnSet(f, AttSlot) /\ InMail(new, item) = SumFunctionOnSet(g, AttSlot)
        /\ InList(stacks, item) = SumFunctionOnSet(h, P)
    <2>1. InMail(old, item) = SumFunction(f) /\ InMail(new, item) = SumFunction(g)
      BY <1>1, RowCountsType
    <2>2. DOMAIN f = AttSlot /\ DOMAIN g = AttSlot /\ DOMAIN h = P
      BY <1>4
    <2> HIDE DEF f, g, h
    <2> QED
      BY <2>1, <2>2 DEF SumFunction, InList, h
  <1> HIDE DEF f, g, h, P, n
  <1>8. Integral(f, AttSlot) /\ Integral(g, AttSlot)
    BY <1>4 DEF Integral
  <1>9. /\ SumFunctionOnSet(f, AttSlot) = SumFunctionOnSet(f, P) + SumFunctionOnSet(f, AttSlot \ P)
        /\ SumFunctionOnSet(f, P) \in Int /\ SumFunctionOnSet(f, AttSlot \ P) \in Int
    BY <1>3, <1>8, MailSets, SumSplit
  <1>10. /\ SumFunctionOnSet(g, AttSlot) = SumFunctionOnSet(g, P) + SumFunctionOnSet(g, AttSlot \ P)
         /\ SumFunctionOnSet(g, P) \in Int /\ SumFunctionOnSet(g, AttSlot \ P) \in Int
    BY <1>3, <1>8, MailSets, SumSplit
  <1>11. SumFunctionOnSet(g, P) = SumFunctionOnSet(h, P)
    <2>1. \A k \in P : h[k] \in Int /\ g[k] = h[k]
      BY <1>4, <1>5
    <2> QED
      BY <1>3, <2>1, SumSame
  <1>12. SumFunctionOnSet(g, AttSlot \ P) = SumFunctionOnSet(f, AttSlot \ P)
    <2>1. \A k \in AttSlot \ P : f[k] \in Int /\ g[k] = f[k]
      BY <1>4, <1>6
    <2> QED
      BY <1>3, <2>1, SumSame
  <1>13. SumFunctionOnSet(f, P) \in Nat
    <2>1. \A k \in P : f[k] \in Nat
      BY <1>5
    <2> QED
      BY <1>3, <2>1, SumNat
  <1>14. SumFunctionOnSet(g, AttSlot) <= SumFunctionOnSet(f, AttSlot) + SumFunctionOnSet(h, P)
    BY <1>9, <1>10, <1>11, <1>12, <1>13
  <1> QED
    BY <1>7, <1>14

\* The first free place takes one of them, which is held from then on.
LEMMA PutHolds ==
    ASSUME NEW item \in Item, NEW inv \in Bag, FreePlaces(inv) # {}, NEW stack \in Stack
    PROVE  Held(PutFirst(inv, stack), item) <= Held(inv, item) + Count(stack, item)
  <1> DEFINE s == Min(FreePlaces(inv))
             now == PutFirst(inv, stack)
  <1>1. s \in Place
    <2>1. FreePlaces(inv) \in SUBSET Place
      BY DEF FreePlaces
    <2> QED
      BY <2>1, FreePlace
  <1>2. now = [inv EXCEPT ![s] = stack]
    BY DEF PutFirst
  <1> HIDE DEF s, now
  <1>3. now \in Bag /\ now[s] = stack /\ DiffersAt(inv, now, Place, s)
    BY <1>1, <1>2 DEF Bag, DiffersAt
  <1>4. Held(now, item) = Held(inv, item) - Count(inv[s], item) + Count(now[s], item)
    BY <1>1, <1>3, HeldChange
  <1>5. Count(inv[s], item) \in Nat /\ Count(stack, item) \in Nat /\ Held(inv, item) \in Nat
    BY <1>1, CountIs, BagCountsType DEF Bag
  <1>6. Held(now, item) <= Held(inv, item) + Count(stack, item)
    BY <1>3, <1>4, <1>5
  <1> QED
    BY <1>6 DEF now

LEMMA UnpackedFrom ==
    ASSUME NEW inv \in Bag, NEW stacks \in MailRow, NEW item \in Item
    PROVE  Held(Unpacked(inv, stacks), item) <= Held(inv, item) + InMail(stacks, item)
  <1> DEFINE f == RowCounts(stacks, item)
             part(T) == SumFunctionOnSet(f, T)
  <1>1. PICK all : FilledUp(inv, stacks, all) /\ Unpacked(inv, stacks) = all[AttSlot]
    BY UnpackedFold DEF Bag, MailRow
  <1>2. f \in [AttSlot -> Int] /\ InMail(stacks, item) = part(AttSlot)
    BY RowCountsType DEF SumFunction
  <1>3. ASSUME NEW k \in AttSlot PROVE f[k] = Count(stacks[k], item) /\ f[k] \in Nat /\ stacks[k] \in Stack
    BY CountIs DEF RowCounts, MailRow
  <1> HIDE DEF f
  <1>4. ASSUME NEW T \in SUBSET AttSlot
        PROVE  /\ IsFiniteSet(T) /\ (\A k \in T : f[k] \in Int) /\ part(T) \in Int
               /\ all[T] \in Bag /\ Held(all[T], item) \in Nat
    <2>1. IsFiniteSet(T) /\ \A k \in T : f[k] \in Int
      BY <1>2, MailSets, FS_Subset
    <2>2. part(T) \in Int
      BY <2>1, SumRemove
    <2>3. all[T] \in Bag
      BY <1>1 DEF FilledUp, Bag
    <2> QED
      BY <2>1, <2>2, <2>3, BagCountsType
  <1> DEFINE Good == {T \in SUBSET AttSlot : Held(all[T], item) <= Held(inv, item) + part(T)}
  <1>5. {} \in Good
    <2>1. {} \in SUBSET AttSlot /\ all[{}] = inv
      BY <1>1 DEF FilledUp
    <2>2. part({}) = 0
      BY <1>4, <2>1, SumRemove
    <2>3. Held(inv, item) \in Nat
      BY BagCountsType
    <2>4. Held(all[{}], item) <= Held(inv, item) + part({})
      BY <2>1, <2>2, <2>3
    <2> QED
      BY <2>1, <2>4
  <1>6. ASSUME NEW T \in SUBSET AttSlot, T # {}, \A x \in T : T \ {x} \in Good
        PROVE  T \in Good
    <2> DEFINE x == Max(T)
               R == T \ {x}
    <2>1. /\ x \in T
          /\ all[T] = IF FreePlaces(all[R]) = {} THEN all[R] ELSE PutFirst(all[R], stacks[x])
      BY <1>1, <1>6 DEF FilledUp
    <2>2. R \in SUBSET AttSlot /\ Held(all[R], item) <= Held(inv, item) + part(R) /\ x \in AttSlot
      BY <1>6, <2>1
    <2>3. part(T) = f[x] + part(R)
      BY <1>4, <2>1, SumRemove
    <2> HIDE DEF x, R, Good, part
    <2>4. /\ f[x] = Count(stacks[x], item) /\ f[x] \in Nat /\ stacks[x] \in Stack
          /\ part(R) \in Int /\ all[R] \in Bag /\ Held(all[R], item) \in Nat /\ Held(inv, item) \in Nat
      BY <1>3, <1>4, <2>2, BagCountsType
    <2>5. Held(all[T], item) <= Held(all[R], item) + f[x] /\ Held(all[T], item) \in Nat
      <3>1. CASE FreePlaces(all[R]) = {}
        BY <2>1, <2>4, <3>1
      <3>2. CASE FreePlaces(all[R]) # {}
        BY <1>4, <2>1, <2>4, <3>2, PutHolds
      <3> QED
        BY <3>1, <3>2
    <2>6. Held(all[T], item) <= Held(inv, item) + part(T)
      BY <2>2, <2>3, <2>4, <2>5
    <2> QED
      BY <2>6 DEF Good
  <1>7. \A T \in SUBSET AttSlot : T \in Good
    <2> HIDE DEF Good
    <2> QED
      BY <1>5, <1>6, MailSets, SubsetInduction
  <1>8. AttSlot \in Good
    BY <1>7
  <1> QED
    BY <1>1, <1>2, <1>8

-----------------------------------------------------------------------------
(***************************************************************************)
(* The actions on mail make nothing.                                       *)
(***************************************************************************)
LEMMA MailShape ==
    /\ MailTypeOK => /\ money \in [Player -> Int] /\ mails \in [Player -> Box]
                     /\ inven \in [Player -> Bag] /\ attached \in [Player -> Table]
    /\ MailTypeOK' => /\ money' \in [Player -> Int] /\ mails' \in [Player -> Box]
                      /\ inven' \in [Player -> Bag] /\ attached' \in [Player -> Table]
  BY DEF MailTypeOK, Box, Bag, Table, MailRow

LEMMA TotalsNext ==
    /\ AllTaros = TarosOf(money, mails) /\ AllTaros' = TarosOf(money', mails')
    /\ \A item \in Item : /\ AllOf(item) = ItemsOf(inven, attached, item)
                          /\ AllOf(item)' = ItemsOf(inven', attached', item)
  BY DEF AllTaros, TarosOf, Enclosed, Cash, AllOf, ItemsOf, Held, Sent, InMail, Count

\* What is taken out of a mail is in it no more.
LEMMA ReceiveTarosMakes ==
    ASSUME MailTypeOK, MailTypeOK', NEW p \in Player, NEW i \in Index, EmailReceiveTaros(p, i)
    PROVE  NothingMade
  <1> DEFINE mail == mails[p][i]
             now == Updated(p, i, Emptied(mail))
  <1>1. /\ money \in [Player -> Int] /\ mails \in [Player -> Box]
        /\ money' \in [Player -> Int] /\ mails' \in [Player -> Box]
    BY MailShape
  <1>2. mail \in EmailData /\ i \in Listed(p)
    BY MailTypes DEF EmailReceiveTaros
  <1>3. Emptied(mail) \in EmailData /\ Emptied(mail).Taros = 0
    BY <1>2 DEF Emptied, EmailData
  <1>4. now \in EmailData /\ now.Taros = 0
    <2>1. now \in EmailData
      BY <1>2, <1>3, MailTypes
    <2>2. now.Taros = Emptied(mail).Taros
      BY <1>3 DEF Updated, EmailData
    <2> QED
      BY <1>3, <2>1, <2>2
  <1>5. money' = [money EXCEPT ![p] = money[p] + mail.Taros] /\ mails' = [mails EXCEPT ![p][i] = now]
    BY DEF EmailReceiveTaros
  <1>6. Cash(now) = 0 /\ Cash(mail) = mail.Taros /\ mail.Taros \in Nat
    BY <1>2, <1>4, CashType
  <1> HIDE DEF now
  <1>7. mails'[p][i] = now /\ DiffersAt(mails[p], mails'[p], Index, i)
    BY <1>1, <1>5 DEF Box, DiffersAt
  <1>8. DiffersAt(mails, mails', Player, p) /\ DiffersAt(money, money', Player, p) /\ money'[p] = money[p] + mail.Taros
    BY <1>1, <1>5 DEF DiffersAt
  <1>9. mails[p] \in Box /\ mails'[p] \in Box /\ money[p] \in Int
    BY <1>1
  <1>10. Enclosed(mails'[p]) = Enclosed(mails[p]) - mail.Taros
    <2>1. Enclosed(mails'[p]) = Enclosed(mails[p]) - Cash(mails[p][i]) + Cash(mails'[p][i])
      BY <1>7, <1>9, EnclosedChange
    <2>2. Enclosed(mails[p]) \in Int
      BY <1>9, CashesType
    <2> QED
      BY <1>6, <1>7, <2>1, <2>2
  <1>11. money'[p] + Enclosed(mails'[p]) <= money[p] + Enclosed(mails[p])
    <2>1. Enclosed(mails[p]) \in Int
      BY <1>9, CashesType
    <2> QED
      BY <1>6, <1>8, <1>9, <1>10, <2>1
  <1>12. TarosOf(money', mails') <= TarosOf(money, mails)
    BY <1>1, <1>8, <1>11, TarosMove
  <1>13. inven' = inven /\ attached' = attached
    BY DEF EmailReceiveTaros
  <1> QED
    BY <1>12, <1>13, TotalsNext DEF NothingMade

\* The rows of a mail go with what they held: one item or all are received.
LEMMA ReceiveItemsMakes ==
    ASSUME MailTypeOK, MailTypeOK', NEW p \in Player, NEW i \in Index,
           EmailReceiveItemAll(p, i) \/ \E k \in AttSlot, s \in Place : EmailReceiveItemSingle(p, i, k, s)
    PROVE  NothingMade
  <1> DEFINE row == attached[p][i]
             empty == [j \in AttSlot |-> NoItem]
  <1>1. /\ inven \in [Player -> Bag] /\ attached \in [Player -> Table]
        /\ inven' \in [Player -> Bag] /\ attached' \in [Player -> Table]
    BY MailShape
  <1>2. inven[p] \in Bag /\ inven'[p] \in Bag /\ attached[p] \in Table /\ attached'[p] \in Table /\ row \in MailRow
    BY <1>1 DEF Table
  <1>3. money' = money /\ attached' = [attached EXCEPT ![p][i] = empty]
    BY DEF EmailReceiveItemAll, EmailReceiveItemSingle, SlotDeleted, AllDeleted
  <1> HIDE DEF empty
  <1>4. /\ attached'[p][i] = empty /\ DiffersAt(attached[p], attached'[p], Index, i)
        /\ DiffersAt(attached, attached', Player, p)
    BY <1>1, <1>3 DEF Table, DiffersAt
  <1>5. empty \in MailRow
    BY MailStacks DEF empty, MailRow
  <1>6. DiffersAt(inven, inven', Player, p)
    BY <1>1 DEF EmailReceiveItemAll, EmailReceiveItemSingle, DiffersAt
  <1>7. ASSUME NEW item \in Item PROVE Held(inven'[p], item) <= Held(inven[p], item) + InMail(row, item)
    <2>1. CASE EmailReceiveItemAll(p, i)
      <3>1. inven'[p] = Unpacked(inven[p], row)
        BY <1>1, <2>1 DEF EmailReceiveItemAll
      <3> QED
        BY <1>2, <3>1, UnpackedFrom
    <2>2. CASE \E k \in AttSlot, s \in Place : EmailReceiveItemSingle(p, i, k, s)
      <3>1. PICK k \in AttSlot, s \in Place : EmailReceiveItemSingle(p, i, k, s)
        BY <2>2
      <3>2. inven' = [inven EXCEPT ![p][s] = row[k]]
        BY <3>1 DEF EmailReceiveItemSingle
      <3>3. inven'[p][s] = row[k] /\ DiffersAt(inven[p], inven'[p], Place, s)
        BY <1>1, <3>2 DEF Bag, DiffersAt
      <3>4. Held(inven'[p], item) = Held(inven[p], item) - Count(inven[p][s], item) + Count(inven'[p][s], item)
        BY <1>2, <3>3, HeldChange
      <3>5. Count(inven[p][s], item) \in Nat /\ Count(row[k], item) \in Nat
        BY <1>2, CountIs DEF Bag, MailRow
      <3>6. Count(row[k], item) <= InMail(row, item) /\ InMail(row, item) \in Nat /\ Held(inven[p], item) \in Nat
        BY <1>2, RowCountsType, BagCountsType
      <3> QED
        BY <3>3, <3>4, <3>5, <3>6
    <2> QED
      BY <2>1, <2>2
  <1>8. ASSUME NEW item \in Item
        PROVE  ItemsOf(inven', attached', item) <= ItemsOf(inven, attached, item)
    <2>1. Sent(attached'[p], item) = Sent(attached[p], item) - InMail(row, item) + InMail(empty, item)
      <3>1. Sent(attached'[p], item) = Sent(attached[p], item) - InMail(attached[p][i], item) + InMail(attached'[p][i], item)
        BY <1>2, <1>4, SentChange
      <3> QED
        BY <1>4, <3>1
    <2>2. InMail(empty, item) = 0
      <3> DEFINE zero == [k \in AttSlot |-> 0]
      <3>1. RowCounts(empty, item) = zero
        BY CountIs, MailStacks DEF RowCounts, empty
      <3>2. SumFunctionOnSet(zero, AttSlot) = 0
        <4> DEFINE Good == {T \in SUBSET AttSlot : SumFunctionOnSet(zero, T) = 0}
        <4>1. ASSUME NEW T \in SUBSET AttSlot PROVE IsFiniteSet(T) /\ \A k \in T : zero[k] \in Int /\ zero[k] = 0
          BY MailSets, FS_Subset
        <4> HIDE DEF zero
        <4>2. {} \in Good
          <5>1. {} \in SUBSET AttSlot
            OBVIOUS
          <5>2. SumFunctionOnSet(zero, {}) = 0
            BY <4>1, <5>1, SumRemove
          <5> QED
            BY <5>1, <5>2
        <4>3. ASSUME NEW T \in SUBSET AttSlot, T # {}, \A x \in T : T \ {x} \in Good
              PROVE  T \in Good
          <5>1. PICK x \in T : TRUE
            BY <4>3
          <5>2. SumFunctionOnSet(zero, T) = zero[x] + SumFunctionOnSet(zero, T \ {x})
            BY <4>1, SumRemove
          <5> QED
            BY <4>1, <4>3, <5>2
        <4>4. \A T \in SUBSET AttSlot : T \in Good
          <5> HIDE DEF Good
          <5> QED
            BY <4>2, <4>3, MailSets, SubsetInduction
        <4> QED
          BY <4>4
      <3>3. DOMAIN zero = AttSlot
        OBVIOUS
      <3> HIDE DEF zero
      <3>4. InMail(empty, item) = SumFunction(zero)
        BY <1>5, <3>1, RowCountsType
      <3> QED
        BY <3>2, <3>3, <3>4 DEF SumFunction
    <2>3. /\ InMail(row, item) \in Int /\ Sent(attached[p], item) \in Int
          /\ Held(inven[p], item) \in Int /\ Held(inven'[p], item) \in Int
      BY <1>2, RowCountsType, TableCountsType, BagCountsType
    <2>4. Held(inven'[p], item) + Sent(attached'[p], item) <= Held(inven[p], item) + Sent(attached[p], item)
      BY <1>7, <2>1, <2>2, <2>3
    <2> QED
      BY <1>1, <1>4, <1>6, <2>4, ItemsMove
  <1> QED
    BY <1>3, <1>8, TotalsNext DEF NothingMade

\* What could not be sent is given back, at most as much as there was.
LEMMA SendFailMakes ==
    ASSUME MailTypeOK, MailTypeOK', NEW p \in Player, NEW to \in Player \cup {None}, NEW cash \in 0 .. MaxCash,
           NEW picks \in Requests, EmailSendFail(p, to, cash, picks)
    PROVE  NothingMade
  <1> DEFINE inv == inven[p]
             now == GivenBack(p, inv, picks)
             at(s) == CHOOSE k \in Chosen(picks) : picks[k].slot = s
  <1>1. inven \in [Player -> Bag] /\ inven' \in [Player -> Bag] /\ attached \in [Player -> Table]
    BY MailShape
  <1>2. money' = money /\ attached' = attached /\ ValidPicks(p, picks) /\ inven' = [inven EXCEPT ![p] = now]
    BY DEF EmailSendFail, CanSend
  <1>3. inv \in Bag /\ inven'[p] = now /\ now \in Bag /\ DiffersAt(inven, inven', Player, p)
    <2>1. inven'[p] \in Bag
      BY <1>1
    <2> HIDE DEF now
    <2> QED
      BY <1>1, <1>2, <2>1 DEF DiffersAt
  <1>4. ASSUME NEW item \in Item, NEW s \in Place PROVE Count(now[s], item) <= Count(inv[s], item)
    <2>1. CASE s \in Slots(picks)
      <3>1. \E k \in Chosen(picks) : picks[k].slot = s
        BY <2>1 DEF Slots
      <3>2. at(s) \in Chosen(picks) /\ picks[at(s)].slot = s
        BY <3>1
      <3>3. now[s] = Attachment(p, picks[at(s)])
        BY <2>1 DEF GivenBack
      <3> HIDE DEF at, now
      <3>4. at(s) \in AttSlot /\ picks[at(s)] # NoPick
        BY <3>2 DEF Chosen
      <3>5. Count(Attachment(p, picks[at(s)]), item) <= Count(inv[picks[at(s)].slot], item)
        BY <1>2, <3>4, ChosenIs
      <3> QED
        BY <3>2, <3>3, <3>5
    <2>2. CASE s \notin Slots(picks)
      <3>1. now[s] = inv[s] /\ inv[s] \in Stack
        BY <1>3, <2>2 DEF GivenBack, Bag
      <3>2. Count(inv[s], item) \in Nat
        BY <3>1, CountIs
      <3> QED
        BY <3>1, <3>2
    <2> QED
      BY <2>1, <2>2
  <1> HIDE DEF now
  <1>5. ASSUME NEW item \in Item
        PROVE  ItemsOf(inven', attached', item) <= ItemsOf(inven, attached, item)
    <2>1. Held(now, item) <= Held(inv, item) /\ Held(now, item) \in Int /\ Held(inv, item) \in Int
      BY <1>3, <1>4, HeldLess, BagCountsType
    <2>2. Sent(attached[p], item) \in Int /\ DiffersAt(attached, attached', Player, p)
      BY <1>1, <1>2, TableCountsType DEF DiffersAt
    <2>3. Held(inven'[p], item) + Sent(attached'[p], item) <= Held(inven[p], item) + Sent(attached[p], item)
      BY <1>2, <1>3, <2>1, <2>2
    <2> QED
      BY <1>1, <1>2, <1>3, <2>2, <2>3, ItemsMove
  <1> QED
    BY <1>2, <1>5, TotalsNext DEF NothingMade

\* A mail that is sent: the taros and the items in it have left the sender, whose
\* mailbox it goes to has nothing at the next index.
LEMMA NextIsFree ==
    ASSUME NEW to \in Player, NextEmailIndex(to) \in Index
    PROVE  mails[to][NextEmailIndex(to)] = NoMail
  <1> DEFINE i == NextEmailIndex(to)
  <1>1. MaxIndex \in Nat /\ Exists(to) \in SUBSET (0 .. MaxIndex) /\ Exists(to) \in SUBSET Int
    BY MailAssumption DEF Exists, Index
  <1>2. CASE Exists(to) = {}
    BY <1>2 DEF Exists
  <1>3. CASE Exists(to) # {}
    <2>1. Max(Exists(to)) \in Exists(to) /\ \A y \in Exists(to) : y <= Max(Exists(to))
      BY <1>1, <1>3, MaxIsGreatest
    <2>2. i = Max(Exists(to)) + 1 /\ Max(Exists(to)) \in Int
      BY <1>1, <1>3, <2>1 DEF NextEmailIndex
    <2>3. i \notin Exists(to)
      BY <2>1, <2>2
    <2> HIDE DEF i
    <2> QED
      BY <2>3 DEF Exists, i
  <1> QED
    BY <1>2, <1>3

LEMMA SendMakesTaros ==
    ASSUME MailTypeOK, MailTypeOK', NEW p \in Player, NEW to \in Player, NEW cash \in 0 .. MaxCash,
           NEW picks \in Requests, EmailSend(p, to, cash, picks)
    PROVE  AllTaros' <= AllTaros
  <1> DEFINE n == Len(Attachments(p, picks))
             i == NextEmailIndex(to)
             mail == [Taros |-> cash, ReadFlag |-> FALSE, ItemFlag |-> cash > 0 \/ Attachments(p, picks) # <<>>]
  <1>1. /\ money \in [Player -> Int] /\ mails \in [Player -> Box]
        /\ money' \in [Player -> Int] /\ mails' \in [Player -> Box]
    BY MailShape
  <1>2. i \in Index /\ cash \in Nat /\ mails[to][i] = NoMail
    <2>1. i \in Index
      BY DEF EmailSend, CanSend
    <2> QED
      BY <2>1, NextIsFree, MailAssumption
  <1>3. Postage(n) \in Nat
    <2>1. n \in Nat /\ n <= EmailSlots
      BY AttachmentsType, LenProperties
    <2> QED
      BY <2>1, PostageGrows
  <1>4. money' = [money EXCEPT ![p] = money[p] - cash - Postage(n)] /\ mails' = [mails EXCEPT ![to][i] = mail]
    BY DEF EmailSend
  <1>5. mail # NoMail /\ mail.Taros = cash
    BY <1>2 DEF NoMail
  <1> HIDE DEF mail, n, i
  <1>6. Cash(mail) = cash
    BY <1>5 DEF Cash
  <1>7. mails'[to][i] = mail /\ DiffersAt(mails[to], mails'[to], Index, i)
    BY <1>1, <1>2, <1>4 DEF Box, DiffersAt
  <1>8. /\ DiffersAt(mails, mails', Player, to) /\ DiffersAt(money, money', Player, p)
        /\ money'[p] = money[p] - cash - Postage(n)
    BY <1>1, <1>4 DEF DiffersAt
  <1>9. mails[to] \in Box /\ mails'[to] \in Box /\ money[p] \in Int
    BY <1>1
  <1>10. Enclosed(mails'[to]) = Enclosed(mails[to]) + cash /\ Enclosed(mails[to]) \in Int
    <2>1. Enclosed(mails'[to]) = Enclosed(mails[to]) - Cash(mails[to][i]) + Cash(mails'[to][i])
      BY <1>2, <1>7, <1>9, EnclosedChange
    <2>2. Enclosed(mails[to]) \in Int
      BY <1>9, CashesType
    <2> QED
      BY <1>2, <1>6, <1>7, <2>1, <2>2, CashType
  <1>11. money'[p] + Enclosed(mails'[to]) <= money[p] + Enclosed(mails[to])
    BY <1>2, <1>3, <1>8, <1>9, <1>10
  <1>12. TarosOf(money', mails') <= TarosOf(money, mails)
    BY <1>1, <1>8, <1>11, TarosMove
  <1> QED
    BY <1>12, TotalsNext

LEMMA SendMakesItems ==
    ASSUME MailTypeOK, MailTypeOK', NEW p \in Player, NEW to \in Player, NEW cash \in 0 .. MaxCash,
           NEW picks \in Requests, EmailSend(p, to, cash, picks), NEW item \in Item
    PROVE  AllOf(item)' <= AllOf(item)
  <1> DEFINE stacks == Attachments(p, picks)
             i == NextEmailIndex(to)
             rows == Rows(to, i, stacks)
             left == Taken(inven[p], Slots(picks))
  <1>1. /\ inven \in [Player -> Bag] /\ attached \in [Player -> Table]
        /\ inven' \in [Player -> Bag] /\ attached' \in [Player -> Table]
    BY MailShape
  <1>2. i \in Index /\ ValidPicks(p, picks) /\ ~Clash(to, i, stacks)
    BY DEF EmailSend, CanSend
  <1>3. inven' = [inven EXCEPT ![p] = left] /\ attached' = [attached EXCEPT ![to][i] = rows]
    BY DEF EmailSend
  <1>4. stacks \in Seq(Stack) /\ Len(stacks) <= EmailSlots
    BY AttachmentsType
  <1>5. InList(stacks, item) + Held(left, item) <= Held(inven[p], item)
    BY <1>2, PackedFrom
  <1> HIDE DEF stacks, i, rows, left
  <1>6. attached'[to][i] = rows /\ DiffersAt(attached[to], attached'[to], Index, i)
    BY <1>1, <1>2, <1>3 DEF Table, DiffersAt
  <1>7. /\ inven'[p] = left /\ DiffersAt(inven, inven', Player, p)
        /\ DiffersAt(attached, attached', Player, to)
    BY <1>1, <1>3 DEF DiffersAt
  <1>8. /\ inven[p] \in Bag /\ left \in Bag /\ attached[to] \in Table /\ attached'[to] \in Table
        /\ attached[to][i] \in MailRow /\ rows \in MailRow
    BY <1>1, <1>2, <1>6, <1>7 DEF Table
  <1>9. InMail(rows, item) <= InMail(attached[to][i], item) + InList(stacks, item)
    BY <1>2, <1>4, <1>8, RowsHold DEF rows
  <1>10. Sent(attached'[to], item) = Sent(attached[to], item) - InMail(attached[to][i], item) + InMail(rows, item)
    BY <1>2, <1>6, <1>8, SentChange
  <1>11. /\ Held(left, item) \in Int /\ Held(inven[p], item) \in Int /\ Sent(attached[to], item) \in Int
         /\ InMail(attached[to][i], item) \in Int /\ InMail(rows, item) \in Int /\ InList(stacks, item) \in Int
    BY <1>4, <1>8, BagCountsType, TableCountsType, RowCountsType, InListType
  <1>12. Held(inven'[p], item) + Sent(attached'[to], item) <= Held(inven[p], item) + Sent(attached[to], item)
    BY <1>5, <1>7, <1>9, <1>10, <1>11
  <1>13. ItemsOf(inven', attached', item) <= ItemsOf(inven, attached, item)
    BY <1>1, <1>6, <1>7, <1>12, ItemsMove
  <1> QED
    BY <1>13, TotalsNext

\* What the handlers promise, and the rest of them, which move nothing.
LEMMA MailStepMakes ==
    ASSUME MailInv, [MailNext]_mailVars
    PROVE  [NothingMade]_mailVars
  <1>1. CASE UNCHANGED mailVars
    BY <1>1
  <1>2. CASE MailNext
    <2>1. MailTypeOK /\ MailTypeOK'
      BY MailStep DEF MailInv
    <2>2. PICK p \in Player :
            \/ \E to \in Player \cup {None}, cash \in 0 .. MaxCash, picks \in Requests :
                 EmailSend(p, to, cash, picks) \/ EmailSendFail(p, to, cash, picks)
            \/ \E i \in Index :
                 \/ EmailRead(p, i) \/ EmailReceiveTaros(p, i) \/ EmailReceiveItemAll(p, i)
                 \/ \E k \in AttSlot, s \in Place : EmailReceiveItemSingle(p, i, k, s)
            \/ \E indices \in SUBSET Index : EmailDelete(p, indices)
      BY <1>2 DEF MailNext
    <2>3. CASE \E to \in Player \cup {None}, cash \in 0 .. MaxCash, picks \in Requests :
                 EmailSend(p, to, cash, picks)
      <3>1. PICK to \in Player \cup {None}, cash \in 0 .. MaxCash, picks \in Requests :
              EmailSend(p, to, cash, picks)
        BY <2>3
      <3>2. to \in Player
        BY <3>1 DEF EmailSend
      <3>3. AllTaros' <= AllTaros
        BY <2>1, <3>1, <3>2, SendMakesTaros
      <3>4. \A item \in Item : AllOf(item)' <= AllOf(item)
        BY <2>1, <3>1, <3>2, SendMakesItems
      <3> QED
        BY <3>3, <3>4 DEF NothingMade
    <2>4. CASE \E to \in Player \cup {None}, cash \in 0 .. MaxCash, picks \in Requests :
                 EmailSendFail(p, to, cash, picks)
      BY <2>1, <2>4, SendFailMakes
    <2>5. CASE \E i \in Index : EmailReceiveTaros(p, i)
      BY <2>1, <2>5, ReceiveTarosMakes
    <2>6. CASE \E i \in Index : \/ EmailReceiveItemAll(p, i)
                                \/ \E k \in AttSlot, s \in Place : EmailReceiveItemSingle(p, i, k, s)
      BY <2>1, <2>6, ReceiveItemsMakes
    <2>7. CASE (\E i \in Index : EmailRead(p, i)) \/ \E indices \in SUBSET Index : EmailDelete(p, indices)
      BY <2>7 DEF EmailRead, EmailDelete, NothingMade
    <2> QED
      BY <2>2, <2>3, <2>4, <2>5, <2>6, <2>7
  <1> QED
    BY <1>1, <1>2

\* Neither taros nor items come into being by mail, whatever is sent, returned,
\* received in parts or deleted (Email.cpp:89, 115, 177, 281; db/email.cpp:198).
THEOREM MailMakesNone == MailSpec => MailMakesNothing
  <1> QED
    BY MailStart, MailStep, MailStepMakes, PTL DEF MailSpec, MailMakesNothing

-----------------------------------------------------------------------------
(***************************************************************************)
(* Missions: a player's task slots, the counters beside them and its quest *)
(* items keep fitting each other.                                          *)
(***************************************************************************)

\* What the invariants say of one player, for each record that a handler passes
\* on to the next operator.
Fits(m) ==
    /\ m.fm <= AvatarGrowth[m.level].cap
    /\ \A i \in TaskSlot : IsNano(m.tasks[i]) => i = 1
    /\ \A i \in TaskSlot, j \in Objective :
        m.left[i][j] > 0 => m.tasks[i] # None /\ m.left[i][j] <= TaskData[m.tasks[i]].toKill[j]
    /\ \A s, u \in QPlace : m.q[s].item # None /\ m.q[s].item = m.q[u].item => s = u

Fitting == {m \in Quest : Fits(m)}

LEMMA FittingIs == MissionsTypeOK /\ TasksConsistent <=> quest \in Fitting
  BY DEF MissionsTypeOK, TasksConsistent, NanoFirst, CountsMatch, OneStackPerItem, Fitting, Fits

-----------------------------------------------------------------------------
(***************************************************************************)
(* The operators that the handlers are composed of.                        *)
(***************************************************************************)

LEMMA TaskTypes ==
    ASSUME NEW t \in Task
    PROVE  /\ TaskData[t] \in TaskType /\ t # None
           /\ TaskData[t].toKill \in [Objective -> Nat]
           /\ TaskData[t].mission \in Mission
           /\ TaskData[t].nano \in 0 .. MaxLevel
           /\ \A j \in Objective :
                /\ TaskData[t].csuItem[j] \in Item \cup {None} /\ TaskData[t].csuNeeded[j] \in Nat
                /\ TaskData[t].suItem[j] \in Item \cup {None} /\ TaskData[t].suCount[j] \in Int
                /\ TaskData[t].stItem[j] \in Item \cup {None} /\ TaskData[t].stNeeded[j] \in Int
  <1>1. TaskData[t] \in TaskType /\ t # None
    BY MissionsAssumption
  <1>2. TaskData[t].mission \in Mission
    BY DEF Mission
  <1> QED
    BY <1>1, <1>2 DEF TaskType

LEMMA GrowthTypes ==
    ASSUME NEW l \in 0 .. MaxLevel
    PROVE  AvatarGrowth[l].cap \in Nat /\ AvatarGrowth[l].need \in Nat /\ AvatarGrowth[l].task \in Task \cup {None}
  BY MissionsAssumption

LEMMA DroppedFits ==
    ASSUME NEW m \in Fitting, NEW item \in Item \cup {None}, NEW count \in Int
    PROVE  Dropped(m, item, count) \in Fitting /\ Dropped(m, item, count).tasks = m.tasks
  <1> DEFINE s == Min(QSlots(m, item))
             n == m.q[s].opt + count
             new == IF n <= 0 THEN NoItem ELSE Of(item, n)
             to == [m EXCEPT !.q[s] = new]
  <1>1. CASE item = None \/ QSlots(m, item) = {}
    BY <1>1 DEF Dropped
  <1>2. CASE item # None /\ QSlots(m, item) # {}
    <2>1. QSlots(m, item) \in SUBSET Nat /\ QSlots(m, item) \subseteq QPlace
      BY MissionsAssumption DEF QSlots, QPlace
    <2>2. s \in QSlots(m, item) /\ s \in QPlace
      BY <1>2, <2>1, MinIsLeast
    <2>3. m \in Quest /\ m.q \in [QPlace -> Stack] /\ Fits(m)
      BY DEF Fitting, Quest
    <2>4. new \in Stack /\ new.item \in {item, None}
      <3>1. m.q[s].opt \in Nat
        BY <2>2, <2>3 DEF Stack
      <3> HIDE DEF s
      <3> QED
        BY <1>2, <3>1 DEF Stack, NoItem, Of
    <2>5. \A u \in QPlace : u # s => m.q[u].item # item
      BY <1>2, <2>2, <2>3 DEF QSlots, Fits
    <2>6. to \in Quest /\ to.tasks = m.tasks /\ to.left = m.left /\ to.fm = m.fm
          /\ to.level = m.level /\ to.q = [m.q EXCEPT ![s] = new]
      BY <2>2, <2>3, <2>4 DEF Quest
    <2>7. Dropped(m, item, count) = to
      BY <1>2 DEF Dropped
    <2> HIDE DEF to, new, s
    <2>8. \A u, v \in QPlace : to.q[u].item # None /\ to.q[u].item = to.q[v].item => u = v
      BY <2>2, <2>3, <2>4, <2>5, <2>6 DEF Fits
    <2>9. Fits(to)
      BY <2>3, <2>6, <2>8 DEF Fits
    <2> QED
      BY <2>6, <2>7, <2>9 DEF Fitting
  <1> QED
    BY <1>1, <1>2

LEMMA DroppedAllFits ==
    ASSUME NEW m \in Fitting, NEW things \in [Objective -> Item \cup {None}],
           NEW counts \in [Objective -> Int]
    PROVE  DroppedAll(m, things, counts) \in Fitting
  <1>1. \A j \in {1, 2, 3} : things[j] \in Item \cup {None} /\ counts[j] \in Int
    BY DEF Objective
  <1> QED
    BY <1>1, DroppedFits DEF DroppedAll

\* The bounds alone, for the steps that only count.
LEMMA TaskBounds == ActiveTasks \in Nat /\ ActiveTasks # 0 /\ QuestPlaces \in Nat /\ QuestPlaces # 0
  BY MissionsAssumption

\* Free slots, and the first of them.
LEMMA FreeSlots ==
    ASSUME NEW S \in SUBSET TaskSlot, S # {}
    PROVE  Min(S) \in S /\ \A i \in S : Min(S) <= i
  <1>1. S \in SUBSET Nat
    BY TaskBounds DEF TaskSlot
  <1> QED
    BY <1>1, MinIsLeast

\* Other tasks with their counters.
LEMMA RearrangedFits ==
    ASSUME NEW m \in Fitting,
           NEW tasks \in [TaskSlot -> Task \cup {None}], NEW left \in [TaskSlot -> [Objective -> Nat]],
           \A i \in TaskSlot : IsNano(tasks[i]) => i = 1,
           \A i \in TaskSlot, j \in Objective :
             left[i][j] > 0 => tasks[i] # None /\ left[i][j] <= TaskData[tasks[i]].toKill[j]
    PROVE  [m EXCEPT !.tasks = tasks, !.left = left] \in Fitting
  <1> DEFINE n == [m EXCEPT !.tasks = tasks, !.left = left]
  <1>1. /\ n \in Quest /\ n.tasks = tasks /\ n.left = left /\ n.fm = m.fm /\ n.level = m.level
        /\ n.q = m.q
    BY DEF Fitting, Quest
  <1> HIDE DEF n
  <1>2. Fits(m)
    BY DEF Fitting
  <1>3. Fits(n)
    BY <1>1, <1>2 DEF Fits
  <1> QED
    BY <1>1, <1>3 DEF Fitting, n

LEMMA FieldTypes ==
    ASSUME NEW m \in Fitting
    PROVE  /\ m \in Quest /\ Fits(m)
           /\ m.tasks \in [TaskSlot -> Task \cup {None}]
           /\ m.left \in [TaskSlot -> [Objective -> Nat]]
           /\ m.q \in [QPlace -> Stack]
           /\ m.level \in Level /\ m.fm \in Nat /\ m.room \in 0 .. StartRoom
  BY DEF Fitting, Quest

LEMMA ClearedFits ==
    ASSUME NEW m \in Fitting, NEW t
    PROVE  Cleared(m, t) \in Fitting
  <1> DEFINE tasks == [i \in TaskSlot |-> IF m.tasks[i] = t THEN None ELSE m.tasks[i]]
             left == [i \in TaskSlot |-> IF m.tasks[i] = t THEN Idle ELSE m.left[i]]
  <1>0. Idle \in [Objective -> Nat] /\ \A j \in Objective : Idle[j] = 0
    BY DEF Idle
  <1>1. tasks \in [TaskSlot -> Task \cup {None}] /\ left \in [TaskSlot -> [Objective -> Nat]]
    BY <1>0, FieldTypes
  <1>2. \A i \in TaskSlot : IsNano(tasks[i]) => i = 1
    BY FieldTypes DEF Fits, IsNano
  <1>3. ASSUME NEW i \in TaskSlot, NEW j \in Objective, left[i][j] > 0
        PROVE  tasks[i] # None /\ left[i][j] <= TaskData[tasks[i]].toKill[j]
    <2>1. m.tasks[i] # t
      BY <1>0, <1>3
    <2> QED
      BY <1>3, <2>1, FieldTypes DEF Fits
  <1> HIDE DEF tasks, left
  <1>4. [m EXCEPT !.tasks = tasks, !.left = left] \in Fitting
    BY <1>1, <1>2, <1>3, RearrangedFits
  <1> QED
    BY <1>4 DEF Cleared, tasks, left

\* The nano task, if there was none, moves the first task out of the way.
LEMMA AsideFits ==
    ASSUME NEW m \in Fitting, ~AnyNano(m)
    PROVE  Aside(m) \in Fitting /\ ~AnyNano(Aside(m)) /\ Aside(m).tasks[1] = None
  <1> DEFINE to == {i \in TaskSlot : i > 1 /\ m.tasks[i] = None}
             cleared == [m EXCEPT !.tasks[1] = None, !.left[1] = Idle]
  <1>0. /\ Idle \in [Objective -> Nat] /\ \A j \in Objective : Idle[j] = 0
        /\ 1 \in TaskSlot /\ 2 \in Objective
    BY MissionsAssumption DEF Idle, TaskSlot, Objective
  <1>1. CASE m.tasks[1] = None
    BY <1>1 DEF Aside
  <1>2. CASE m.tasks[1] # None /\ to # {}
    <2> DEFINE f == Min(to)
               tasks == [m.tasks EXCEPT ![1] = None, ![f] = m.tasks[1]]
               left == [m.left EXCEPT ![1] = Idle, ![f] = m.left[1]]
    <2>1. f \in TaskSlot /\ f # 1 /\ m.tasks[f] = None
      <3>1. f \in to
        BY <1>2, FreeSlots
      <3> QED
        BY <3>1 DEF TaskSlot
    <2> HIDE DEF f
    <2>2. tasks \in [TaskSlot -> Task \cup {None}] /\ left \in [TaskSlot -> [Objective -> Nat]]
      BY <1>0, <2>1, FieldTypes
    <2>3. ASSUME NEW i \in TaskSlot
          PROVE  /\ tasks[i] = IF i = 1 THEN None ELSE IF i = f THEN m.tasks[1] ELSE m.tasks[i]
                 /\ left[i] = IF i = 1 THEN Idle ELSE IF i = f THEN m.left[1] ELSE m.left[i]
      BY <1>0, <2>1, FieldTypes
    <2>4. /\ [m EXCEPT !.tasks = tasks, !.left = left] = Aside(m)
          /\ [m EXCEPT !.tasks = tasks, !.left = left].tasks = tasks
      <3>1. [m EXCEPT !.tasks = tasks, !.left = left].tasks = tasks
        BY FieldTypes DEF Quest
      <3>2. [cleared EXCEPT !.tasks[f] = m.tasks[1], !.left[f] = m.left[1]] = Aside(m)
        BY <1>2 DEF Aside, f
      <3>3. [cleared EXCEPT !.tasks[f] = m.tasks[1], !.left[f] = m.left[1]]
              = [m EXCEPT !.tasks = tasks, !.left = left]
        BY FieldTypes DEF Quest
      <3> QED
        BY <3>1, <3>2, <3>3
    <2> HIDE DEF tasks, left
    <2>5. \A i \in TaskSlot : ~IsNano(tasks[i])
      BY <1>0, <2>3 DEF AnyNano, IsNano
    <2>6. ASSUME NEW i \in TaskSlot, NEW j \in Objective, left[i][j] > 0
          PROVE  tasks[i] # None /\ left[i][j] <= TaskData[tasks[i]].toKill[j]
      BY <1>0, <2>3, <2>6, FieldTypes DEF Fits
    <2>7. [m EXCEPT !.tasks = tasks, !.left = left] \in Fitting
      BY <2>2, <2>5, <2>6, RearrangedFits
    <2> QED
      BY <1>0, <2>3, <2>4, <2>5, <2>7 DEF AnyNano
  <1>3. CASE m.tasks[1] # None /\ to = {}
    <2> DEFINE tasks == [m.tasks EXCEPT ![1] = None]
               left == [m.left EXCEPT ![1] = Idle]
               behind == Of(None, m.left[1][2])
    <2>1. cleared = [m EXCEPT !.tasks = tasks, !.left = left] /\ cleared.tasks = tasks
      BY FieldTypes DEF Quest
    <2>2. tasks \in [TaskSlot -> Task \cup {None}] /\ left \in [TaskSlot -> [Objective -> Nat]]
      BY <1>0, FieldTypes
    <2>3. ASSUME NEW i \in TaskSlot
          PROVE  /\ tasks[i] = IF i = 1 THEN None ELSE m.tasks[i]
                 /\ left[i] = IF i = 1 THEN Idle ELSE m.left[i]
      BY <1>0, FieldTypes
    <2>4. cleared.q = m.q /\ Aside(m) = [cleared EXCEPT !.q[1] = behind]
      BY <1>3 DEF Aside
    <2>5. behind \in Stack /\ behind.item = None
      <3>1. m.left[1][2] \in Nat
        BY <1>0, FieldTypes
      <3> QED
        BY <3>1 DEF Of, Stack
    <2> HIDE DEF tasks, left, behind, cleared
    <2>6. \A i \in TaskSlot : ~IsNano(tasks[i])
      BY <1>0, <2>3 DEF AnyNano, IsNano
    <2>7. ASSUME NEW i \in TaskSlot, NEW j \in Objective, left[i][j] > 0
          PROVE  tasks[i] # None /\ left[i][j] <= TaskData[tasks[i]].toKill[j]
      BY <1>0, <2>3, <2>7, FieldTypes DEF Fits
    <2>8. cleared \in Fitting
      BY <2>1, <2>2, <2>6, <2>7, RearrangedFits
    <2> DEFINE n == [cleared EXCEPT !.q[1] = behind]
    <2>9. /\ n \in Quest /\ n.tasks = cleared.tasks /\ n.left = cleared.left /\ n.fm = cleared.fm
          /\ n.level = cleared.level /\ n.q = [cleared.q EXCEPT ![1] = behind]
      BY <2>5, <2>8, FieldTypes DEF Quest
    <2> HIDE DEF n
    <2>10. Fits(n)
      <3>1. Fits(cleared) /\ cleared.q \in [QPlace -> Stack]
        BY <2>8, FieldTypes
      <3>2. \A s, u \in QPlace : n.q[s].item # None /\ n.q[s].item = n.q[u].item => s = u
        BY <2>5, <2>9, <3>1 DEF Fits
      <3> QED
        BY <2>9, <3>1, <3>2 DEF Fits
    <2>11. Aside(m) = n /\ n.tasks = tasks
      BY <2>1, <2>4, <2>9 DEF n
    <2> QED
      BY <1>0, <2>3, <2>6, <2>9, <2>10, <2>11 DEF Fitting, AnyNano
  <1> QED
    BY <1>1, <1>2, <1>3

\* startTask keeps the nano task first if there is none yet.
LEMMA StartedFits ==
    ASSUME NEW m \in Fitting, NEW t \in Task, IsNano(t) => ~AnyNano(m)
    PROVE  Started(m, t) \in Fitting
  <1> DEFINE ready == IF IsNano(t) THEN Aside(m) ELSE m
             f == Min(Free(ready))
             tasks == [ready.tasks EXCEPT ![f] = t]
             left == [ready.left EXCEPT ![f] = TaskData[t].toKill]
  <1>1. ready \in Fitting /\ (IsNano(t) => ready.tasks[1] = None /\ ~AnyNano(ready))
    BY AsideFits
  <1> HIDE DEF ready
  <1>2. CASE Free(ready) = {}
    BY <1>1, <1>2 DEF Started, ready
  <1>3. CASE Free(ready) # {}
    <2>1. f \in TaskSlot /\ ready.tasks[f] = None /\ (ready.tasks[1] = None => f = 1)
      <3>1. f \in Free(ready) /\ \A i \in Free(ready) : f <= i
        BY <1>3, FreeSlots DEF Free
      <3> HIDE DEF f
      <3>2. 1 \in TaskSlot /\ TaskSlot \subseteq Nat \ {0}
        BY TaskBounds DEF TaskSlot
      <3>3. ready.tasks[1] = None => f <= 1
        BY <3>1, <3>2 DEF Free
      <3>4. f \in TaskSlot /\ ready.tasks[f] = None
        BY <3>1 DEF Free
      <3>5. f \in Nat \ {0}
        BY <3>2, <3>4
      <3> QED
        BY <3>3, <3>4, <3>5
    <2> HIDE DEF f
    <2>2. tasks \in [TaskSlot -> Task \cup {None}] /\ left \in [TaskSlot -> [Objective -> Nat]]
      BY <1>1, <2>1, FieldTypes, TaskTypes
    <2>3. ASSUME NEW i \in TaskSlot
          PROVE  /\ tasks[i] = IF i = f THEN t ELSE ready.tasks[i]
                 /\ left[i] = IF i = f THEN TaskData[t].toKill ELSE ready.left[i]
      BY <1>1, <2>1, FieldTypes
    <2>4. ASSUME NEW i \in TaskSlot, IsNano(tasks[i]) PROVE i = 1
      <3>1. CASE i = f
        <4>1. IsNano(t)
          BY <2>3, <2>4, <3>1
        <4> QED
          BY <1>1, <2>1, <3>1, <4>1
      <3>2. CASE i # f
        BY <1>1, <2>3, <2>4, <3>2, FieldTypes DEF Fits
      <3> QED
        BY <3>1, <3>2
    <2>5. ASSUME NEW i \in TaskSlot, NEW j \in Objective, left[i][j] > 0
          PROVE  tasks[i] # None /\ left[i][j] <= TaskData[tasks[i]].toKill[j]
      <3>1. CASE i = f
        <4>1. TaskData[t].toKill[j] \in Nat
          BY TaskTypes
        <4> QED
          BY <2>3, <3>1, <4>1, TaskTypes
      <3>2. CASE i # f
        BY <1>1, <2>3, <2>5, <3>2, FieldTypes DEF Fits
      <3> QED
        BY <3>1, <3>2
    <2>6. [ready EXCEPT !.tasks = tasks, !.left = left] \in Fitting
      <3> HIDE DEF tasks, left
      <3> QED
        BY <1>1, <2>2, <2>4, <2>5, RearrangedFits
    <2>7. [ready EXCEPT !.tasks = tasks, !.left = left]
            = [ready EXCEPT !.tasks[f] = t, !.left[f] = TaskData[t].toKill]
      BY <1>1, FieldTypes DEF Quest
    <2> QED
      BY <1>3, <2>6, <2>7 DEF Started, ready, f
  <1> QED
    BY <1>2, <1>3

\* Fields that the invariants do not relate to others.
LEMMA RecordedFits ==
    ASSUME NEW m \in Fitting, NEW fm \in Nat, NEW level \in Level, fm <= AvatarGrowth[level].cap,
           NEW room \in 0 .. StartRoom, NEW current \in Mission \cup {None}, NEW done \in SUBSET Mission
    PROVE  [m EXCEPT !.fm = fm, !.level = level, !.room = room, !.current = current, !.done = done]
             \in Fitting
  <1> DEFINE n == [m EXCEPT !.fm = fm, !.level = level, !.room = room, !.current = current, !.done = done]
  <1>1. /\ n \in Quest /\ n.tasks = m.tasks /\ n.left = m.left /\ n.q = m.q
        /\ n.fm = fm /\ n.level = level
    BY FieldTypes DEF Quest
  <1> HIDE DEF n
  <1>2. Fits(n)
    BY <1>1, FieldTypes DEF Fits
  <1> QED
    BY <1>1, <1>2 DEF Fitting, n

LEMMA OwnFields ==
    ASSUME NEW m \in Fitting
    PROVE  /\ m.fm \in Nat /\ m.level \in Level /\ m.fm <= AvatarGrowth[m.level].cap
           /\ m.room \in 0 .. StartRoom /\ m.current \in Mission \cup {None}
           /\ m.done \in SUBSET Mission
  BY DEF Fitting, Fits, Quest

\* updateFusionMatter: whatever level the player has been given before, and
\* however much fusion matter.
LEMMA FusedFits ==
    ASSUME NEW m \in Fitting, NEW level \in Level, NEW fusion \in Int
    PROVE  Fused([m EXCEPT !.level = level], fusion) \in Fitting
  <1> DEFINE raised == [m EXCEPT !.level = level]
             growth == AvatarGrowth[level]
             fm == Max({0, Min({m.fm + fusion, growth.cap})})
             now == [raised EXCEPT !.fm = fm]
  <1>1. /\ growth.cap \in Nat /\ growth.task \in Task \cup {None}
    BY GrowthTypes DEF Level
  <1>2. fm \in Nat /\ fm <= growth.cap
    <2>1. m.fm + fusion \in Int /\ growth.cap \in Int
      BY <1>1, FieldTypes
    <2> DEFINE least == Min({m.fm + fusion, growth.cap})
    <2>2. least \in Int /\ least <= growth.cap
      <3> HIDE DEF growth
      <3>1. least = IF m.fm + fusion <= growth.cap THEN m.fm + fusion ELSE growth.cap
        BY <2>1, MinOfTwo
      <3> QED
        BY <2>1, <3>1
    <2> HIDE DEF least
    <2>3. Max({0, least}) = IF 0 <= least THEN least ELSE 0
      BY <2>2, MaxOfTwo
    <2>4. fm = Max({0, least})
      BY DEF least
    <2> HIDE DEF fm, growth
    <2> QED
      BY <1>1, <2>2, <2>3, <2>4
  <1>3. raised.fm = m.fm /\ raised.level = level
    BY FieldTypes DEF Quest
  <1> HIDE DEF fm
  <1>4. now = [m EXCEPT !.fm = fm, !.level = level, !.room = m.room, !.current = m.current, !.done = m.done]
    BY FieldTypes DEF Quest
  <1>5. now \in Fitting
    <2>1. [m EXCEPT !.fm = fm, !.level = level, !.room = m.room, !.current = m.current, !.done = m.done]
            \in Fitting
      BY <1>2, OwnFields, RecordedFits
    <2> QED
      BY <1>4, <2>1
  <1>6. Fused(raised, fusion) = IF growth.task = None \/ fm < growth.need \/ AnyNano(now) THEN now
                                ELSE Started(now, growth.task)
    BY <1>3 DEF Fused, fm
  <1> HIDE DEF now, growth, raised
  <1>7. Fused(raised, fusion) \in Fitting
    BY <1>1, <1>5, <1>6, StartedFits
  <1> QED
    BY <1>7 DEF raised

LEMMA FusedAsIs ==
    ASSUME NEW m \in Fitting, NEW fusion \in Int
    PROVE  Fused(m, fusion) \in Fitting
  <1>1. m = [m EXCEPT !.level = m.level]
    BY FieldTypes DEF Quest
  <1>2. Fused([m EXCEPT !.level = m.level], fusion) \in Fitting
    BY FusedFits, FieldTypes
  <1> QED
    BY <1>1, <1>2

\* addNano raises the level, and lowers the fusion matter to the limit of the new
\* one.
LEMMA NanoAddedFits ==
    ASSUME NEW m \in Fitting, NEW nano \in 0 .. MaxLevel
    PROVE  NanoAdded(m, nano) \in Fitting
  <1> DEFINE level == Max({nano, m.level})
  <1>1. level \in Level /\ level - 1 \in 0 .. MaxLevel
    <2>1. nano \in 0 .. MaxLevel /\ m.level \in 1 .. MaxLevel /\ MaxLevel \in Nat
      BY MissionsAssumption, FieldTypes DEF Level
    <2>2. level = IF nano <= m.level THEN m.level ELSE nano
      BY <2>1, MaxOfTwo
    <2> QED
      BY <2>1, <2>2 DEF Level
  <1> HIDE DEF level
  <1>2. -AvatarGrowth[level - 1].need \in Int
    BY <1>1, GrowthTypes
  <1>3. Fused([m EXCEPT !.level = level], -AvatarGrowth[level - 1].need) \in Fitting
    BY <1>1, <1>2, FusedFits
  <1> QED
    BY <1>3 DEF NanoAdded, level

LEMMA RewardedFits ==
    ASSUME NEW m \in Fitting, NEW t \in DOMAIN Rewards, NEW boost \in {0, 1}, MayReward(m, t)
    PROVE  Rewarded(m, t, boost) \in Fitting
  <1> DEFINE n == [m EXCEPT !.room = @ - Rewards[t].items]
  <1>1. Rewards[t].items \in Nat /\ Rewards[t].fm \in Nat /\ Rewards[t].items <= m.room
    BY MissionsAssumption DEF MayReward
  <1>2. m.room - Rewards[t].items \in 0 .. StartRoom
    BY <1>1, FieldTypes, MissionsAssumption
  <1>3. [m EXCEPT !.fm = m.fm, !.level = m.level, !.room = m.room - Rewards[t].items,
                  !.current = m.current, !.done = m.done] \in Fitting
    BY <1>2, OwnFields, RecordedFits
  <1>4. n = [m EXCEPT !.fm = m.fm, !.level = m.level, !.room = m.room - Rewards[t].items,
                      !.current = m.current, !.done = m.done]
    BY FieldTypes DEF Quest
  <1>5. n \in Fitting
    BY <1>3, <1>4
  <1> HIDE DEF n
  <1>6. Fused(n, Rewards[t].fm + boost) \in Fitting
    BY <1>1, <1>5, FusedAsIs
  <1> QED
    BY <1>6 DEF Rewarded, n

LEMMA CurrentFits ==
    ASSUME NEW m \in Fitting, NEW current \in Mission \cup {None}
    PROVE  [m EXCEPT !.current = current] \in Fitting
  <1>1. [m EXCEPT !.fm = m.fm, !.level = m.level, !.room = m.room, !.current = current, !.done = m.done]
          \in Fitting
    BY OwnFields, RecordedFits
  <1>2. [m EXCEPT !.current = current] = [m EXCEPT !.fm = m.fm, !.level = m.level, !.room = m.room,
                                                    !.current = current, !.done = m.done]
    BY FieldTypes DEF Quest
  <1> QED
    BY <1>1, <1>2

LEMMA DoneFits ==
    ASSUME NEW m \in Fitting, NEW done \in SUBSET Mission
    PROVE  [m EXCEPT !.done = @ \cup done] \in Fitting
  <1>1. m.done \cup done \in SUBSET Mission
    BY OwnFields
  <1>2. [m EXCEPT !.fm = m.fm, !.level = m.level, !.room = m.room, !.current = m.current,
                  !.done = m.done \cup done] \in Fitting
    BY <1>1, OwnFields, RecordedFits
  <1>3. [m EXCEPT !.done = @ \cup done]
          = [m EXCEPT !.fm = m.fm, !.level = m.level, !.room = m.room, !.current = m.current,
                      !.done = m.done \cup done]
    BY FieldTypes DEF Quest
  <1> QED
    BY <1>2, <1>3

LEMMA FinishedFits ==
    ASSUME NEW m \in Fitting, NEW t \in Task
    PROVE  Finished(m, t) \in Fitting
  <1> DEFINE given == DroppedAll(m, TaskData[t].suItem, TaskData[t].suCount)
             saved == [given EXCEPT !.done = @ \cup {TaskData[t].mission}]
             nano == IF IsNano(t) THEN NanoAdded(saved, TaskData[t].nano) ELSE saved
  <1>1. given \in Fitting
    <2>1. TaskData[t].suItem \in [Objective -> Item \cup {None}] /\ TaskData[t].suCount \in [Objective -> Int]
      BY MissionsAssumption DEF TaskType
    <2> QED
      BY <2>1, DroppedAllFits
  <1> HIDE DEF given
  <1>2. saved \in Fitting
    BY <1>1, TaskTypes, DoneFits
  <1> HIDE DEF saved
  <1>3. nano \in Fitting
    BY <1>2, TaskTypes, NanoAddedFits
  <1> HIDE DEF nano
  <1>4. [nano EXCEPT !.current = None] \in Fitting
    BY <1>3, CurrentFits
  <1> QED
    BY <1>1, <1>4 DEF Finished, given, saved, nano

LEMMA EndedFits ==
    ASSUME NEW m \in Fitting, NEW t \in Task, NEW boost \in {0, 1}
    PROVE  Ended(m, t, boost) \in Fitting
  <1>1. Cleared(m, t) \in Fitting
    BY ClearedFits
  <1>2. CASE MayReward(Cleared(m, t), t) /\ t \in DOMAIN Rewards
    BY <1>1, <1>2, RewardedFits, FinishedFits DEF Ended
  <1>3. CASE MayReward(Cleared(m, t), t) /\ t \notin DOMAIN Rewards
    BY <1>1, <1>3, FinishedFits DEF Ended
  <1> QED
    BY <1>1, <1>2, <1>3 DEF Ended

LEMMA QuitFits ==
    ASSUME NEW m \in Fitting, NEW t \in Task, NEW manual \in BOOLEAN
    PROVE  Quit(m, t, manual) \in Fitting
  <1> DEFINE cleared == [Cleared(m, t) EXCEPT !.current = None]
  <1>1. cleared \in Fitting
    BY ClearedFits, CurrentFits
  <1>2. ASSUME NEW gone PROVE
          [cleared EXCEPT !.q = [s \in QPlace |-> IF @[s].item \in gone THEN NoItem ELSE @[s]]] \in Fitting
    <2> HIDE DEF cleared
    <2> DEFINE q == [s \in QPlace |-> IF cleared.q[s].item \in gone THEN NoItem ELSE cleared.q[s]]
               n == [cleared EXCEPT !.q = q]
    <2>1. q \in [QPlace -> Stack] /\ NoItem.item = None
      BY <1>1, FieldTypes DEF NoItem, Stack
    <2>2. \A s, u \in QPlace : q[s].item # None /\ q[s].item = q[u].item => s = u
      BY <1>1, <2>1, FieldTypes DEF Fits
    <2> HIDE DEF q
    <2>3. /\ n \in Quest /\ n.tasks = cleared.tasks /\ n.left = cleared.left /\ n.q = q
          /\ n.fm = cleared.fm /\ n.level = cleared.level
      BY <1>1, <2>1, FieldTypes DEF Quest
    <2> HIDE DEF n
    <2>4. Fits(n)
      BY <1>1, <2>2, <2>3, FieldTypes DEF Fits
    <2> QED
      BY <2>3, <2>4 DEF Fitting, n, q
  <1> HIDE DEF cleared
  <1> QED
    BY <1>1, <1>2 DEF Quit, cleared

-----------------------------------------------------------------------------
(***************************************************************************)
(* Handlers that go through the slots.                                     *)
(***************************************************************************)
LEMMA FailInstancedFits == quest \in Fitting /\ FailInstanced => quest' \in Fitting
  <1> SUFFICES ASSUME quest \in Fitting, FailInstanced PROVE quest' \in Fitting
    OBVIOUS
  <1> DEFINE Body(i, m) ==
                 LET t == m.tasks[i]
                 IN  IF t # None /\ TaskData[t].instanced /\ TaskData[t].failTo # None
                     THEN Quit(m, t, FALSE) ELSE m
             step == [x \in (1 .. ActiveTasks) \X Fitting |-> Body(x[1], x[2])]
  <1>1. ASSUME NEW i \in 1 .. ActiveTasks, NEW m \in Fitting PROVE Body(i, m) \in Fitting
    <2>1. m.tasks[i] \in Task \cup {None}
      BY FieldTypes DEF TaskSlot
    <2> QED
      BY <2>1, QuitFits
  <1>2. step \in [(1 .. ActiveTasks) \X Fitting -> Fitting]
    BY <1>1
  <1>3. PICK f \in [0 .. ActiveTasks -> Fitting] : IsRecursion(f, ActiveTasks, quest, step)
    BY <1>2, RecursionExists, TaskBounds
  <1>4. f = [i \in 0 .. ActiveTasks |-> IF i = 0 THEN quest ELSE Body(i, f[i - 1])]
    <2>1. ASSUME NEW i \in 0 .. ActiveTasks, i # 0 PROVE step[<<i, f[i - 1]>>] = Body(i, f[i - 1])
      <3>1. i \in 1 .. ActiveTasks /\ f[i - 1] \in Fitting
        BY <2>1, TaskBounds
      <3> QED
        BY <3>1
    <2> HIDE DEF step, Body
    <2> QED
      BY <1>3, <2>1 DEF IsRecursion
  <1> DEFINE Fail[i \in 0 .. ActiveTasks] == IF i = 0 THEN quest ELSE Body(i, Fail[i - 1])
  <1>5. Fail = [i \in 0 .. ActiveTasks |-> IF i = 0 THEN quest ELSE Body(i, Fail[i - 1])]
    BY <1>4
  <1>6. quest' = Fail[ActiveTasks]
    BY DEF FailInstanced
  <1> HIDE DEF Fail
  <1>7. Fail[0] \in Fitting
    BY <1>5, TaskBounds
  <1>8. ASSUME NEW i \in 1 .. ActiveTasks, Fail[i - 1] \in Fitting PROVE Fail[i] \in Fitting
    <2>1. Body(i, Fail[i - 1]) \in Fitting
      BY <1>1, <1>8
    <2>2. i \in 0 .. ActiveTasks /\ i # 0
      BY TaskBounds
    <2> HIDE DEF Body
    <2> QED
      BY <1>5, <2>1, <2>2
  <1> QED
    BY <1>6, <1>7, <1>8, RecursionStays, TaskBounds

LEMMA ChangeGuideFits == quest \in Fitting /\ ChangeGuide => quest' \in Fitting
  <1> SUFFICES ASSUME quest \in Fitting, ChangeGuide PROVE quest' \in Fitting
    OBVIOUS
  <1> DEFINE Body(i, m) == IF m.tasks[i] = None THEN m ELSE Quit(m, m.tasks[i], TRUE)
             step == [x \in (1 .. ActiveTasks) \X Fitting |-> Body(x[1], x[2])]
  <1>1. ASSUME NEW i \in 1 .. ActiveTasks, NEW m \in Fitting PROVE Body(i, m) \in Fitting
    <2>1. m.tasks[i] \in Task \cup {None}
      BY FieldTypes DEF TaskSlot
    <2> QED
      BY <2>1, QuitFits
  <1>2. step \in [(1 .. ActiveTasks) \X Fitting -> Fitting]
    BY <1>1
  <1>3. PICK f \in [0 .. ActiveTasks -> Fitting] : IsRecursion(f, ActiveTasks, quest, step)
    BY <1>2, RecursionExists, TaskBounds
  <1>4. f = [i \in 0 .. ActiveTasks |-> IF i = 0 THEN quest ELSE Body(i, f[i - 1])]
    <2>1. ASSUME NEW i \in 0 .. ActiveTasks, i # 0 PROVE step[<<i, f[i - 1]>>] = Body(i, f[i - 1])
      <3>1. i \in 1 .. ActiveTasks /\ f[i - 1] \in Fitting
        BY <2>1, TaskBounds
      <3> QED
        BY <3>1
    <2> HIDE DEF step, Body
    <2> QED
      BY <1>3, <2>1 DEF IsRecursion
  <1> DEFINE Abort[i \in 0 .. ActiveTasks] == IF i = 0 THEN quest ELSE Body(i, Abort[i - 1])
  <1>5. Abort = [i \in 0 .. ActiveTasks |-> IF i = 0 THEN quest ELSE Body(i, Abort[i - 1])]
    BY <1>4
  <1>6. quest' = Fused(Abort[ActiveTasks], 0)
    BY DEF ChangeGuide
  <1> HIDE DEF Abort
  <1>7. Abort[0] \in Fitting
    BY <1>5, TaskBounds
  <1>8. ASSUME NEW i \in 1 .. ActiveTasks, Abort[i - 1] \in Fitting PROVE Abort[i] \in Fitting
    <2>1. Body(i, Abort[i - 1]) \in Fitting
      BY <1>1, <1>8
    <2>2. i \in 0 .. ActiveTasks /\ i # 0
      BY TaskBounds
    <2> HIDE DEF Body
    <2> QED
      BY <1>5, <2>1, <2>2
  <1>9. Abort[ActiveTasks] \in Fitting
    BY <1>7, <1>8, RecursionStays, TaskBounds
  <1> QED
    BY <1>6, <1>9, FusedAsIs

\* mobKilled: the counters go down, and quest items drop, without a task coming
\* or going.
LEMMA MobKilledFits ==
    ASSUME quest \in Fitting, NEW mob \in MobType, NEW luck \in BOOLEAN, MobKilled(mob, luck)
    PROVE  quest' \in Fitting
  <1> DEFINE Wanted(i, j) == quest.tasks[i] # None /\ TaskData[quest.tasks[i]].enemy[j] = mob
             left == [i \in TaskSlot |-> [j \in Objective |->
                        IF Wanted(i, j) THEN OneFewer(quest.left[i][j]) ELSE quest.left[i][j]]]
             counted == [quest EXCEPT !.left = left]
             S == {m \in Fitting : m.tasks = quest.tasks}
             n == 3 * ActiveTasks
             SlotOf(k) == ((k - 1) \div 3) + 1
             Goal(k) == ((k - 1) % 3) + 1
             Body(k, m) ==
                 IF ~Wanted(SlotOf(k), Goal(k)) THEN m
                 ELSE LET d == TaskData[m.tasks[SlotOf(k)]]
                      IN  IF ~luck \/ d.csuNeeded[Goal(k)] = 0
                             \/ IsQuestItemFull(m, d.csuItem[Goal(k)], d.csuNeeded[Goal(k)])
                          THEN m ELSE Dropped(m, d.csuItem[Goal(k)], 1)
             step == [x \in (1 .. n) \X S |-> Body(x[1], x[2])]
             Loot[k \in 0 .. n] == IF k = 0 THEN counted ELSE Body(k, Loot[k - 1])
  <1>0. n \in Nat
    BY TaskBounds
  <1>1. counted \in S
    <2>1. /\ left \in [TaskSlot -> [Objective -> Nat]]
          /\ \A i \in TaskSlot, j \in Objective : left[i][j] <= quest.left[i][j]
      BY FieldTypes DEF OneFewer
    <2>2. counted = [quest EXCEPT !.tasks = quest.tasks, !.left = left] /\ counted.tasks = quest.tasks
      BY FieldTypes DEF Quest
    <2> HIDE DEF left, counted
    <2>3. ASSUME NEW i \in TaskSlot, NEW j \in Objective, left[i][j] > 0
          PROVE  quest.tasks[i] # None /\ left[i][j] <= TaskData[quest.tasks[i]].toKill[j]
      <3>1. left[i][j] \in Nat /\ quest.left[i][j] \in Nat /\ left[i][j] <= quest.left[i][j]
        BY <2>1, FieldTypes
      <3>2. quest.tasks[i] # None /\ quest.left[i][j] <= TaskData[quest.tasks[i]].toKill[j]
        BY <2>3, <3>1, FieldTypes DEF Fits
      <3>3. TaskData[quest.tasks[i]].toKill[j] \in Nat
        BY <3>2, FieldTypes, TaskTypes
      <3> QED
        BY <3>1, <3>2, <3>3
    <2>4. \A i \in TaskSlot : IsNano(quest.tasks[i]) => i = 1
      BY FieldTypes DEF Fits
    <2>5. [quest EXCEPT !.tasks = quest.tasks, !.left = left] \in Fitting
      BY <2>1, <2>3, <2>4, FieldTypes, RearrangedFits
    <2> QED
      BY <2>2, <2>5
  <1>2. ASSUME NEW k \in 1 .. n, NEW m \in S PROVE Body(k, m) \in S
    <2>1. SlotOf(k) \in TaskSlot /\ Goal(k) \in Objective
      BY TaskBounds, SMTT(60) DEF TaskSlot, Objective
    <2> HIDE DEF SlotOf, Goal
    <2>2. CASE ~Wanted(SlotOf(k), Goal(k))
      BY <2>2
    <2>3. CASE Wanted(SlotOf(k), Goal(k))
      <3> DEFINE item == TaskData[m.tasks[SlotOf(k)]].csuItem[Goal(k)]
      <3>1. m \in Fitting /\ m.tasks[SlotOf(k)] \in Task
        BY <2>1, <2>3, FieldTypes
      <3>2. item \in Item \cup {None} /\ 1 \in Int
        BY <2>1, <3>1, TaskTypes
      <3>3. Dropped(m, item, 1) \in S
        BY <3>1, <3>2, DroppedFits
      <3> QED
        BY <3>3
    <2> QED
      BY <2>2, <2>3
  <1> HIDE DEF SlotOf, Goal, n
  <1>3. step \in [(1 .. n) \X S -> S]
    BY <1>2
  <1>4. PICK f \in [0 .. n -> S] : IsRecursion(f, n, counted, step)
    <2> HIDE DEF counted, S, step
    <2> QED
      BY <1>0, <1>1, <1>3, RecursionExists
  <1>5. f = [k \in 0 .. n |-> IF k = 0 THEN counted ELSE Body(k, f[k - 1])]
    <2>1. ASSUME NEW k \in 0 .. n, k # 0 PROVE step[<<k, f[k - 1]>>] = Body(k, f[k - 1])
      <3>1. k \in 1 .. n /\ f[k - 1] \in S
        BY <1>0, <2>1
      <3> HIDE DEF Body, S
      <3> QED
        BY <3>1
    <2> HIDE DEF step, Body, counted
    <2> QED
      BY <1>4, <2>1 DEF IsRecursion
  <1>6. Loot = [k \in 0 .. n |-> IF k = 0 THEN counted ELSE Body(k, Loot[k - 1])]
    <2> HIDE DEF Body, counted
    <2> QED
      BY <1>5
  <1>7. quest' = Loot[n]
    BY DEF MobKilled, n, SlotOf, Goal
  <1> HIDE DEF Loot, counted, Body, S
  <1>8. Loot[0] \in S
    BY <1>0, <1>1, <1>6
  <1>9. ASSUME NEW k \in 1 .. n, Loot[k - 1] \in S PROVE Loot[k] \in S
    <2>1. k \in 0 .. n /\ k # 0 /\ Body(k, Loot[k - 1]) \in S
      BY <1>0, <1>2, <1>9
    <2> QED
      BY <1>6, <2>1
  <1>10. Loot[n] \in S
    BY <1>0, <1>8, <1>9, RecursionStays
  <1> QED
    BY <1>7, <1>10 DEF S

-----------------------------------------------------------------------------
(***************************************************************************)
(* The other handlers, and the invariants.                                 *)
(***************************************************************************)
LEMMA TaskStartFits ==
    ASSUME quest \in Fitting, NEW t \in Task, NEW boost \in {0, 1}, TaskStart(t, boost)
    PROVE  quest' \in Fitting
  <1> DEFINE begun == DroppedAll(Started(quest, t), TaskData[t].stItem, TaskData[t].stNeeded)
  <1>1. Started(quest, t) \in Fitting
    BY StartedFits DEF TaskStart
  <1>2. TaskData[t].stItem \in [Objective -> Item \cup {None}] /\ TaskData[t].stNeeded \in [Objective -> Int]
    BY MissionsAssumption DEF TaskType
  <1>3. begun \in Fitting
    BY <1>1, <1>2, DroppedAllFits
  <1> QED
    BY <1>3, EndedFits DEF TaskStart

LEMMA TaskEndFits ==
    ASSUME quest \in Fitting, NEW t \in Task, NEW timeUp \in BOOLEAN, NEW boost \in {0, 1},
           TaskEnd(t, timeUp, boost)
    PROVE  quest' \in Fitting
  BY QuitFits, EndedFits DEF TaskEnd

LEMMA RoomFits == quest \in Fitting /\ RoomChanges => quest' \in Fitting
  <1> SUFFICES ASSUME quest \in Fitting, NEW n \in 0 .. StartRoom, quest' = [quest EXCEPT !.room = n]
               PROVE  quest' \in Fitting
    BY DEF RoomChanges
  <1>1. [quest EXCEPT !.fm = quest.fm, !.level = quest.level, !.room = n,
                      !.current = quest.current, !.done = quest.done] \in Fitting
    BY OwnFields, RecordedFits
  <1>2. [quest EXCEPT !.room = n]
          = [quest EXCEPT !.fm = quest.fm, !.level = quest.level, !.room = n,
                          !.current = quest.current, !.done = quest.done]
    BY FieldTypes DEF Quest
  <1> QED
    BY <1>1, <1>2

LEMMA MissionsInitFits == MissionsInit => quest \in Fitting
  <1> SUFFICES ASSUME MissionsInit PROVE quest \in Fitting
    OBVIOUS
  <1>1. /\ Idle \in [Objective -> Nat] /\ \A j \in Objective : Idle[j] = 0
        /\ NoItem \in Stack /\ NoItem.item = None /\ 1 \in Level /\ ~IsNano(None)
        /\ StartRoom \in 0 .. StartRoom /\ 0 <= AvatarGrowth[1].cap
    BY MissionsAssumption, GrowthTypes DEF Idle, NoItem, Stack, Level, IsNano
  <1>2. quest \in Quest
    BY <1>1 DEF MissionsInit, Quest
  <1>3. Fits(quest)
    BY <1>1 DEF MissionsInit, Fits
  <1> QED
    BY <1>2, <1>3 DEF Fitting

LEMMA MissionsStep == quest \in Fitting /\ [MissionsNext]_missionVars => quest' \in Fitting
  <1> SUFFICES ASSUME quest \in Fitting, [MissionsNext]_missionVars PROVE quest' \in Fitting
    OBVIOUS
  <1>0. ASSUME NEW t \in Task PROVE Boost(t) \subseteq {0, 1} /\ TaskData[t].timed \in BOOLEAN
    BY MissionsAssumption DEF Boost, TaskType
  <1>1. ASSUME NEW t \in Task, NEW boost \in Boost(t), TaskStart(t, boost) PROVE quest' \in Fitting
    BY <1>0, <1>1, TaskStartFits
  <1>2. ASSUME NEW t \in Task, NEW boost \in Boost(t), NEW timeUp \in {FALSE, TaskData[t].timed},
               TaskEnd(t, timeUp, boost)
        PROVE  quest' \in Fitting
    <2>1. boost \in {0, 1} /\ timeUp \in BOOLEAN
      BY <1>0
    <2> QED
      BY <1>2, <2>1, TaskEndFits
  <1>3. ASSUME NEW t \in Task, SetMission(t) PROVE quest' \in Fitting
    BY <1>3, TaskTypes, CurrentFits DEF SetMission
  <1>4. ASSUME NEW t \in Task, QuitMission(t) PROVE quest' \in Fitting
    BY <1>4, QuitFits DEF QuitMission
  <1>5. ASSUME NEW mob \in MobType, NEW luck \in BOOLEAN, MobKilled(mob, luck) PROVE quest' \in Fitting
    BY <1>5, MobKilledFits
  <1>6. CASE FailInstanced \/ ChangeGuide \/ RoomChanges
    BY <1>6, FailInstancedFits, ChangeGuideFits, RoomFits
  <1>7. ASSUME NEW fusion \in FmGain, GainFusion(fusion) PROVE quest' \in Fitting
    BY <1>7, FusedAsIs, MissionsAssumption DEF GainFusion
  <1>8. CASE UNCHANGED missionVars
    BY <1>8 DEF missionVars
  <1> QED
    BY <1>1, <1>2, <1>3, <1>4, <1>5, <1>6, <1>7, <1>8 DEF MissionsNext

MissionsInv == quest \in Fitting

LEMMA MissionsHold == MissionsSpec => []MissionsInv
  <1>1. MissionsInit => MissionsInv
    BY MissionsInitFits DEF MissionsInv
  <1>2. MissionsInv /\ [MissionsNext]_missionVars => MissionsInv'
    BY MissionsStep DEF MissionsInv
  <1> QED
    BY <1>1, <1>2, PTL DEF MissionsSpec

\* The fields of Player that Missions.cpp keeps have their types, whatever tasks
\* are started, ended, failed or quit, and fusion matter never exceeds the limit of
\* the player's level, also while the level rises (updateFusionMatter, addNano).
THEOREM MissionsTyping == MissionsSpec => []MissionsTypeOK
  <1>1. MissionsInv => MissionsTypeOK
    BY FittingIs DEF MissionsInv
  <1> QED
    BY <1>1, MissionsHold, PTL

\* The nano task is first, the counters are those of the task beside them, and
\* there is one stack of each quest item, for any tasks, numbers of slots and
\* rewards, through every handler of Missions.cpp.
THEOREM TasksStayConsistent == MissionsSpec => []TasksConsistent
  <1>1. MissionsInv => TasksConsistent
    BY FittingIs DEF MissionsInv
  <1> QED
    BY <1>1, MissionsHold, PTL

-----------------------------------------------------------------------------
(***************************************************************************)
(* All five, as they are checked: a step of one is none of the others.     *)
(***************************************************************************)
AllInv == GoodsInv /\ MailInv /\ MissionsInv /\ BuddiesInv /\ CharactersInv /\ AccountsInv

LEMMA AllStart == Init => AllInv /\ StacksInv
  BY GoodsStart, MailStart, MissionsInitFits, BuddiesStart, CharactersInvInit, AccountsInvInit
     DEF Init, AllInv, MissionsInv

LEMMA AllSteps ==
    [Next]_vars =>
        /\ [GoodsNext]_goodsVars /\ [MailNext]_mailVars /\ [MissionsNext]_missionVars
        /\ [BuddiesNext]_buddyVars /\ [CharactersNext]_charVars
  <1> SUFFICES ASSUME [Next]_vars
               PROVE  /\ [GoodsNext]_goodsVars /\ [MailNext]_mailVars /\ [MissionsNext]_missionVars
                      /\ [BuddiesNext]_buddyVars /\ [CharactersNext]_charVars
    OBVIOUS
  <1>1. CASE UNCHANGED vars
    BY <1>1 DEF vars
  <1>2. CASE GoodsNext /\ UNCHANGED <<mailVars, missionVars, buddyVars, charVars>>
    BY <1>2
  <1>3. CASE MailNext /\ UNCHANGED <<goodsVars, missionVars, buddyVars, charVars>>
    BY <1>3
  <1>4. CASE MissionsNext /\ UNCHANGED <<goodsVars, mailVars, buddyVars, charVars>>
    BY <1>4
  <1>5. CASE BuddiesNext /\ UNCHANGED <<goodsVars, mailVars, missionVars, charVars>>
    BY <1>5
  <1>6. CASE CharactersNext /\ UNCHANGED <<goodsVars, mailVars, missionVars, buddyVars>>
    BY <1>6
  <1> QED
    BY <1>1, <1>2, <1>3, <1>4, <1>5, <1>6 DEF Next

LEMMA AllKept ==
    ASSUME AllInv, [Next]_vars
    PROVE  AllInv' /\ (PotTakesEquipment /\ StacksInv => StacksInv')
  <1>1. /\ [GoodsNext]_goodsVars /\ [MailNext]_mailVars /\ [MissionsNext]_missionVars
        /\ [BuddiesNext]_buddyVars /\ [CharactersNext]_charVars
    BY AllSteps
  <1>2. GoodsInv' /\ (PotTakesEquipment /\ StacksInv => StacksInv')
    BY <1>1, GoodsStep DEF AllInv
  <1>3. MailInv' /\ MissionsInv' /\ BuddiesInv'
    BY <1>1, MailStep, MissionsStep, BuddiesStep DEF AllInv, MissionsInv
  <1>4. CharactersInv' /\ AccountsInv'
    BY <1>1, CharactersInvStep, AccountsInvStep DEF AllInv
  <1> QED
    BY <1>2, <1>3, <1>4 DEF AllInv

\* The type invariants of the five hold where they are run side by side.
THEOREM AllTyping == Spec => []TypesOK
  <1>1. Init => AllInv
    BY AllStart
  <1>2. AllInv /\ [Next]_vars => AllInv'
    BY AllKept
  <1>3. AllInv => TypesOK
    BY FittingIs, BuddiesTyped, AccountsTyped DEF AllInv, GoodsInv, MailInv, MissionsInv, TypesOK
  <1> QED
    BY <1>1, <1>2, <1>3, PTL DEF Spec

\* And so does what is said of each of them: stats and stacks, tasks, friendships, whole
\* characters with their names, and the debt that the postage of a mail can leave.
THEOREM AllHold ==
    ASSUME PotTakesEquipment
    PROVE  Spec => [](/\ GoodsConsistent /\ TasksConsistent /\ FriendsAgree
                      /\ SavedWhole /\ NamesKept /\ DebtBounded)
  <1> DEFINE Holds == /\ GoodsConsistent /\ TasksConsistent /\ FriendsAgree
                      /\ SavedWhole /\ NamesKept /\ DebtBounded
  <1>1. Init => AllInv /\ StacksInv
    BY AllStart
  <1>2. AllInv /\ StacksInv /\ [Next]_vars => AllInv' /\ StacksInv'
    BY AllKept
  <1>3. AllInv /\ StacksInv => Holds
    <2>1. AllInv /\ StacksInv => GoodsConsistent
      BY DEF AllInv, GoodsInv, StacksInv, AllFit, FitsIn, GoodsConsistent, StacksFit
    <2>2. AllInv => TasksConsistent /\ FriendsAgree /\ SavedWhole /\ NamesKept /\ DebtBounded
      BY FittingIs, CalmAgree, StoredIsWhole DEF AllInv, MissionsInv, MailInv, CharactersInv
    <2> QED
      BY <2>1, <2>2
  <1> QED
    BY <1>1, <1>2, <1>3, PTL DEF Spec

\* No step of the five makes anything for nothing, for the player or in the mail.
THEOREM AllMakeNothing ==
    ASSUME PotTakesEquipment, EquipmentIsSingle
    PROVE  Spec => NoFreeWealth /\ MailMakesNothing
  <1>1. Init => AllInv /\ StacksInv
    BY AllStart
  <1>2. AllInv /\ StacksInv /\ [Next]_vars => AllInv' /\ StacksInv'
    BY AllKept
  <1>3. AllInv /\ StacksInv /\ AllInv' /\ [Next]_vars => [NothingForFree]_goodsVars
    BY AllSteps, StepForFree DEF AllInv, StacksInv
  <1>4. AllInv /\ [Next]_vars => [NothingMade]_mailVars
    BY AllSteps, MailStepMakes DEF AllInv
  <1> QED
    BY <1>1, <1>2, <1>3, <1>4, PTL DEF Spec, NoFreeWealth, MailMakesNothing
=============================================================================
