------------------------------ MODULE Trading ------------------------------
(***************************************************************************)
(* Trading.cpp: an exchange of items and taros between two players.  The   *)
(* server keeps two flags and an offer per player but not who trades with  *)
(* whom: each request names the two players (iID_From, iID_To), so the     *)
(* partner of a trade is what the client that asks believes it to be.      *)
(*                                                                         *)
(* An item is its kind (iID, iType) and its count iOpt; time limits, which *)
(* a trade neither moves nor clears, are left out.  What a finished or     *)
(* cancelled trade leaves in Trade and moneyInTrade is cleared by the next *)
(* tradeOfferAccept before anything looks at it, so the slot numbers that  *)
(* doTrade writes back for its reply are left out too.  An operator marked *)
(* "mutant" is a slip in the definition that follows it, for the runs that *)
(* must notice it.                                                         *)
(***************************************************************************)
EXTENDS Online, Inventory

CONSTANTS
    TradeSize,   \* 5 in the code
    StartInven,  \* what each player owns at first
    StartMoney,
    ItemCost,    \* what a vendor asks for an item
    MaxOffers    \* bound on the offers that wait for an answer

TradeSlot == 1 .. TradeSize

\* sItemTrade: so many of the item in that place of the inventory.
Offer == [item : Item \cup {None}, opt : Nat, place : Place \cup {0}]
NoOffer == [item |-> None, opt |-> 0, place |-> 0]
NoOffers == [i \in TradeSlot |-> NoOffer]

ASSUME TradingAssumption ==
    /\ None \notin Item
    /\ InvenSize \in Nat \ {0} /\ TradeSize \in Nat
    /\ ItemCost \in Nat /\ MaxOffers \in Nat
    /\ StartInven \in [Player -> [Place -> Stack]]
    /\ StartMoney \in [Player -> Nat]

VARIABLES
    Inven,           \* each player's inventory
    money,           \* taros, signed
    isTrading,
    isTradeConfirm,
    Trade,           \* each player's offer: items ...
    moneyInTrade,    \* ... and taros
    offers,          \* <<from, to>>: the offers that a client can still answer
    partner          \* whom each client is trading with, as far as it knows

flags == <<isTrading, isTradeConfirm>>
offered == <<Trade, moneyInTrade>>
owned == <<Inven, money>>
tradeVars == <<inGame, owned, flags, offered, offers, partner>>

TradingInit ==
    /\ inGame = {}
    /\ Inven = StartInven
    /\ money = StartMoney
    /\ isTrading = [p \in Player |-> FALSE]
    /\ isTradeConfirm = [p \in Player |-> FALSE]
    /\ Trade = [p \in Player |-> NoOffers]
    /\ moneyInTrade = [p \in Player |-> 0]
    /\ offers = {}
    /\ partner = [p \in Player |-> None]

-----------------------------------------------------------------------------
(***************************************************************************)
(* doTrade.                                                                *)
(***************************************************************************)

\* "iOpt < 1": at least one is given.
Given(o) == IF o.opt < 1 THEN 1 ELSE o.opt

\* Is there what is offered, where it is offered from?
CanTakeAny(inv, o) == o.item = None \/ inv[o.place].item = o.item  \* mutant
CanTake(inv, o) == o.item = None \/ (inv[o.place].item = o.item /\ inv[o.place].opt >= Given(o))

TakeAll(inv, o) == IF o.item = None THEN inv ELSE [inv EXCEPT ![o.place] = NoItem]  \* mutant
Less(stack, n) == IF stack.opt = n THEN NoItem ELSE [stack EXCEPT !.opt = @ - n]
Take(inv, o) ==
    IF o.item = None THEN inv ELSE [inv EXCEPT ![o.place] = Less(@, Given(o))]

\* What is received goes to the first free place, never onto a stack.
CanPut(inv, o) == o.item = None \/ FreePlaces(inv) # {}
Put(inv, o) ==
    IF o.item = None THEN inv
    ELSE PutFirst(inv, Of(o.item, Given(o)))

\* One turn of the loop, on the two copies of the inventories: both give, then
\* both receive.
SwapSlot(st, mine, theirs) ==
    IF ~(st.ok /\ CanTake(st.mine, mine) /\ CanTake(st.theirs, theirs))
    THEN [st EXCEPT !.ok = FALSE]
    ELSE LET gave == Take(st.mine, mine)
             gave2 == Take(st.theirs, theirs)
         IN  IF ~(CanPut(gave, theirs) /\ CanPut(gave2, mine))
             THEN [st EXCEPT !.ok = FALSE]
             ELSE [ok |-> TRUE, mine |-> Put(gave, theirs), theirs |-> Put(gave2, mine)]

\* The whole loop: whether the trade can be made and the inventories after it.
Swap(p, q) ==
    LET after[i \in 0 .. TradeSize] ==
          IF i = 0 THEN [ok |-> TRUE, mine |-> Inven[p], theirs |-> Inven[q]]
          ELSE SwapSlot(after[i - 1], Trade[p][i], Trade[q][i])
    IN  after[TradeSize]

-----------------------------------------------------------------------------
(***************************************************************************)
(* The handlers.  A client asks for a trade with another player only.      *)
(***************************************************************************)

EnterGame(p) ==
    /\ p \notin inGame
    /\ inGame' = inGame \cup {p}
    /\ isTrading' = [isTrading EXCEPT ![p] = FALSE]
    /\ isTradeConfirm' = [isTradeConfirm EXCEPT ![p] = FALSE]
    /\ Trade' = [Trade EXCEPT ![p] = NoOffers]
    /\ moneyInTrade' = [moneyInTrade EXCEPT ![p] = 0]
    /\ UNCHANGED <<owned, offers, partner>>

\* removePlayer knows nothing of trades.
ExitGame(p) ==
    /\ p \in inGame
    /\ inGame' = inGame \ {p}
    /\ offers' = {o \in offers : o[2] # p}
    /\ partner' = [partner EXCEPT ![p] = None]
    /\ UNCHANGED <<owned, flags, offered>>

\* tradeOffer: who is trading is not shown the offer.
TradeOffer(p, q) ==
    /\ p \in inGame /\ q \in inGame /\ p # q
    /\ partner[p] = None
    /\ ~isTrading[q]
    /\ Cardinality(offers) < MaxOffers
    /\ offers' = offers \cup {<<p, q>>}
    /\ UNCHANGED <<inGame, owned, flags, offered, partner>>

\* tradeOfferRefusal, or an answer that came too late.
TradeOfferRefusal(p, q) ==
    /\ q \in inGame
    /\ <<p, q>> \in offers
    /\ offers' = offers \ {<<p, q>>}
    /\ UNCHANGED <<inGame, owned, flags, offered, partner>>

\* tradeOfferAccept looks at the one who made the offer, not at the one who
\* accepts it: the answer may have crossed with the start of another trade.
TradeOfferAccept(p, q) ==
    /\ p \in inGame /\ q \in inGame
    /\ <<p, q>> \in offers
    /\ ~isTrading[p]
    /\ offers' = offers \ {<<p, q>>}
    /\ isTrading' = [isTrading EXCEPT ![p] = TRUE, ![q] = TRUE]
    /\ isTradeConfirm' = [isTradeConfirm EXCEPT ![p] = FALSE, ![q] = FALSE]
    /\ Trade' = [Trade EXCEPT ![p] = NoOffers, ![q] = NoOffers]
    /\ moneyInTrade' = [moneyInTrade EXCEPT ![p] = 0, ![q] = 0]
    /\ partner' = [partner EXCEPT ![p] = q, ![q] = p]
    /\ UNCHANGED <<inGame, owned>>

\* The request of p's client reaches a partner that is still in the game.
InTrade(p, q) == p \in inGame /\ partner[p] = q /\ q \in inGame

\* Each client that is told its trade is over closes it.
Closed(p, q) == [partner EXCEPT ![p] = None, ![q] = IF @ = p THEN None ELSE @]

Ended(p, q) ==
    /\ isTrading' = [isTrading EXCEPT ![p] = FALSE, ![q] = FALSE]
    /\ isTradeConfirm' = [isTradeConfirm EXCEPT ![p] = FALSE, ![q] = FALSE]

\* tradeConfirm: "both players must be trading".
ConfirmAbort(p, q) ==
    /\ InTrade(p, q)
    /\ ~(isTrading[p] /\ isTrading[q])
    /\ partner' = Closed(p, q)
    /\ UNCHANGED <<inGame, owned, flags, offered, offers>>

ConfirmFirst(p, q) ==
    /\ InTrade(p, q)
    /\ isTrading[p] /\ isTrading[q]
    /\ ~isTradeConfirm[q]
    /\ isTradeConfirm' = [isTradeConfirm EXCEPT ![p] = TRUE]
    /\ UNCHANGED <<inGame, owned, isTrading, offered, offers, partner>>

ConfirmSecond(p, q) ==
    /\ InTrade(p, q)
    /\ isTrading[p] /\ isTrading[q]
    /\ isTradeConfirm[q]
    /\ Ended(p, q)
    /\ LET swap == Swap(p, q)
       IN  IF swap.ok
           THEN /\ Inven' = [Inven EXCEPT ![p] = swap.mine, ![q] = swap.theirs]
                /\ money' = [money EXCEPT ![p] = @ + moneyInTrade[q] - moneyInTrade[p],
                                          ![q] = @ + moneyInTrade[p] - moneyInTrade[q]]
           ELSE UNCHANGED owned
    /\ partner' = Closed(p, q)
    /\ UNCHANGED <<inGame, offered, offers>>

\* tradeConfirmCancel; with a partner that has left nothing happens on the server.
ConfirmCancel(p, q) ==
    /\ InTrade(p, q)
    /\ Ended(p, q)
    /\ partner' = Closed(p, q)
    /\ UNCHANGED <<inGame, owned, offered, offers>>

CancelAlone(p) ==
    /\ p \in inGame /\ partner[p] \in Player \ inGame
    /\ partner' = [partner EXCEPT ![p] = None]
    /\ UNCHANGED <<inGame, owned, flags, offered, offers>>

\* Whoever changes an offer takes its own confirmation back.
StillConfirmed(p) == isTradeConfirm' = isTradeConfirm  \* mutant
Unconfirmed(p) == isTradeConfirm' = [isTradeConfirm EXCEPT ![p] = FALSE]

\* tradeRegisterItem: what is offered is looked at again in doTrade only.
RegisterItem(p, q, i, place, n) ==
    /\ InTrade(p, q)
    /\ Inven[p][place].item # None /\ n <= Inven[p][place].opt
    /\ Trade' = [Trade EXCEPT ![p][i] = [item |-> Inven[p][place].item, opt |-> n, place |-> place]]
    /\ Unconfirmed(p)
    /\ UNCHANGED <<inGame, owned, isTrading, moneyInTrade, offers, partner>>

UnregisterItem(p, q, i) ==
    /\ InTrade(p, q)
    /\ Trade' = [Trade EXCEPT ![p][i] = NoOffer]
    /\ Unconfirmed(p)
    /\ UNCHANGED <<inGame, owned, isTrading, moneyInTrade, offers, partner>>

\* tradeRegisterCash: no more than there is by now.
RegisterCash(p, q, n) ==
    /\ InTrade(p, q)
    /\ n <= money[p]
    /\ moneyInTrade' = [moneyInTrade EXCEPT ![p] = n]
    /\ Unconfirmed(p)
    /\ UNCHANGED <<inGame, owned, isTrading, Trade, offers, partner>>

\* Handlers of other components that do not ask whether the player is trading:
\* vendorBuy and itemDeleteHandler (itemMoveHandler does ask).
VendorBuy(p, item) ==
    /\ p \in inGame
    /\ ItemCost <= money[p]
    /\ FreePlaces(Inven[p]) # {}
    /\ money' = [money EXCEPT ![p] = @ - ItemCost]
    /\ Inven' = [Inven EXCEPT ![p] = Put(@, [item |-> item, opt |-> 1])]
    /\ UNCHANGED <<inGame, flags, offered, offers, partner>>

ItemDelete(p, place) ==
    /\ p \in inGame
    /\ Inven[p][place] # NoItem
    /\ Inven' = [Inven EXCEPT ![p][place] = NoItem]
    /\ UNCHANGED <<inGame, money, flags, offered, offers, partner>>

\* What p's client asks of the trade it has with q.
TradeStep(p, q) ==
    \/ ConfirmAbort(p, q) \/ ConfirmFirst(p, q) \/ ConfirmSecond(p, q) \/ ConfirmCancel(p, q)
    \/ \E i \in TradeSlot :
        \/ UnregisterItem(p, q, i)
        \/ \E place \in Place : \E n \in 1 .. Inven[p][place].opt : RegisterItem(p, q, i, place, n)
    \/ \E n \in 0 .. money[p] : RegisterCash(p, q, n)

TradingNext ==
    \/ \E p \in Player : EnterGame(p) \/ ExitGame(p) \/ CancelAlone(p)
    \/ \E p, q \in Player :
        TradeOffer(p, q) \/ TradeOfferRefusal(p, q) \/ TradeOfferAccept(p, q) \/ TradeStep(p, q)
    \/ \E p \in Player, item \in Item : VendorBuy(p, item)
    \/ \E p \in Player, place \in Place : ItemDelete(p, place)

TradingSpec == TradingInit /\ [][TradingNext]_tradeVars

-----------------------------------------------------------------------------

\* The types of the variables.  A count in an inventory is never negative.
TradingTypeOK ==
    /\ inGame \subseteq Player
    /\ Inven \in [Player -> [Place -> Stack]]
    /\ money \in [Player -> Int]
    /\ isTrading \in [Player -> BOOLEAN]
    /\ isTradeConfirm \in [Player -> BOOLEAN]
    /\ Trade \in [Player -> [TradeSlot -> Offer]]
    /\ moneyInTrade \in [Player -> Nat]
    /\ offers \subseteq Player \X Player
    /\ partner \in [Player -> Player \cup {None}]

\* Only who is trading has confirmed: a confirmation never outlives its trade
\* and counts for the next one (tradeConfirm trusts the other side's flag).
ConfirmWhileTrading == \A p \in Player : isTradeConfirm[p] => isTrading[p]

\* As long as a confirmation stands, nobody changes the offer that was confirmed
\* (tradeRegisterItem, tradeUnregisterItem, tradeRegisterCash): nobody gives what
\* it has not agreed to give.
ConfirmedOfferStands ==
    [][\A p \in Player : isTradeConfirm[p] /\ isTradeConfirm'[p] =>
         Trade'[p] = Trade[p] /\ moneyInTrade'[p] = moneyInTrade[p]]_tradeVars

\* How many of an item a slot of an offer and a whole offer give.
Amount(o, item) == IF o.item = item THEN Given(o) ELSE 0
InOffer(o, item) == SumFunction([i \in TradeSlot |-> Amount(o[i], item)])

\* A trade between the two is concluded, well or not, in this step.
Concluded(p, q) == p # q /\ isTradeConfirm[q] /\ InTrade(p, q) /\ isTrading[p] /\ isTrading[q]
                   /\ ~isTrading'[p] /\ ~isTrading'[q]
Happened(p, q) == Concluded(p, q) /\ owned' # owned

\* What a trade moves is what the two offered, item by item and in taros: nothing
\* is created, destroyed or left behind, wherever the items lie, however they are
\* spread over the trade slots and whatever became of the inventories since.
\* A trade that cannot be made changes nobody's belongings.
TradeIsExact ==
    [][\A p, q \in Player : Happened(p, q) =>
         /\ \A item \in Item :
              /\ Held(Inven'[p], item)
                   = Held(Inven[p], item) - InOffer(Trade[p], item) + InOffer(Trade[q], item)
              /\ Held(Inven'[q], item)
                   = Held(Inven[q], item) - InOffer(Trade[q], item) + InOffer(Trade[p], item)
         /\ money'[p] = money[p] - moneyInTrade[p] + moneyInTrade[q]
         /\ money'[q] = money[q] - moneyInTrade[q] + moneyInTrade[p]]_tradeVars

\* A trade is only made between two players that trade with each other: "prevent
\* trading with a player already trading" (Trading.cpp:149).
TradesWithPartner ==
    [][\A p, q \in Player : Happened(p, q) => partner[p] = q /\ partner[q] = p]_tradeVars

\* Nobody pays taros it does not have: "famous glitch, begone" (Trading.cpp:401).
NoDebt == \A p \in Player : money[p] >= 0

=============================================================================
