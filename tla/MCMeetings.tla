----------------------------- MODULE MCMeetings -----------------------------
(***************************************************************************)
(* Players that meet: three of them group, with the nanos of MCGroupBuffs, *)
(* or two of them trade a stack that can be split over trade slots, a      *)
(* place that is free and a few taros.  Players enter and leave for both   *)
(* modules at once.  Groups and trades share no more than that, and a      *)
(* behaviour explores the one or the other (meeting).                      *)
(***************************************************************************)
EXTENDS MCGroupBuffs, Trading

CONSTANTS gum, hat,
    Traders  \* the players that trade

ASSUME MeetingsAssumption == Traders \subseteq Player

VARIABLE meeting

dealVars == <<owned, flags, offered, offers, partner>>
meetingVars == <<meeting, allVars, dealVars>>

TwoInven == [p \in Player |-> IF p = ann THEN <<Of(gum, 2), NoItem>> ELSE <<NoItem, NoItem>>]
TwoMoney == [p \in Player |-> IF p = bob THEN 1 ELSE 0]

MeetingInit == meeting \in {"groups", "trades"} /\ BuffInit /\ TradingInit

\* enterPlayer and removePlayer are of both.
EnterOrLeave(p) ==
    /\ meeting = "trades" => p \in Traders
    /\ \/ BuffEnter(p) /\ EnterGame(p)
       \/ BuffExit(p) /\ ExitGame(p)

GroupStep ==
    /\ meeting = "groups"
    /\ \/ \E p \in Player : BuffLeave(p)
       \/ \E p \in Player, n \in Nano \cup {None} : SummonNano(p, n)
       \/ \E p, q \in Player : BuffJoin(p, q)
       \/ /\ \E p, q \in Player : Invite(p, q) \/ Refuse(p, q) \/ JoinFail(p, q)
          /\ UNCHANGED buffVars
    /\ UNCHANGED dealVars

DealStep ==
    /\ meeting = "trades"
    /\ \/ \E p \in Traders : CancelAlone(p)
       \/ \E p, q \in Traders :
            TradeOffer(p, q) \/ TradeOfferRefusal(p, q) \/ TradeOfferAccept(p, q) \/ TradeStep(p, q)
       \/ \E p \in Traders, item \in Item : VendorBuy(p, item)
       \/ \E p \in Traders, place \in Place : ItemDelete(p, place)
    /\ UNCHANGED allVars

MeetingNext ==
    /\ (\E p \in Player : EnterOrLeave(p)) \/ GroupStep \/ DealStep
    /\ UNCHANGED meeting

MeetingSpec == MeetingInit /\ [][MeetingNext]_meetingVars

\* What has been offered matters while its player is trading, and only then:
\* tradeOfferAccept clears it before tradeConfirm can look at it again.  The
\* flags matter while the player is in the game: it enters with them cleared.
InTheGame(p) == p \in inGame /\ isTrading[p]
View ==
    <<meeting, allVars, owned, offers, partner,
      [p \in Player |-> IF InTheGame(p) THEN <<TRUE, isTradeConfirm[p], Trade[p], moneyInTrade[p]>>
                        ELSE <<FALSE, FALSE, NoOffers, 0>>]>>

\* The types of the variables of both modules.
MeetingTypeOK == BuffTypeOK /\ TradingTypeOK

=============================================================================
