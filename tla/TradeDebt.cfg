CONSTANTS
    ann = ann
    bob = bob
    cyd = cyd
    gum = gum
    hat = hat
    None = None
    Player = {ann, bob, cyd}
    Item = {gum, hat}
    InvenSize = 1
    TradeSize = 1
    StartInven <- ThreeInven
    StartMoney <- ThreeMoney
    ItemCost = 1
    MaxOffers = 1
SPECIFICATION TradingSpec
INVARIANT
    NoDebt
