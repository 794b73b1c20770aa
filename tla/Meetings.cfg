CONSTANTS
    ann = ann
    bob = bob
    cyd = cyd
    n1 = n1
    n2 = n2
    run = run
    jump = jump
    gum = gum
    hat = hat
    Player = {ann, bob, cyd}
    Nano = {n1, n2}
    Bit = {run, jump}
    None = None
    Tuned <- TunedNanos
    GroupLimit = 3
    MaxInvites = 2
    Traders = {ann, bob}
    Item = {gum, hat}
    InvenSize = 2
    TradeSize = 2
    StartInven <- TwoInven
    StartMoney <- TwoMoney
    ItemCost = 1
    MaxOffers = 1
SPECIFICATION MeetingSpec
VIEW View
INVARIANTS
    MeetingTypeOK
    GroupsConsistent
    OwnBuffKept
PROPERTIES
    NoSwitch
    LeavingDropsGroupBuffs
    ConfirmedOfferStands
    TradeIsExact
