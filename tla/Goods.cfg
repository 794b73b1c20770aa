CONSTANTS
    None = None
    sword = sword
    gum = gum
    car = car
    oldcar = oldcar
    crate = crate
    card = card
    alice = alice
    bob = bob
    hunt = hunt
    walk = walk
    back = back
    make = make
    rat = rat
    tail = tail
    letter = letter
    penny = penny
    quinn = quinn
    Item = {sword, gum, car, oldcar, crate, card, tail, letter}
    InvenSize = 2
    EquipSlot = {0, 8}
    StatSlot = {0}
    Bank = {0, 1}
    BankSize = 1
    ItemData <- AllData
    Expired <- TimeOut
    Content <- Inside
    Card <- Opens
    Gumball <- Chews
    NanoStyle <- Styles
    Listing = {gum}
    Recipe <- Pots
    BuybackSize = 1
    BatteryCap = 2
    BatteryUnit = 2
    PotCost = 1
    Drop = 1
    StartItems <- Kits
    MaxStacks = 1
    StartTaros = 1
    StartBattery = 0
    MaxTaros = 1
    MaxDebt = 1
    Player = {alice, bob}
    payzone <- Zones
    EmailSlots = 2
    PageSize = 1
    PostageBase = 1
    PostageItem = 1
    StartInven <- FirstBags
    StartMoney <- Purse
    MaxIndex = 1
    MaxCash = 1
    Task = {hunt, walk, back, make}
    TaskData <- AllTasks
    Rewards <- Prizes
    AvatarGrowth <- Growth
    MaxLevel = 2
    ActiveTasks = 2
    QuestPlaces = 2
    MobType = {rat}
    FmGain = {1}
    StartRoom = 1
    MaxQuestItems = 2
    BuddySlots = 2
    MaxBlocks = 1
    Login = {alice}
    Gm = {}
    Name = {penny, quinn}
    CharSlot = {1}
    MaxId = 2
    MaxStamp = 1
    MaxAway = 1
    Fragile = {2}
    Failing = {"Nanos"}
SYMMETRY NameSymmetry
SPECIFICATION Spec
INVARIANTS
    TypesOK
    GoodsConsistent
    TasksConsistent
    FriendsAgree
    SavedWhole
    NamesKept
    DebtBounded
PROPERTIES
    NoFreeWealth
    MailMakesNothing
CHECK_DEADLOCK FALSE
