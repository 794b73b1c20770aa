CONSTANTS
    cl1 = cl1
    cl2 = cl2
    hero = hero
    sidekick = sidekick
    loner = loner
    acc1 = acc1
    acc2 = acc2
    None = None
    Client <- TwoClients
    Character = {hero, sidekick}
    Account = {acc1}
    Owner <- OneAccountOwner
    MaxProgress = 1
SPECIFICATION FairSpec
INVARIANTS
    TypeOK
    OneSessionPerAccount
    OneLoginPerAccount
    GetPlayerNeverAsserts
    NoDanglingSocket
    HandlerInv
PROPERTY
    GoneIsReaped
