CONSTANTS
    cl1 = cl1
    cl2 = cl2
    hero = hero
    sidekick = sidekick
    loner = loner
    acc1 = acc1
    acc2 = acc2
    None = None
    Client <- TwoClients
    Character = {hero}
    Account = {acc1}
    Owner <- OneHero
    MaxProgress = 1
SPECIFICATION Spec
INVARIANT
    NothingLost
