CONSTANTS
    cl1 = cl1
    cl2 = cl2
    hero = hero
    sidekick = sidekick
    loner = loner
    acc1 = acc1
    acc2 = acc2
    None = None
    Client <- TwoClients
    Character = {hero, loner}
    Account = {acc1, acc2}
    Owner <- TwoAccountOwner
    MaxProgress = 1
SYMMETRY ClientSymmetry
SPECIFICATION Spec
INVARIANTS
    LostByHasteOnly
    PhantomByHasteOnly
PROPERTY
    StoreSpec
