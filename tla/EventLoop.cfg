CONSTANTS
    c1 = c1
    c2 = c2
    acc1 = acc1
    None = None
    Client = {c1, c2}
    Account = {acc1}
    Owner <- Owners
    MaxFd = 2
    MaxForeign = 1
    Foreign = Foreign
SPECIFICATION FairSpec
INVARIANTS
    LoopTypeOK
    NoUseAfterDelete
    ConnectionsPolled
    OwnDescriptor
PROPERTY
    ThrownOutUnlessClash
