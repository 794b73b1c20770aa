CONSTANTS
    ann = ann
    bob = bob
    cyd = cyd
    n1 = n1
    n2 = n2
    run = run
    jump = jump
    Player = {ann, bob, cyd}
    Nano = {n1, n2}
    Bit = {run, jump}
    None = None
    Tuned <- TunedNanos
    GroupLimit = 4
    MaxInvites = 1
SPECIFICATION BuffSpec
INVARIANT
    NoStrayBuff
