CONSTANTS
    None = None
    ann = ann
    bob = bob
    Player = {ann, bob}
    Npc = {1, 2, 3, 4, 5, 6}
    Spots <- Walkable
    Lair = {1}
    Zone = {2}
    Entrance <- Inside
    ExitSpot <- Way
    FirstNpcs <- Loadout
    Roamer = {1}
    RegisterAt = {1}
    Path <- Ride
    MaxSummoned = 1
    Mob = {1, 2, 3, 4}
    FirstMobs <- Herd
    MobData <- Breeds
    MaxBullet = 2
    Nano = {1, 2}
    NanoSlot = {0}
    PassiveBit = {"FREEDOM", "PHOENIX", "PROTECT_INFECTION"}
    Egg <- Eggs
    MaxHealth = 2
    MaxStamina = 2
    BatteryUse = 1
    MaxWear = 1
SPECIFICATION Spec
INVARIANTS
    NoAssertion
CHECK_DEADLOCK FALSE
