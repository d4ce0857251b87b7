SPECIFICATION FairSpec
CONSTANTS
    console = console
    remote = remote
    w1 = w1
    w2 = w2
    None = None
    Sessions <- TwoSessions
    Console = console
    Slots <- TwoSlots
INVARIANTS TypeOK WorkersAccounted IdentityKept
PROPERTIES FollowsSession StopHonoured
