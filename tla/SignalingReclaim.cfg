CONSTANTS
    ManagedSockets = {m1}
    InviteSockets = {}
    ClientSockets = {c1, c2}
    Sessions = {s1, s2}
    HostIds = {h1}
    InviteIds = {}
    MaxSessions = 2
    MaxPending = 1
    MaxTotalPending = 2
    None = None
SPECIFICATION Spec
PROPERTY ReclaimedClientHarmless
