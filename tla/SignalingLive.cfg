CONSTANTS
    ManagedSockets = {m1}
    InviteSockets = {i1}
    ClientSockets = {c1}
    Sessions = {s1, s2}
    HostIds = {h1}
    InviteIds = {x}
    MaxSessions = 1
    MaxPending = 1
    MaxTotalPending = 1
    None = None
SPECIFICATION FairSpec
INVARIANT HostReachable
PROPERTIES AbandonedLeaseEnds BrokenSessionEnds
