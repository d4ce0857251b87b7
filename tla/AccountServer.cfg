SPECIFICATION Spec
CONSTANTS
    Users = {u1, u2}
    Browsers = {b1, b2}
    Passkeys = {k1, k2}
    MaxCodes = 3
    Logins = {l1}
    Bindings = {d1, d2}
    Ceremonies = {c1, c2}
    Devices = {phone}
    MaxTokens = 2
    Pairings = {p1, p2}
    HostIds = {h1, h2}
    None = None
SYMMETRY Symmetric
CONSTRAINT OnePart
INVARIANTS TypeOK AccountReachable BindingHonoured AccessFollowsSession
PROPERTY RefinesGrant
