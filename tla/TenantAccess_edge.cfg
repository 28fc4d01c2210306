SPECIFICATION Spec
CONSTANTS
    u1 = u1
    c1 = c1
    c2 = c2
    r1 = r1
    None = None
    User = {u1}
    Founder = u1
    Client = {c1, c2}
    Request = {r1}
    Role = {"tenant_admin", "researcher"}
    Mode = {"oidc", "founder_secret"}
    Limit = 2
    Window = 2
    TTL = 2
    MaxTime = 2
SYMMETRY Symmetry
INVARIANTS
    RateIsBounded
    ServedWhileMember
PROPERTIES
    LimitedOnlyWhenUsedUp
    
