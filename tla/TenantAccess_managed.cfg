SPECIFICATION Spec
CONSTANTS
    u1 = u1
    u2 = u2
    c1 = c1
    r1 = r1
    None = None
    User = {u1, u2}
    Founder = u1
    Client = {c1}
    Request = {r1}
    Role = {"tenant_admin", "researcher"}
    Mode = {"oidc", "founder_secret"}
    Limit = 2
    Window = 2
    TTL = 2
    MaxTime = 0
PROPERTIES
    UpdatesTakeEffect
