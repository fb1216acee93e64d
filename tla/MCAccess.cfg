SPECIFICATION Spec
CONSTANTS
    None = None
    read = read  write = write  admin = admin  p1 = p1
    w1 = w1  w2 = w2  r1 = r1  r2 = r2  o1 = o1  o2 = o2  old = old
    Assignment = {1, 2}
    Grant = {1, 2, 3, 4}
    Assigner = {w1, w2}
    IsAdmin = FALSE
    Capability = {read, write, admin}
    Admin = admin
    RoleCapabilities = {read, write}
    Project = {p1}
    Expiry = {1, 2}
    Never = 2
    Key = {1, 2, 3}
    Client = {r1, r2}
    Interval = 0
    Lifetime = 1
    Horizon = 1
    Owner = {o1, o2}
    Stale = old
    MaxAge = 1
    LastHour = 2
    MaxCookies = 3
INVARIANT CapabilitiesHaveACause
INVARIANT RolesGiveTheirCapabilities
INVARIANT RotationsReplace
INVARIANT OwnerStandsAlone
PROPERTY LastUsedNeverMovesBack
SYMMETRY Symmetry
