SPECIFICATION Spec
CONSTANTS
    r1 = r1  c1 = c1  c2 = c2  k1 = k1  k2 = k2  p1 = p1  p2 = p2
    Reservation = {r1}
    Grant = {1, 2, 3}
    Cron = {c1, c2}
    Code = {k1, k2}
    Period = {p1, p2}
    Setting <- SafetySettings
    None = None
SYMMETRY Symmetric
CHECK_DEADLOCK FALSE
INVARIANTS TypeOK ExclusiveAccess NoForgottenCode NoSharedCode InstalledOpens
PROPERTIES GrantsLive
