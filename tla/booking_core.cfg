SPECIFICATION Spec
CONSTANTS
    room = room  hall = hall  ann = ann  sue = sue  u1 = u1
    k1 = k1  k2 = k2  k3 = k3  w1 = w1  w2 = w2  w3 = w3
    Resource = {room}
    User = {ann, sue}
    Unit = {u1}
    Rid = {k1, k2}
    Worker = {w1, w2}
    NoUser = NoUser
    MaxTime = 1
    Period <- Near
    Ops = {"post", "put", "cancel", "bulk", "sync"}
    AskedStates = {}
    UnitOf <- OneUnit
    Exclusive = {}
    PerUser = {}
    NeedManual = {}
    MaxReservations <- One
    Cooldown <- One
    Perm <- MixedPerms
SYMMETRY Symmetric
CHECK_DEADLOCK FALSE
INVARIANTS TypeOK NoDoubleBooking BookingInv CooldownKept
PROPERTIES CreateWithinLimit
