SPECIFICATION Spec
CONSTANTS
    room = room  hall = hall  ann = ann  sue = sue  u1 = u1
    k1 = k1  k2 = k2  k3 = k3  w1 = w1  w2 = w2  w3 = w3
    Resource = {room, hall}
    User = {ann}
    Unit = {u1}
    Rid = {k1, k2}
    Worker = {w1, w2}
    NoUser = NoUser
    MaxTime = 0
    Period <- Pair
    Ops = {"post"}
    AskedStates = {}
    UnitOf <- OneUnit
    Exclusive = {u1}
    PerUser = {}
    NeedManual = {}
    MaxReservations <- Many
    Cooldown <- None
    Perm <- BoundPerms
SYMMETRY Symmetric
CHECK_DEADLOCK FALSE
INVARIANTS NoOverlapInUnit
