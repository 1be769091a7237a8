SPECIFICATION FairSpec
CONSTANTS
    room = room  hall = hall  ann = ann  sue = sue  u1 = u1
    k1 = k1  k2 = k2  k3 = k3  w1 = w1  w2 = w2  w3 = w3
    Resource = {room}
    User = {ann, sue}
    Unit = {u1}
    Rid = {k1, k2}
    Worker = {w1, w2}
    NoUser = NoUser
    MaxTime = 0
    Period <- Once
    Ops = {"post", "put", "cancel"}
    AskedStates = {"confirmed", "requested", "denied"}
    UnitOf <- OneUnit
    Exclusive = {}
    PerUser = {}
    NeedManual = {room}
    MaxReservations <- Many
    Cooldown <- None
    Perm <- BoundPerms
CHECK_DEADLOCK FALSE
PROPERTIES DecisionKept ConfirmedStaysPut RequestEnds
