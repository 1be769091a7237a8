SPECIFICATION FairSpec
CONSTANTS
    o1 = o1  o2 = o2  w1 = w1  w2 = w2  c1 = c1
    Order = {o1}
    Worker = {w1, w2}
    Cron = {c1}
    Nobody = Nobody
    Manual = {TRUE, FALSE}
    StaffPerm = {"staff", "bypass", "approve", "edit_paid"}
    Ops = {"callback", "admin"}
    AskedStates = {}
CHECK_DEADLOCK FALSE
INVARIANTS OrderAndReservationAgree
PROPERTIES UnpaidOrderEnds
