SPECIFICATION FairSpec
CONSTANTS
    o1 = o1  o2 = o2  w1 = w1  w2 = w2  c1 = c1
    Order = {o1}
    Worker = {w1, w2}
    Cron = {}
    Nobody = Nobody
    Manual = {TRUE}
    StaffPerm = {"staff", "bypass", "approve", "edit_paid"}
    Ops = {"put", "callback"}
    AskedStates = {"confirmed"}
CHECK_DEADLOCK FALSE
INVARIANTS ConfirmedIsPaid OrderInv
PROPERTIES RequestEnds
