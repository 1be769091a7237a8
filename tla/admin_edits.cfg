SPECIFICATION Spec
CONSTANTS
    a1 = a1  a2 = a2  q1 = q1  q2 = q2  r1 = r1  r2 = r2  v1 = v1  v2 = v2
    Group = {child}
    Order = {o1}
    Admin = {a1, a2}
    ListPrice = {5}
    SlotPrices = {1}
    GroupPrices = {3}
    MaxVersion = 3
    MaxRows = 2
    PeriodId = {i1, i2}
    Request = {q1, q2}
    MaxEdits = 3
    Unit = Unit
    None = None
    Times = {0, 1, 2, 3, 4}
    Closed = Closed
    MaxReservations = 3
    Units = {v1, v2}
    FormRows = 2
    MaxSaves = 3
SYMMETRY Symmetric
CHECK_DEADLOCK FALSE
INVARIANTS TypeOK PriceKept SlotsFollow DetailsAddUp HoursMatch SearchesAgree LevelsClosed ListsAgree
PROPERTIES KeptStayClear
