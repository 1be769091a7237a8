---------------------------- MODULE MCAdminEdits ----------------------------
(***************************************************************************)
(* An instance for TLC of the components whose rows administrators edit:   *)
(* Products, OpeningHours and UnitPermissions, and of the search for       *)
(* resources that are open and free.  They share no row, so each behaviour *)
(* is one of one of them; a search is one state.                           *)
(***************************************************************************)
EXTENDS Integers, Sequences, TLC

CONSTANTS
    Group, Order, Admin, ListPrice, SlotPrices, GroupPrices, MaxVersion, MaxRows,
    PeriodId, Request, MaxEdits, Unit, None, Times, Closed, MaxReservations,
    Units, FormRows, MaxSaves,
    a1, a2, q1, q2, r1, r2, v1, v2

Span == {<<0, 2>>, <<1, 3>>, <<2, 3>>}
Asked == {<<1, 2>>, <<1, 3>>}

Resource == <<r1, r2>>
Period(owner, start, end, days) ==
    [owner |-> owner, start |-> start, end |-> end, days |-> days]
Long == [opens |-> 8, closes |-> 16]
Short == [opens |-> 8, closes |-> 12]
Zero == [opens |-> 8, closes |-> 8]
PeriodRow ==
    {Period(Unit, 1, 2, 1 :> Long @@ 2 :> Short), Period(Unit, 2, 2, 2 :> Long),
     Period(r1, 1, 2, 1 :> Short @@ 2 :> Zero), Period(r1, 1, 1, 1 :> Long)}

VARIABLES
    part, \* the component that runs
    fixed, versions, slots, groups, orders, form, struck,
    periods, hours, deleted, edits, tx, strayed,
    open, reservations, asked,
    made, levels, approver, staff, posted, saves, uneven

P == INSTANCE Products
H == INSTANCE OpeningHours
S == INSTANCE AvailabilitySearch
U == INSTANCE UnitPermissions

ASSUME Constants ==
    /\ P!ProductAssumption /\ H!OpeningHoursAssumption /\ S!SearchAssumption
    /\ U!UnitPermissionsAssumption

products == <<fixed, versions, slots, groups, orders, form, struck>>
opening == <<periods, hours, deleted, edits, tx, strayed>>
search == <<open, reservations, asked>>
permissions == <<made, levels, approver, staff, posted, saves, uneven>>

NoSearch == open = Closed /\ reservations = {} /\ asked = {}

Init ==
    /\ P!Init /\ H!Init /\ U!Init
    /\ \/ part \in {"products", "hours"} /\ NoSearch /\ made = {}
       \/ part = "permissions" /\ NoSearch
       \/ part = "search" /\ S!Init /\ made = {}

Next ==
    \/ part = "products" /\ P!Next /\ UNCHANGED <<part, opening, search, permissions>>
    \/ part = "hours" /\ H!Next /\ UNCHANGED <<part, products, search, permissions>>
    \/ part = "permissions" /\ U!Next /\ UNCHANGED <<part, products, opening, search>>

Spec == Init /\ [][Next]_<<part, products, opening, search, permissions>>

Symmetric == Permutations(Admin) \cup Permutations(Request) \cup Permutations(Units)

\* Every variable of the components holds what it may.
TypeOK ==
    /\ part = "products" => P!TypeOK
    /\ part = "hours" => H!TypeOK
    /\ part = "permissions" => U!TypeOK

\* An order costs what its customer was asked to pay, but for two edits that add no version
\* (Products).
PriceKept == part = "products" => P!PriceKept

\* The slots in force belong to the current version (Products).
SlotsFollow == part = "products" => P!SlotsFollow

\* A slot that keeps its time never comes to clash with one that is added or moved (Products).
KeptStayClear == P!KeptStayClear

\* A price in detail adds up to the price (Products).
DetailsAddUp == part = "products" => P!DetailsAddUp

\* The daily hours are those that the periods give, but for those that went astray (OpeningHours).
HoursMatch == part = "hours" => H!HoursMatch

\* The two searches for free resources agree (AvailabilitySearch).
SearchesAgree == part = "search" => S!SearchesAgree

\* Who has a level in a unit has those below it (UnitPermissions).
LevelsClosed == part = "permissions" => U!LevelsClosed

\* The ways to ask for a permission agree (UnitPermissions).  They read the rows alone, so they are
\* asked while no form is open.
ListsAgree == part = "permissions" /\ (\A q \in Request : posted[q] = U!Idle) => U!ListsAgree
=============================================================================
