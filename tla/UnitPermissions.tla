--------------------------- MODULE UnitPermissions ---------------------------
(***************************************************************************)
(* Who may do what with the resources of a unit, and how a user comes to   *)
(* it: authorizations of a level, admin, manager or viewer, in a unit      *)
(* (src/resources/models/unit.py), the forms of Respa Admin and the API    *)
(* that edit them, and the two ways in which the code asks for a           *)
(* permission, of one resource (Resource._has_perm) and as a query         *)
(* (ResourceQuerySet.with_perm).                                           *)
(*                                                                         *)
(* The state is that of one user who is logged in; what others may do is   *)
(* independent of it.  A resource is as its unit.                          *)
(***************************************************************************)
EXTENDS Integers, FiniteSetsExt

CONSTANTS
    Units,
    Request,  \* requests that post the form of the user
    FormRows, \* bound: rows a form adds, changes or deletes
    MaxSaves  \* bound on edits

UnitPermissionsAssumption == FormRows \in Nat /\ MaxSaves \in Nat

VARIABLES
    made,     \* the units there are
    levels,   \* the user's authorizations, a set of levels for each unit
    approver, \* the units in which the user holds can_approve_reservation
    staff,    \* is the user staff?
    posted,   \* for each request, what validation has read; none when it is idle
    saves,    \* the number of edits
    uneven    \* units whose levels an edit may have left uneven (see LevelsClosed)

vars == <<made, levels, approver, staff, posted, saves, uneven>>

-----------------------------------------------------------------------------
(* Levels *)

UnitAuthorizationLevel == {"admin", "manager", "viewer"}
Row == Units \X UnitAuthorizationLevel

Rank == [viewer |-> 1, manager |-> 2, admin |-> 3]
Below(l) == {m \in UnitAuthorizationLevel : Rank[m] < Rank[l]}
Highest(L) == CHOOSE l \in L : \A m \in L : Rank[m] <= Rank[l]

\* (mutant) compared by rank
MutLess(l, m) == Rank[l] < Rank[m]

\* The database compares levels by their names
Less(l, m) == <<l, m>> \in {<<"admin", "manager">>, <<"admin", "viewer">>, <<"manager", "viewer">>}

\* _ensure_lower_auth of a row of level l of one user and unit, who has the rows L there
EnsureLower(L, l) ==
    LET less == {m \in L : Less(m, l)}
    IN  L \cup Below(IF less = {} THEN l ELSE Highest(less))

Idle == [at |-> "idle"]

-----------------------------------------------------------------------------
(* Edits *)

Init ==
    /\ made \in SUBSET Units
    /\ levels = [v \in Units |-> {}] /\ approver = {} /\ staff = FALSE
    /\ posted = [q \in Request |-> Idle] /\ saves = 0 /\ uneven = {}

Count == saves < MaxSaves /\ saves' = saves + 1

\* An administrator posts the form of the user: rows are read for validation
Post(q) ==
    /\ posted[q] = Idle
    /\ posted' = [posted EXCEPT ![q] = [at |-> "posted", levels |-> levels, approver |-> approver]]
    /\ UNCHANGED <<made, levels, approver, staff, saves, uneven>>

At(rows, v) == {k[2] : k \in {r \in rows : r[1] = v}}
UnitsOf(rows) == {r[1] : r \in rows}
Rows(of) == {r \in Row : r[2] \in of[r[1]]}

\* The form saves some rows, new ones or ones that were read, even if others have deleted them
\* since, and deletes some; a changed row is one of each.  A new row that is there by now is an
\* error.  The user's row is locked from the first write on: one form is saved at a time
Write(gone, saved) ==
    LET base == [v \in Units |-> (levels[v] \ At(gone, v)) \cup At(saved, v)]
        \* When no row is saved the view looks at all that remain
        seen == IF saved = {} THEN base ELSE [v \in Units |-> At(saved, v)]
    IN  [v \in Units |-> IF seen[v] = {} THEN base[v] ELSE EnsureLower(base[v], Highest(seen[v]))]

\* A unit with a row in the form gets can_approve_reservation or loses it: as asked where a row
\* is changed, as it was read elsewhere, and it loses it when its last row is deleted, but not
\* when that row moves to another unit
Approvals(form, gone, saved) ==
    LET changed == UnitsOf(gone \cup saved)
        shown == UnitsOf(Rows(form.levels) \cup saved)
        kept == UnitsOf((Rows(form.levels) \ gone) \cup saved)
        moves == ~ saved \subseteq Rows(form.levels)
    IN  {A \in SUBSET Units : \A v \in Units :
            /\ v \notin shown => (v \in A <=> v \in approver)
            /\ v \in shown \ changed => (v \in A <=> v \in form.approver)
            /\ v \in (shown \ kept) \cap A => moves /\ v \in approver}

\* The rows a form may save or delete
Few(rows) == UNION {kSubset(n, rows) : n \in 0 .. FormRows}

\* ManageUserPermissionsView.forms_valid
Save(q) ==
    /\ posted[q] # Idle
    /\ \E gone \in Few(Rows(posted[q].levels)) : \E saved \in Few((made \X UnitAuthorizationLevel) \ gone) :
          /\ Cardinality(gone) + Cardinality(saved) <= FormRows
          /\ IF (saved \ Rows(posted[q].levels)) \cap Rows(levels) # {}
             THEN UNCHANGED <<levels, approver, staff, saves, uneven>>
             ELSE /\ Count
                  /\ levels' = Write(gone, saved)
                  /\ approver' \in Approvals(posted[q], gone, saved)
                  /\ staff' = (Rows(levels') # {})
                  /\ uneven' = IF saved = {} THEN {}
                               ELSE (uneven \cup UnitsOf(gone \cap Rows(levels))) \ UnitsOf(saved)
    /\ posted' = [posted EXCEPT ![q] = Idle]
    /\ UNCHANGED made

\* Unit.create_authorization
Authorize(L, l) == EnsureLower(L \cup {l}, l)

\* What the rows of a new unit may be: the user is named once or twice, with levels in some order,
\* and a level that is there by then is an error.  Once more adds nothing to it
Once == {Authorize({}, l) : l \in UnitAuthorizationLevel}
Twice == {Authorize(x[1], x[2]) : x \in {y \in Once \X UnitAuthorizationLevel : y[2] \notin y[1]}}

\* The API creates a unit with authorizations, all or nothing
CreateUnit(v) ==
    /\ v \notin made /\ Count
    /\ \E L \in {{}} \cup Once \cup Twice :
          levels' = [levels EXCEPT ![v] = L] /\ staff' = (staff \/ L # {})
    /\ made' = made \cup {v}
    /\ UNCHANGED <<approver, posted, uneven>>

\* Django Admin adds or deletes a row, and nothing with it, or changes the flag
AdminRow(v) ==
    /\ v \in made /\ Count
    /\ \E l \in UnitAuthorizationLevel :
          \/ l \in levels[v] /\ levels' = [levels EXCEPT ![v] = @ \ {l}]
          \/ l \notin levels[v] /\ staff /\ levels' = [levels EXCEPT ![v] = @ \cup {l}]
    /\ uneven' = uneven \cup {v}
    /\ UNCHANGED <<made, approver, staff, posted>>

AdminStaff ==
    /\ Count /\ staff' = ~staff
    /\ UNCHANGED <<made, levels, approver, posted, uneven>>

Next ==
    \/ \E q \in Request : Post(q) \/ Save(q)
    \/ \E v \in Units : CreateUnit(v) \/ AdminRow(v)
    \/ AdminStaff

Spec == Init /\ [][Next]_vars

-----------------------------------------------------------------------------
(* Permissions.  A user u has flags, levels, the units of the groups of    *)
(* units he administers, and the units in which the permission p at hand   *)
(* is granted to him by name, in the unit or in a group of resources.      *)

UNIT_ROLE_PERMISSIONS ==
    [can_approve_reservation |-> {},
     can_make_reservations |-> {"group_admin", "admin", "manager"},
     can_view_reservation_extra_fields |-> {"group_admin", "admin", "manager", "viewer"},
     can_create_reservations_for_other_users |-> {"group_admin", "admin"}]

Perm == DOMAIN UNIT_ROLE_PERMISSIONS

GeneralAdmin(u) == u.kind \in {"general", "super"}

\* (mutant) forgets the groups
MutUnitAdmin(u, v) == "admin" \in u.levels[v]

UnitAdmin(u, v) == v \in u.groups \/ "admin" \in u.levels[v]
IsAdmin(u, v) == GeneralAdmin(u) \/ UnitAdmin(u, v)
IsManager(u, v) == "manager" \in u.levels[v]
IsViewer(u, v) == "viewer" \in u.levels[v]

\* The resource has limits of age that the user does not keep; staff need not
OfWrongAge(u) == u.wrongAge /\ ~u.staff

HasRolePerm(u, v, p) ==
    LET roles == UNIT_ROLE_PERMISSIONS[p] IN
    \/ roles \cap {"admin", "group_admin"} # {} /\ IsAdmin(u, v)
    \/ "manager" \in roles /\ IsManager(u, v)
    \/ "viewer" \in roles /\ IsViewer(u, v)

\* _has_perm
HasPerm(u, v, p, allowAdmin) ==
    \/ IsAdmin(u, v) /\ allowAdmin
    \/ u.kind = "super"
    \/ /\ ~OfWrongAge(u)
       /\ IsManager(u, v) \/ IsAdmin(u, v) \/ HasRolePerm(u, v, p) \/ v \in u.granted

\* UnitQuerySet.by_roles
ByRoles(u, roles) ==
    IF roles = {} THEN {}
    ELSE IF u.kind = "super" \/ (roles \cap {"admin", "group_admin"} # {} /\ GeneralAdmin(u)) THEN Units
    ELSE {v \in Units : (v \in u.groups /\ "group_admin" \in roles) \/ u.levels[v] \cap roles # {}}

\* ResourceQuerySet.with_perm
WithPerm(u, p) == ByRoles(u, UNIT_ROLE_PERMISSIONS[p]) \cup u.granted

\* UnitQuerySet.managed_by, on which ResourceQuerySet.modifiable_by rests
ManagedBy(u) ==
    IF GeneralAdmin(u) THEN Units
    ELSE {v \in Units : v \in u.groups \/ u.levels[v] \cap {"admin", "manager"} # {}}

\* can_modify_resource of Respa Admin
CanModify(u, v) == IsAdmin(u, v) \/ IsManager(u, v)

\* ReservationQuerySet.extra_fields_visible, of reservations of others
ExtraFieldsVisible(u) ==
    IF u.kind = "super" THEN Units ELSE WithPerm(u, "can_view_reservation_extra_fields")

\* The users that the rows and the flag may belong to
Account == [kind : {"user", "general", "super"}, groups : SUBSET Units, granted : SUBSET Units,
            wrongAge : BOOLEAN, staff : {staff}, levels : {levels}]

-----------------------------------------------------------------------------
(* Properties *)

\* Every variable holds what it may.
TypeOK ==
    /\ made \subseteq Units /\ approver \subseteq Units /\ uneven \subseteq Units
    /\ levels \in [Units -> SUBSET UnitAuthorizationLevel] /\ staff \in BOOLEAN
    /\ DOMAIN posted = Request
    /\ \A q \in Request : posted[q] = Idle \/
          posted[q] \in [at : {"posted"}, approver : SUBSET Units,
                         levels : [Units -> SUBSET UnitAuthorizationLevel]]
    /\ saves \in 0 .. MaxSaves

\* Who has a level in a unit has all that are below it, on which code relies that asks for the
\* row of managers alone (resources/models/resource.py:518, respa_o365/calendar_sync.py:32):
\* in whatever order rows come, though a form that others overtake may bring back one of them,
\* and though the query in _ensure_lower_auth compares names of levels ("Ensure that the user
\* also has permission levels lower than the given one", resources/models/unit.py:299).  Only
\* a row edited in Django Admin, or deleted in a form that saves rows of other units, leaves a
\* unit uneven, until a form saves a row there, or none at all.
LevelsClosed ==
    \A v \in Units \ uneven : \A l \in levels[v] : Below(l) \subseteq levels[v]

\* The code answers who may do what in three ways, and they agree but for limits of age: whoever
\* modifies a resource is listed with it (resources/tests, test_can_modify_resource_matches_-
\* queryset in respa_admin/tests/test_permissions.py:100), extra fields are listed as they are
\* shown ("the following logic is also implemented in Reservation.are_extra_fields_visible()",
\* resources/models/reservation.py:72), and no query lists what the check of one resource,
\* even one that allows nothing to administrators as such, refuses.
ListsAgree == \A u \in Account :
    /\ ManagedBy(u) = {v \in Units : CanModify(u, v)}
    /\ ~OfWrongAge(u) =>
          /\ ExtraFieldsVisible(u)
                = {v \in Units : HasPerm(u, v, "can_view_reservation_extra_fields", TRUE)}
          /\ \A p \in Perm : WithPerm(u, p) \subseteq {v \in Units : HasPerm(u, v, p, FALSE)}
=============================================================================
