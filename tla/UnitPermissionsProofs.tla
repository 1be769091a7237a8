------------------------ MODULE UnitPermissionsProofs ------------------------
(***************************************************************************)
(* For any number of units and of requests that edit the levels of a user, *)
(* however they overlap and however many rows a form has: levels come with *)
(* those below them, and the ways to ask for a permission agree.           *)
(***************************************************************************)
EXTENDS UnitPermissions, TLAPS

Levels == SUBSET UnitAuthorizationLevel

\* A set of levels that has all that are below any of them
IsClosed(L) == \A l \in L : Below(l) \subseteq L

-----------------------------------------------------------------------------
(* Levels                                                                  *)

LEMMA BelowIs ==
    /\ Below("admin") = {"manager", "viewer"} /\ Below("manager") = {"viewer"}
    /\ Below("viewer") = {}
BY SMT DEF Below, Rank, UnitAuthorizationLevel

LEMMA RankIs == Rank["viewer"] = 1 /\ Rank["manager"] = 2 /\ Rank["admin"] = 3
BY DEF Rank

\* A set of levels has a highest one
LEMMA HighestIs ==
    ASSUME NEW L \in Levels, L # {}
    PROVE  Highest(L) \in L /\ \A m \in L : Rank[m] <= Rank[Highest(L)]
<1>1. \E l \in L : \A m \in L : Rank[m] <= Rank[l]
  <2>1. CASE "admin" \in L
    BY <2>1, RankIs DEF Levels, UnitAuthorizationLevel
  <2>2. CASE "admin" \notin L /\ "manager" \in L
    BY <2>2, RankIs DEF Levels, UnitAuthorizationLevel
  <2>3. CASE L = {"viewer"}
    BY <2>3, RankIs
  <2> QED
    BY <2>1, <2>2, <2>3 DEF Levels, UnitAuthorizationLevel
<1> QED
  BY <1>1 DEF Highest

\* _ensure_lower_auth adds what is below the highest level, whichever row it is called for
LEMMA EnsureCloses ==
    ASSUME NEW L \in Levels, NEW l \in L
    PROVE  EnsureLower(L, l) \in Levels /\ IsClosed(EnsureLower(L, l))
<1> DEFINE less == {m \in L : Less(m, l)}
<1>1. \A m, k : Less(m, k) <=>
         \/ m = "admin" /\ k = "manager"
         \/ m = "admin" /\ k = "viewer"
         \/ m = "manager" /\ k = "viewer"
  BY DEF Less
<1>2. /\ EnsureLower(L, l) = L \cup Below(IF less = {} THEN l ELSE Highest(less))
      /\ less \in Levels
  BY DEF EnsureLower, Levels
<1>3. L \subseteq {"admin", "manager", "viewer"}
  BY DEF Levels, UnitAuthorizationLevel
<1>4. CASE "admin" \in L
  <2>1. (IF less = {} THEN l ELSE Highest(less)) = "admin"
    <3>1. CASE l = "admin"
      <4>1. less = {}
        BY <3>1, <1>1
      <4> QED
        BY <3>1, <4>1
    <3>2. CASE l # "admin"
      <4>1. "admin" \in less
        BY <3>2, <1>1, <1>3, <1>4
      <4>2. Highest(less) = "admin"
        <5> HIDE DEF less
        <5>1. Highest(less) \in less /\ Rank["admin"] <= Rank[Highest(less)]
          BY <4>1, <1>2, HighestIs
        <5>2. Highest(less) \in {"admin", "manager", "viewer"}
          BY <5>1, <1>2 DEF Levels, UnitAuthorizationLevel
        <5> QED
          BY <5>1, <5>2, RankIs
      <4> QED
        BY <4>1, <4>2
    <3> QED
      BY <3>1, <3>2
  <2>2. EnsureLower(L, l) = L \cup {"manager", "viewer"}
    BY <2>1, <1>2, BelowIs
  <2> QED
    BY <2>2, <1>3, BelowIs DEF IsClosed, Levels, UnitAuthorizationLevel
<1>5. CASE "admin" \notin L /\ "manager" \in L
  <2>1. (IF less = {} THEN l ELSE Highest(less)) = "manager"
    <3>1. CASE l = "manager"
      <4>1. less = {}
        BY <3>1, <1>1, <1>5
      <4> QED
        BY <3>1, <4>1
    <3>2. CASE l # "manager"
      <4>1. less = {"manager"}
        BY <3>2, <1>1, <1>3, <1>5
      <4>2. Highest(less) = "manager"
        <5> HIDE DEF less
        <5> QED
          BY <4>1, <1>2, HighestIs
      <4> QED
        BY <4>1, <4>2
    <3> QED
      BY <3>1, <3>2
  <2>2. EnsureLower(L, l) = L \cup {"viewer"}
    BY <2>1, <1>2, BelowIs
  <2> QED
    BY <2>2, <1>3, <1>5, BelowIs DEF IsClosed, Levels, UnitAuthorizationLevel
<1>6. CASE "admin" \notin L /\ "manager" \notin L
  <2>1. L = {"viewer"} /\ l = "viewer"
    BY <1>3, <1>6
  <2>2. less = {}
    BY <2>1, <1>1
  <2>3. EnsureLower(L, l) = L
    BY <2>1, <2>2, <1>2, BelowIs
  <2> QED
    BY <2>1, <2>3, BelowIs DEF IsClosed
<1> QED
  BY <1>4, <1>5, <1>6

\* create_authorization leaves a unit with closed levels
LEMMA AuthorizeCloses ==
    ASSUME NEW L \in Levels, NEW l \in UnitAuthorizationLevel
    PROVE  Authorize(L, l) \in Levels /\ IsClosed(Authorize(L, l))
<1>1. L \cup {l} \in Levels /\ l \in L \cup {l}
  BY DEF Levels
<1> QED
  BY <1>1, EnsureCloses DEF Authorize

\* So does the creation of a unit
LEMMA CreatedCloses ==
    ASSUME NEW L \in {{}} \cup Once \cup Twice
    PROVE  L \in Levels /\ IsClosed(L)
<1>1. \A k \in Once : k \in Levels /\ IsClosed(k)
  <2>1. {} \in Levels
    BY DEF Levels
  <2> QED
    BY <2>1, AuthorizeCloses DEF Once
<1>2. \A k \in Twice : k \in Levels /\ IsClosed(k)
  <2> SUFFICES ASSUME NEW k \in Twice PROVE k \in Levels /\ IsClosed(k)
    OBVIOUS
  <2>1. PICK o \in Once, l \in UnitAuthorizationLevel : k = Authorize(o, l)
    BY DEF Twice
  <2> QED
    BY <2>1, <1>1, AuthorizeCloses
<1>3. {} \in Levels /\ IsClosed({})
  BY DEF Levels, IsClosed
<1> QED
  BY <1>1, <1>2, <1>3

-----------------------------------------------------------------------------
(* Types                                                                   *)

\* The rows a form may save or delete are rows
LEMMA FewAre == ASSUME NEW R PROVE \A S \in Few(R) : S \subseteq R
BY DEF Few, kSubset

LEMMA WriteTypes ==
    ASSUME levels \in [Units -> Levels], NEW gone, NEW saved \in SUBSET Row
    PROVE  Write(gone, saved) \in [Units -> Levels]
<1> DEFINE base == [v \in Units |-> (levels[v] \ At(gone, v)) \cup At(saved, v)]
           seen == IF saved = {} THEN base ELSE [v \in Units |-> At(saved, v)]
<1>1. \A v \in Units : At(saved, v) \in Levels
  BY DEF At, Row, Levels
<1>2. \A v \in Units : base[v] \in Levels /\ seen[v] \in Levels /\ seen[v] \subseteq base[v]
  BY <1>1 DEF Levels
<1>3. ASSUME NEW v \in Units, seen[v] # {}
      PROVE  EnsureLower(base[v], Highest(seen[v])) \in Levels
  BY <1>2, <1>3, HighestIs, EnsureCloses
<1>4. Write(gone, saved)
        = [v \in Units |-> IF seen[v] = {} THEN base[v] ELSE EnsureLower(base[v], Highest(seen[v]))]
  BY DEF Write
<1> HIDE DEF base, seen
<1> QED
  BY <1>2, <1>3, <1>4

\* What the saving of a form does, from what was read to the levels that result
Saved(read, gone, saved) ==
    /\ gone \subseteq Row /\ saved \subseteq Row
    /\ \/ UNCHANGED <<levels, approver, staff, saves, uneven>>
       \/ /\ Count
          /\ levels' = Write(gone, saved)
          /\ approver' \in Approvals(read, gone, saved)
          /\ staff' = (Rows(levels') # {})
          /\ \/ saved = {} /\ uneven' = {}
             \/ /\ saved # {}
                /\ uneven' = (uneven \cup UnitsOf(gone \cap Rows(levels))) \ UnitsOf(saved)

LEMMA SaveIs ==
    ASSUME TypeOK, NEW q \in Request, Save(q)
    PROVE  /\ \E gone, saved : Saved(posted[q], gone, saved)
           /\ posted' = [posted EXCEPT ![q] = Idle] /\ made' = made
<1>1. PICK gone \in Few(Rows(posted[q].levels)) :
        \E saved \in Few((made \X UnitAuthorizationLevel) \ gone) :
          IF (saved \ Rows(posted[q].levels)) \cap Rows(levels) # {}
          THEN UNCHANGED <<levels, approver, staff, saves, uneven>>
          ELSE /\ Count
               /\ levels' = Write(gone, saved)
               /\ approver' \in Approvals(posted[q], gone, saved)
               /\ staff' = (Rows(levels') # {})
               /\ uneven' = IF saved = {} THEN {}
                            ELSE (uneven \cup UnitsOf(gone \cap Rows(levels))) \ UnitsOf(saved)
  BY DEF Save
<1>2. PICK saved \in Few((made \X UnitAuthorizationLevel) \ gone) :
        IF (saved \ Rows(posted[q].levels)) \cap Rows(levels) # {}
        THEN UNCHANGED <<levels, approver, staff, saves, uneven>>
        ELSE /\ Count
             /\ levels' = Write(gone, saved)
             /\ approver' \in Approvals(posted[q], gone, saved)
             /\ staff' = (Rows(levels') # {})
             /\ uneven' = IF saved = {} THEN {}
                          ELSE (uneven \cup UnitsOf(gone \cap Rows(levels))) \ UnitsOf(saved)
  BY <1>1
<1>3. gone \subseteq Row /\ saved \subseteq Row
  <2>1. gone \subseteq Rows(posted[q].levels) /\ saved \subseteq made \X UnitAuthorizationLevel
    BY FewAre
  <2> QED
    BY <2>1 DEF Rows, Row, TypeOK
<1>4. Saved(posted[q], gone, saved)
  <2>1. CASE (saved \ Rows(posted[q].levels)) \cap Rows(levels) # {}
    BY <2>1, <1>2, <1>3 DEF Saved
  <2>2. CASE (saved \ Rows(posted[q].levels)) \cap Rows(levels) = {}
    BY <2>2, <1>2, <1>3, Zenon DEF Saved
  <2> QED
    BY <2>1, <2>2
<1> QED
  BY <1>4 DEF Save

\* The bound on edits is kept
LEMMA CountTypes ==
    ASSUME UnitPermissionsAssumption, saves \in 0 .. MaxSaves, Count
    PROVE  saves' \in 0 .. MaxSaves
BY DEF Count, UnitPermissionsAssumption

\* What validation has read, of each request
Read ==
    /\ DOMAIN posted = Request
    /\ \A q \in Request : posted[q] = Idle \/
          posted[q] \in [at : {"posted"}, approver : SUBSET Units,
                         levels : [Units -> SUBSET UnitAuthorizationLevel]]

LEMMA SaveTypes ==
    ASSUME UnitPermissionsAssumption, TypeOK, NEW read, NEW gone, NEW saved, Saved(read, gone, saved)
    PROVE  levels' \in [Units -> Levels] /\ approver' \subseteq Units /\ staff' \in BOOLEAN
           /\ uneven' \subseteq Units /\ saves' \in 0 .. MaxSaves
<1>1. CASE UNCHANGED <<levels, approver, staff, saves, uneven>>
  BY <1>1 DEF TypeOK, Levels
<1>2. CASE ~ UNCHANGED <<levels, approver, staff, saves, uneven>>
  <2>1. /\ Count /\ levels' = Write(gone, saved) /\ gone \subseteq Row /\ saved \subseteq Row
        /\ approver' \in Approvals(read, gone, saved) /\ staff' = (Rows(levels') # {})
    BY <1>2 DEF Saved
  <2>2. uneven' = {} \/ uneven' = (uneven \cup UnitsOf(gone \cap Rows(levels))) \ UnitsOf(saved)
    BY <1>2 DEF Saved
  <2>3. levels' \in [Units -> Levels]
    BY <2>1, WriteTypes DEF TypeOK, Levels
  <2>4. approver' \subseteq Units
    BY <2>1 DEF Approvals
  <2>5. UnitsOf(gone \cap Rows(levels)) \subseteq Units
    BY <2>1 DEF UnitsOf, Row
  <2>6. uneven' \subseteq Units
    BY <2>2, <2>5 DEF TypeOK
  <2>7. saves' \in 0 .. MaxSaves
    BY <2>1, CountTypes DEF TypeOK
  <2> QED
    BY <2>1, <2>3, <2>4, <2>6, <2>7
<1> QED
  BY <1>1, <1>2

LEMMA TypeStep ==
    ASSUME UnitPermissionsAssumption, TypeOK, [Next]_vars
    PROVE  TypeOK'
<1>1. ASSUME NEW q \in Request, Post(q) PROVE TypeOK'
  <2>1. Read'
    BY <1>1 DEF Post, TypeOK, Read
  <2> QED
    BY <1>1, <2>1 DEF Post, TypeOK, Read
<1>2. ASSUME NEW q \in Request, Save(q) PROVE TypeOK'
  <2>1. PICK gone, saved : Saved(posted[q], gone, saved)
    BY <1>2, SaveIs
  <2>2. /\ levels' \in [Units -> Levels] /\ approver' \subseteq Units /\ staff' \in BOOLEAN
        /\ uneven' \subseteq Units /\ saves' \in 0 .. MaxSaves
    BY <2>1, SaveTypes
  <2>3. Read'
    BY <1>2, SaveIs DEF TypeOK, Read, Idle
  <2> QED
    BY <1>2, <2>2, <2>3, SaveIs DEF TypeOK, Levels, Read
<1>3. ASSUME NEW v \in Units, CreateUnit(v) PROVE TypeOK'
  <2>1. PICK L \in {{}} \cup Once \cup Twice :
          levels' = [levels EXCEPT ![v] = L] /\ staff' = (staff \/ L # {})
    BY <1>3 DEF CreateUnit
  <2>2. levels' \in [Units -> SUBSET UnitAuthorizationLevel]
    BY <2>1, CreatedCloses DEF TypeOK, Levels
  <2>3. staff' \in BOOLEAN
    BY <2>1
  <2> QED
    BY <1>3, <2>2, <2>3, CountTypes DEF CreateUnit, TypeOK
<1>4. ASSUME NEW v \in Units, AdminRow(v) PROVE TypeOK'
  BY <1>4, CountTypes DEF AdminRow, TypeOK
<1>5. CASE AdminStaff
  BY <1>5, CountTypes DEF AdminStaff, TypeOK
<1>6. CASE UNCHANGED vars
  BY <1>6 DEF vars, TypeOK
<1> QED
  BY <1>1, <1>2, <1>3, <1>4, <1>5, <1>6 DEF Next

LEMMA InitTypes == ASSUME UnitPermissionsAssumption, Init PROVE TypeOK
<1>1. made \subseteq Units /\ approver = {} /\ uneven = {} /\ saves \in 0 .. MaxSaves
  BY DEF Init, UnitPermissionsAssumption
<1>2. levels \in [Units -> SUBSET UnitAuthorizationLevel]
  BY DEF Init
<1>3. staff = FALSE
  BY DEF Init
<1>4. staff \in BOOLEAN
  BY <1>3, Zenon
<1>5. DOMAIN posted = Request /\ \A q \in Request : posted[q] = Idle
  BY DEF Init
<1> QED
  BY <1>1, <1>2, <1>4, <1>5 DEF TypeOK

\* Every variable holds what it may, for any number of units, requests and edits.
THEOREM TypeInvariant == ASSUME UnitPermissionsAssumption PROVE Spec => []TypeOK
<1>1. Init => TypeOK
  BY InitTypes
<1>2. TypeOK /\ [Next]_vars => TypeOK'
  BY TypeStep
<1> QED
  BY <1>1, <1>2, PTL DEF Spec

-----------------------------------------------------------------------------
(* Levels come with those below them                                       *)

\* A form closes the levels of the units of the rows it saves, or, if it saves none, of all units
LEMMA WriteCloses ==
    ASSUME levels \in [Units -> Levels], NEW gone, NEW saved \in SUBSET Row, NEW v \in Units,
           saved = {} \/ v \in UnitsOf(saved)
    PROVE  IsClosed(Write(gone, saved)[v])
<1> DEFINE base == [w \in Units |-> (levels[w] \ At(gone, w)) \cup At(saved, w)]
           seen == IF saved = {} THEN base ELSE [w \in Units |-> At(saved, w)]
<1>1. At(saved, v) \in Levels /\ (saved # {} => At(saved, v) # {})
  BY DEF At, Row, Levels, UnitsOf
<1>2. base[v] \in Levels /\ seen[v] \in Levels /\ seen[v] \subseteq base[v]
  BY <1>1 DEF Levels
<1>3. Write(gone, saved)[v]
        = IF seen[v] = {} THEN base[v] ELSE EnsureLower(base[v], Highest(seen[v]))
  BY DEF Write
<1>4. CASE seen[v] = {}
  <2>1. base[v] = {}
    BY <1>4, <1>1
  <2> QED
    BY <1>3, <1>4, <2>1 DEF IsClosed
<1>5. CASE seen[v] # {}
  <2> HIDE DEF base, seen
  <2>1. Highest(seen[v]) \in base[v]
    BY <1>2, <1>5, HighestIs
  <2> QED
    BY <1>2, <1>3, <1>5, <2>1, EnsureCloses
<1> QED
  BY <1>4, <1>5

\* Elsewhere it changes what it deletes
LEMMA WriteKeeps ==
    ASSUME levels \in [Units -> Levels], NEW gone \in SUBSET Row, NEW saved \in SUBSET Row,
           saved # {}, NEW v \in Units, v \notin UnitsOf(saved),
           v \notin UnitsOf(gone \cap Rows(levels))
    PROVE  Write(gone, saved)[v] = levels[v]
<1>1. At(saved, v) = {}
  BY DEF At, UnitsOf
<1>2. levels[v] \cap At(gone, v) = {}
  <2> SUFFICES ASSUME NEW l \in levels[v], l \in At(gone, v) PROVE FALSE
    OBVIOUS
  <2>1. PICK r \in gone : r[1] = v /\ r[2] = l
    BY DEF At
  <2>2. r \in gone \cap Rows(levels)
    BY <2>1 DEF Rows
  <2> QED
    BY <2>1, <2>2 DEF UnitsOf
<1> QED
  BY <1>1, <1>2 DEF Write

LEMMA LevelsStep ==
    ASSUME TypeOK, LevelsClosed, [Next]_vars
    PROVE  LevelsClosed'
<1> USE DEF LevelsClosed
<1>0. levels \in [Units -> Levels]
  BY DEF TypeOK, Levels
<1>1. ASSUME NEW q \in Request, Post(q) PROVE LevelsClosed'
  BY <1>1 DEF Post
<1>2. ASSUME NEW q \in Request, Save(q) PROVE LevelsClosed'
  <2>1. PICK gone, saved : Saved(posted[q], gone, saved)
    BY <1>2, SaveIs
  <2>2. CASE UNCHANGED <<levels, approver, staff, saves, uneven>>
    BY <2>2
  <2>3. CASE ~ UNCHANGED <<levels, approver, staff, saves, uneven>>
    <3>1. levels' = Write(gone, saved) /\ gone \subseteq Row /\ saved \subseteq Row
      BY <2>1, <2>3 DEF Saved
    <3>2. ASSUME NEW v \in Units \ uneven' PROVE IsClosed(levels'[v])
      <4>1. CASE saved = {} \/ v \in UnitsOf(saved)
        BY <1>0, <3>1, <4>1, WriteCloses
      <4>2. CASE saved # {} /\ v \notin UnitsOf(saved)
        <5>1. v \notin uneven /\ v \notin UnitsOf(gone \cap Rows(levels))
          BY <2>1, <2>3, <4>2 DEF Saved
        <5>2. levels'[v] = levels[v]
          BY <1>0, <3>1, <4>2, <5>1, WriteKeeps
        <5> QED
          BY <5>1, <5>2 DEF IsClosed
      <4> QED
        BY <4>1, <4>2
    <3> QED
      BY <3>2 DEF IsClosed
  <2> QED
    BY <2>2, <2>3
<1>3. ASSUME NEW v \in Units, CreateUnit(v) PROVE LevelsClosed'
  <2>1. PICK L \in {{}} \cup Once \cup Twice : levels' = [levels EXCEPT ![v] = L]
    BY <1>3 DEF CreateUnit
  <2>2. IsClosed(L)
    BY CreatedCloses
  <2> QED
    BY <1>3, <1>0, <2>1, <2>2 DEF CreateUnit, IsClosed
<1>4. ASSUME NEW v \in Units, AdminRow(v) PROVE LevelsClosed'
  BY <1>4, <1>0 DEF AdminRow
<1>5. CASE AdminStaff
  BY <1>5 DEF AdminStaff
<1>6. CASE UNCHANGED vars
  BY <1>6 DEF vars
<1> QED
  BY <1>1, <1>2, <1>3, <1>4, <1>5, <1>6 DEF Next

\* Whatever requests edit, and in whatever order, a unit that no edit of single rows has left
\* uneven has with each level those below it.
THEOREM LevelsInvariant == ASSUME UnitPermissionsAssumption PROVE Spec => []LevelsClosed
<1>1. Init => TypeOK /\ LevelsClosed
  BY InitTypes DEF Init, LevelsClosed
<1>2. TypeOK /\ LevelsClosed /\ [Next]_vars => TypeOK' /\ LevelsClosed'
  BY TypeStep, LevelsStep
<1> QED
  BY <1>1, <1>2, PTL DEF Spec

-----------------------------------------------------------------------------
(* The ways to ask agree                                                   *)

\* In any state: the queries and the checks are of the same rows
LEMMA Agree == ASSUME TypeOK PROVE ListsAgree
<1> SUFFICES ASSUME NEW u \in Account
             PROVE  /\ ManagedBy(u) = {v \in Units : CanModify(u, v)}
                    /\ ~OfWrongAge(u) =>
                          /\ ExtraFieldsVisible(u) = {v \in Units :
                                HasPerm(u, v, "can_view_reservation_extra_fields", TRUE)}
                          /\ \A p \in Perm :
                                WithPerm(u, p) \subseteq {v \in Units : HasPerm(u, v, p, FALSE)}
  BY DEF ListsAgree
<1>1. u.levels \in [Units -> Levels] /\ u.groups \subseteq Units /\ u.granted \subseteq Units
  BY DEF Account, TypeOK, Levels
<1>2. ManagedBy(u) = {v \in Units : CanModify(u, v)}
  BY <1>1 DEF ManagedBy, CanModify, IsAdmin, IsManager, UnitAdmin
<1>3. ASSUME NEW p \in Perm, NEW v \in ByRoles(u, UNIT_ROLE_PERMISSIONS[p])
      PROVE  v \in Units /\ (u.kind = "super" \/ HasRolePerm(u, v, p))
  <2> DEFINE roles == UNIT_ROLE_PERMISSIONS[p]
  <2>1. roles \subseteq {"group_admin", "admin", "manager", "viewer"}
    BY DEF Perm, UNIT_ROLE_PERMISSIONS
  <2>2. HasRolePerm(u, v, p)
          <=> \/ roles \cap {"admin", "group_admin"} # {} /\ IsAdmin(u, v)
              \/ "manager" \in roles /\ IsManager(u, v)
              \/ "viewer" \in roles /\ IsViewer(u, v)
    BY DEF HasRolePerm
  <2> HIDE DEF roles
  <2> QED
    BY <1>1, <1>3, <2>1, <2>2
    DEF roles, ByRoles, IsAdmin, IsManager, IsViewer, UnitAdmin, Levels, UnitAuthorizationLevel
<1>4. ASSUME ~OfWrongAge(u), NEW p \in Perm
      PROVE  WithPerm(u, p) \subseteq {v \in Units : HasPerm(u, v, p, FALSE)}
  BY <1>1, <1>3, <1>4 DEF WithPerm, HasPerm
<1>5. ASSUME ~OfWrongAge(u), NEW v \in Units,
             HasPerm(u, v, "can_view_reservation_extra_fields", TRUE)
      PROVE  v \in ExtraFieldsVisible(u)
  <2> DEFINE p == "can_view_reservation_extra_fields"
  <2>1. p \in Perm
        /\ UNIT_ROLE_PERMISSIONS[p] = {"group_admin", "admin", "manager", "viewer"}
    BY DEF Perm, UNIT_ROLE_PERMISSIONS
  <2>2. \/ u.kind = "super" \/ IsAdmin(u, v) \/ IsManager(u, v) \/ IsViewer(u, v)
        \/ v \in u.granted
    BY <1>5, <2>1 DEF HasPerm, HasRolePerm
  <2>3. u.kind = "super" \/ v \in ByRoles(u, UNIT_ROLE_PERMISSIONS[p]) \cup u.granted
    BY <2>1, <2>2 DEF ByRoles, IsAdmin, IsManager, IsViewer, UnitAdmin
  <2> QED
    BY <2>3 DEF ExtraFieldsVisible, WithPerm
<1>6. ASSUME ~OfWrongAge(u), NEW v \in ExtraFieldsVisible(u)
      PROVE  v \in Units /\ HasPerm(u, v, "can_view_reservation_extra_fields", TRUE)
  <2> DEFINE p == "can_view_reservation_extra_fields"
  <2>1. p \in Perm
    BY DEF Perm, UNIT_ROLE_PERMISSIONS
  <2>2. CASE u.kind = "super"
    BY <1>6, <2>2 DEF ExtraFieldsVisible, HasPerm
  <2>3. CASE u.kind # "super"
    BY <1>1, <1>3, <1>6, <2>1, <2>3 DEF ExtraFieldsVisible, WithPerm, HasPerm
  <2> QED
    BY <2>2, <2>3
<1> QED
  BY <1>2, <1>4, <1>5, <1>6

\* Whatever levels a user comes to have, lists and checks agree on what he may do.
THEOREM ListsInvariant == ASSUME UnitPermissionsAssumption PROVE Spec => []ListsAgree
<1>1. TypeOK => ListsAgree
  BY Agree
<1> QED
  BY <1>1, TypeInvariant, PTL
=============================================================================
