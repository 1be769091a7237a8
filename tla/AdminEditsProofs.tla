-------------------------- MODULE AdminEditsProofs --------------------------
(***************************************************************************)
(* What is proved of products, opening hours and permissions holds of the  *)
(* specification that MCAdminEdits composes of them.                       *)
(*                                                                         *)
(* The theorems are those of the components' own modules of proofs: the    *)
(* composed specification implements each component, whose definitions     *)
(* are the same in both modules that instantiate them.  The search has no  *)
(* steps; that its two forms agree is proved here.                         *)
(***************************************************************************)
EXTENDS MCAdminEdits, FiniteSetTheorems, TLAPS

PP == INSTANCE ProductsProofs
HP == INSTANCE OpeningHoursProofs
UP == INSTANCE UnitPermissionsProofs

-----------------------------------------------------------------------------
(* A behaviour of the whole is one of each component *)

LEMMA EachComponent == (Spec => P!Spec) /\ (Spec => H!Spec) /\ (Spec => U!Spec)
<1>1. Init => P!Init /\ H!Init /\ U!Init
  BY DEF Init
<1>2. [Next]_<<part, products, opening, search, permissions>> => [P!Next]_(P!vars)
  BY DEF Next, products, P!vars
<1>3. [Next]_<<part, products, opening, search, permissions>> => [H!Next]_(H!vars)
  BY DEF Next, opening, H!vars
<1>4. [Next]_<<part, products, opening, search, permissions>> => [U!Next]_(U!vars)
  BY DEF Next, permissions, U!vars
<1>5. Spec => P!Spec
  BY <1>1, <1>2, PTL DEF Spec, P!Spec
<1>6. Spec => H!Spec
  BY <1>1, <1>3, PTL DEF Spec, H!Spec
<1>7. Spec => U!Spec
  BY <1>1, <1>4, PTL DEF Spec, U!Spec
<1> QED
  BY <1>5, <1>6, <1>7

LEMMA Assumed ==
    PP!ProductAssumption /\ HP!OpeningHoursAssumption /\ UP!UnitPermissionsAssumption
<1>1. PP!ProductAssumption
  BY Zenon, Constants DEF P!ProductAssumption, PP!ProductAssumption
<1>2. HP!OpeningHoursAssumption
  BY Zenon, Constants DEF H!OpeningHoursAssumption, HP!OpeningHoursAssumption,
     H!Resources, HP!Resources, H!ToSet, HP!ToSet, H!IsInjective, HP!IsInjective
<1>3. UP!UnitPermissionsAssumption
  BY Zenon, Constants DEF U!UnitPermissionsAssumption, UP!UnitPermissionsAssumption
<1> QED
  BY <1>1, <1>2, <1>3

-----------------------------------------------------------------------------
(* Permissions *)

LEMMA SamePermissionSteps == U!Next <=> UP!Next
BY Zenon DEF U!Next, UP!Next, U!Post, UP!Post, U!Save, UP!Save, U!CreateUnit, UP!CreateUnit,
   U!AdminRow, UP!AdminRow, U!AdminStaff, UP!AdminStaff, U!Count, UP!Count, U!At, UP!At,
   U!UnitsOf, UP!UnitsOf, U!Rows, UP!Rows, U!Write, UP!Write, U!Approvals, UP!Approvals,
   U!Few, UP!Few, U!Authorize, UP!Authorize, U!Once, UP!Once, U!Twice, UP!Twice,
   U!EnsureLower, UP!EnsureLower, U!Below, UP!Below, U!Highest, UP!Highest, U!Rank, UP!Rank,
   U!Less, UP!Less, U!Idle, UP!Idle, U!Row, UP!Row,
   U!UnitAuthorizationLevel, UP!UnitAuthorizationLevel,
   U!kSubset, UP!kSubset, U!Cardinality, UP!Cardinality

LEMMA SamePermissions == U!Spec <=> UP!Spec
<1>1. U!Init <=> UP!Init
  BY DEF U!Init, UP!Init, U!Idle, UP!Idle
<1>2. [U!Next]_(U!vars) <=> [UP!Next]_(UP!vars)
  BY SamePermissionSteps DEF U!vars, UP!vars
<1> QED
  BY <1>1, <1>2, PTL DEF U!Spec, UP!Spec

\* Who has a level of authorization in a unit has the levels below it, after each save and
\* whatever forms are open.
THEOREM LevelsAlwaysClosed == Spec => []LevelsClosed
<1>1. UP!LevelsClosed => LevelsClosed
  BY DEF LevelsClosed, UP!LevelsClosed, U!LevelsClosed, U!Below, UP!Below,
     U!UnitAuthorizationLevel, UP!UnitAuthorizationLevel, U!Rank, UP!Rank
<1>2. UP!Spec => []UP!LevelsClosed
  BY Assumed, UP!LevelsInvariant
<1> QED
  BY <1>1, <1>2, EachComponent, SamePermissions, PTL

\* However levels come about, the lists of resources and the checks of one resource agree.
THEOREM ListsAlwaysAgree == Spec => []ListsAgree
<1>1. UP!ListsAgree => ListsAgree
  BY Zenon DEF ListsAgree, UP!ListsAgree, U!ListsAgree, U!Account, UP!Account,
     U!ManagedBy, UP!ManagedBy, U!CanModify, UP!CanModify, U!IsAdmin, UP!IsAdmin,
     U!IsManager, UP!IsManager, U!IsViewer, UP!IsViewer, U!UnitAdmin, UP!UnitAdmin,
     U!GeneralAdmin, UP!GeneralAdmin, U!OfWrongAge, UP!OfWrongAge,
     U!ExtraFieldsVisible, UP!ExtraFieldsVisible, U!WithPerm, UP!WithPerm,
     U!ByRoles, UP!ByRoles, U!HasPerm, UP!HasPerm, U!HasRolePerm, UP!HasRolePerm,
     U!Perm, UP!Perm, U!UNIT_ROLE_PERMISSIONS, UP!UNIT_ROLE_PERMISSIONS
<1>2. UP!Spec => []UP!ListsAgree
  BY Assumed, UP!ListsInvariant
<1> QED
  BY <1>1, <1>2, EachComponent, SamePermissions, PTL

-----------------------------------------------------------------------------
(* Opening hours *)

LEMMA SameOutcomes ==
    /\ \A X : H!Outcomes(X) = HP!Outcomes(X)
    /\ \A r, table : H!PeriodsOf(r, table) = HP!PeriodsOf(r, table)
BY Zenon DEF H!Outcomes, HP!Outcomes, H!PeriodsOf, HP!PeriodsOf, H!Date, HP!Date,
   H!Deciding, HP!Deciding, H!Covers, HP!Covers, H!Before, HP!Before,
   H!Opens, HP!Opens, H!Row, HP!Row

LEMMA SameHoursSteps == ASSUME NEW q PROVE
    /\ H!Save(q) <=> HP!Save(q)
    /\ H!ReadRows(q) <=> HP!ReadRows(q)
    /\ H!ReadPeriods(q) <=> HP!ReadPeriods(q)
    /\ H!Delete(q) <=> HP!Delete(q)
    /\ H!Insert(q) <=> HP!Insert(q)
    /\ H!Commit(q) <=> HP!Commit(q)
    /\ H!ApiSave <=> HP!ApiSave
<1> USE DEF H!Idle, HP!Idle, H!InTx, HP!InTx, H!OwnerOf, HP!OwnerOf, H!Now, HP!Now,
      H!FirstOf, HP!FirstOf, H!Abort, HP!Abort, H!Of, HP!Of, H!Others, HP!Others,
      H!Touched, HP!Touched, H!OwnerIn, HP!OwnerIn, H!Outdate, HP!Outdate, H!Leave, HP!Leave,
      H!Resources, HP!Resources, H!ToSet, HP!ToSet
<1>1. H!Save(q) <=> HP!Save(q)
  BY Zenon DEF H!Save, HP!Save, H!Listed, HP!Listed
<1>8. \A gone : H!AssertionFails(q, gone) <=> HP!AssertionFails(q, gone)
  BY Zenon DEF H!AssertionFails, HP!AssertionFails, H!Swallow, HP!Swallow
<1>2. H!ReadRows(q) <=> HP!ReadRows(q)
  BY Zenon, <1>8 DEF H!ReadRows, HP!ReadRows, H!Twice, HP!Twice
<1>3. H!ReadPeriods(q) <=> HP!ReadPeriods(q)
  BY Zenon, SameOutcomes DEF H!ReadPeriods, HP!ReadPeriods, H!Obsolete, HP!Obsolete
<1>4. H!Delete(q) <=> HP!Delete(q)
  BY Zenon, <1>8 DEF H!Delete, HP!Delete
<1>5. H!Insert(q) <=> HP!Insert(q)
  BY Zenon DEF H!Insert, HP!Insert
<1>6. H!Commit(q) <=> HP!Commit(q)
  BY Zenon DEF H!Commit, HP!Commit
<1>7. H!ApiSave <=> HP!ApiSave
  BY Zenon DEF H!ApiSave, HP!ApiSave
<1> QED
  BY <1>1, <1>2, <1>3, <1>4, <1>5, <1>6, <1>7

LEMMA SameHours == H!Spec <=> HP!Spec
<1>1. H!Init <=> HP!Init
  BY DEF H!Init, HP!Init, H!Idle, HP!Idle, H!Resources, HP!Resources, H!ToSet, HP!ToSet
<1>2. H!Next <=> HP!Next
  BY Zenon, SameHoursSteps DEF H!Next, HP!Next, H!SoftDelete, HP!SoftDelete,
     H!Restore, HP!Restore, H!Resources, HP!Resources, H!ToSet, HP!ToSet
<1>3. [H!Next]_(H!vars) <=> [HP!Next]_(HP!vars)
  BY <1>2 DEF H!vars, HP!vars
<1> QED
  BY <1>1, <1>3, PTL DEF H!Spec, HP!Spec

\* The daily hours are those that the periods give, but for resources that went astray.
THEOREM HoursAlwaysMatch == Spec => []HoursMatch
<1>1. HP!HoursMatch => HoursMatch
  BY Zenon DEF HoursMatch, HP!HoursMatch, H!HoursMatch, H!Resources, HP!Resources,
     H!ToSet, HP!ToSet, H!Date, HP!Date, H!Decide, HP!Decide, H!Shortest, HP!Shortest,
     H!PeriodsOf, HP!PeriodsOf, H!Covers, HP!Covers, H!Opens, HP!Opens, H!Row, HP!Row
<1>2. HP!Spec => []HP!HoursMatch
  BY Assumed, HP!HoursAlwaysMatch
<1> QED
  BY <1>1, <1>2, EachComponent, SameHours, PTL

-----------------------------------------------------------------------------
(* Products *)

LEMMA SameSum == ASSUME NEW f PROVE P!SumFunction(f) = PP!SumFunction(f)
BY Zenon DEF P!SumFunction, PP!SumFunction, P!SumFunctionOnSet, PP!SumFunctionOnSet,
   P!FoldFunctionOnSet, PP!FoldFunctionOnSet, P!MapThenFoldSet, PP!MapThenFoldSet

LEMMA SameTotal ==
    ASSUME NEW f, NEW T, NEW b, NEW e, NEW g, NEW known, NEW default
    PROVE  P!TotalPrice(f, T, b, e, g, known, default) =
           PP!TotalPrice(f, T, b, e, g, known, default)
<1>1. P!FixedPrice(T, b, e, g, known, default) = PP!FixedPrice(T, b, e, g, known, default)
  BY Zenon DEF P!FixedPrice, PP!FixedPrice, P!Eligible, PP!Eligible, P!Contains, PP!Contains,
     P!PricedFor, PP!PricedFor, P!SlotPrice, PP!SlotPrice, P!SmallestSlot, PP!SmallestSlot,
     P!FirstSlot, PP!FirstSlot
<1>2. [c \in P!Chunks(b, e) |-> P!ChunkPrice(T, c, g, known, default)] =
      [c \in PP!Chunks(b, e) |-> PP!ChunkPrice(T, c, g, known, default)]
  BY Zenon DEF P!Chunks, PP!Chunks, P!ChunkPrice, PP!ChunkPrice, P!Contains, PP!Contains,
     P!PricedFor, PP!PricedFor, P!FirstSlot, PP!FirstSlot
<1> QED
  BY Zenon, <1>1, <1>2, SameSum DEF P!TotalPrice, PP!TotalPrice

LEMMA SamePrice == ASSUME NEW l PROVE P!PriceOf(l) = PP!PriceOf(l)
BY Zenon, SameTotal DEF P!PriceOf, PP!PriceOf, P!SlotsOf, PP!SlotsOf, P!Known, PP!Known,
   P!HasPrice, PP!HasPrice

LEMMA SameOrders ==
    ASSUME NEW o
    PROVE  (P!Basket(o) <=> PP!Basket(o)) /\ (P!Place(o) <=> PP!Place(o))
BY Zenon, SamePrice DEF P!Basket, PP!Basket, P!Place, PP!Place, P!HasPrice, PP!HasPrice,
   P!Current, PP!Current

LEMMA SameDeals == P!Deals = PP!Deals
BY DEF P!Deals, PP!Deals

LEMMA SameRows ==
    /\ P!Rows = PP!Rows
    /\ \A row, others : P!Fits(row, others) <=> PP!Fits(row, others)
<1>1. \A row, others : P!Fits(row, others) <=> PP!Fits(row, others)
  BY Zenon DEF P!Fits, PP!Fits, P!Clash, PP!Clash, P!Same, PP!Same
<1>2. P!Rows = PP!Rows
  BY DEF P!Rows, PP!Rows, P!Row, PP!Row
<1> QED
  BY <1>1, <1>2

\* What the saves of a product and of a slot have in common
LEMMA SameSaves ==
    /\ P!Current = PP!Current /\ P!Archived = PP!Archived /\ P!Copies = PP!Copies
    /\ P!Live = PP!Live /\ P!Home = PP!Home /\ P!GroupPrice = PP!GroupPrice
    /\ P!NoGroups = PP!NoGroups
    /\ \A s : P!GroupsOf(s) = PP!GroupsOf(s)
    /\ \A row, gs : P!Slot(row, gs) = PP!Slot(row, gs)
    /\ \A g : P!Moved(g) = PP!Moved(g)
    /\ [g \in Group |-> P!Moved(g)] = [g \in Group |-> PP!Moved(g)]
    /\ \A a : P!MaySave(a) <=> PP!MaySave(a)
    /\ \A a : P!Done(a) <=> PP!Done(a)
BY Zenon DEF P!Current, PP!Current, P!Live, PP!Live, P!GroupsOf, PP!GroupsOf,
   P!NoGroups, PP!NoGroups, P!Copies, PP!Copies, P!Home, PP!Home, P!HasPrice, PP!HasPrice,
   P!Moved, PP!Moved, P!Slot, PP!Slot, P!Archived, PP!Archived, P!GroupPrice, PP!GroupPrice,
   P!MaySave, PP!MaySave, P!Done, PP!Done

LEMMA SameSaveSlot == ASSUME NEW a PROVE P!SaveSlot(a) <=> PP!SaveSlot(a)
<1>1. \A old : {[s EXCEPT !.v = P!Home] : s \in P!Live \ old} =
               {[s EXCEPT !.v = PP!Home] : s \in PP!Live \ old}
  BY Zenon, SameSaves
<1>2. ASSUME P!SaveSlot(a) PROVE PP!SaveSlot(a)
  <2>1. PICK old \in {{}} \cup {{s} : s \in form[a].rows}, row \in P!Rows, gs \in P!GroupPrice :
          /\ P!Fits(row, form[a].rows \ old)
          /\ slots' = P!Archived \cup P!Copies
                      \cup {[s EXCEPT !.v = P!Home] : s \in P!Live \ old} \cup {P!Slot(row, gs)}
    BY Zenon, <1>2 DEF P!SaveSlot
  <2>2. row \in PP!Rows /\ gs \in PP!GroupPrice /\ PP!Fits(row, form[a].rows \ old)
    BY <2>1, SameRows, SameSaves
  <2>3. slots' = PP!Archived \cup PP!Copies
                \cup {[s EXCEPT !.v = PP!Home] : s \in PP!Live \ old} \cup {PP!Slot(row, gs)}
    BY Zenon, <2>1, <1>1, SameSaves
  <2>4. /\ PP!MaySave(a) /\ PP!Done(a)
        /\ versions' = Append(versions, versions[PP!Current])
        /\ groups' = [g \in Group |-> PP!Moved(g)]
    BY Zenon, <1>2, SameSaves DEF P!SaveSlot
  <2>5. UNCHANGED <<fixed, orders, struck>>
    BY Zenon, <1>2 DEF P!SaveSlot
  <2> QED
    BY Zenon, <2>2, <2>3, <2>4, <2>5 DEF PP!SaveSlot
<1>3. ASSUME PP!SaveSlot(a) PROVE P!SaveSlot(a)
  <2>1. PICK old \in {{}} \cup {{s} : s \in form[a].rows}, row \in PP!Rows, gs \in PP!GroupPrice :
          /\ PP!Fits(row, form[a].rows \ old)
          /\ slots' = PP!Archived \cup PP!Copies
                      \cup {[s EXCEPT !.v = PP!Home] : s \in PP!Live \ old} \cup {PP!Slot(row, gs)}
    BY Zenon, <1>3 DEF PP!SaveSlot
  <2>2. row \in P!Rows /\ gs \in P!GroupPrice /\ P!Fits(row, form[a].rows \ old)
    BY <2>1, SameRows, SameSaves
  <2>3. slots' = P!Archived \cup P!Copies
                \cup {[s EXCEPT !.v = P!Home] : s \in P!Live \ old} \cup {P!Slot(row, gs)}
    BY Zenon, <2>1, <1>1, SameSaves
  <2>4. /\ P!MaySave(a) /\ P!Done(a)
        /\ versions' = Append(versions, versions[P!Current])
        /\ groups' = [g \in Group |-> P!Moved(g)]
    BY Zenon, <1>3, SameSaves DEF PP!SaveSlot
  <2>5. UNCHANGED <<fixed, orders, struck>>
    BY Zenon, <1>3 DEF PP!SaveSlot
  <2> QED
    BY Zenon, <2>2, <2>3, <2>4, <2>5 DEF P!SaveSlot
<1> QED
  BY <1>2, <1>3

LEMMA SameSaveProduct == ASSUME NEW a PROVE P!SaveProduct(a) <=> PP!SaveProduct(a)
<1>1. \A read, edited, to : P!Valid(read, edited, to) <=> PP!Valid(read, edited, to)
  BY Zenon, SameRows DEF P!Valid, PP!Valid
<1>2. /\ \A kept : {P!Slot(s, P!GroupsOf(s)) : s \in kept} =
                   {PP!Slot(s, PP!GroupsOf(s)) : s \in kept}
      /\ \A moved, to : {P!Slot(to[s], P!GroupsOf(s)) : s \in moved} =
                        {PP!Slot(to[s], PP!GroupsOf(s)) : s \in moved}
      /\ \A new : {P!Slot(row, P!NoGroups) : row \in new} =
                  {PP!Slot(row, PP!NoGroups) : row \in new}
  BY Zenon, SameSaves
<1>3. \A read : {row \in P!Rows : P!Fits(row, read)} = {row \in PP!Rows : PP!Fits(row, read)}
  BY Zenon, SameRows
<1>4. \A deals :
        [g \in Group |->
              IF g \notin DOMAIN deals THEN P!Moved(g)
              ELSE IF deals[g] = None THEN None ELSE [v |-> P!Current + 1, price |-> deals[g]]] =
        [g \in Group |->
              IF g \notin DOMAIN deals THEN PP!Moved(g)
              ELSE IF deals[g] = None THEN None ELSE [v |-> PP!Current + 1, price |-> deals[g]]]
  BY Zenon, SameSaves
<1>5. \A n : P!Cardinality(n) = PP!Cardinality(n)
  BY Zenon DEF P!Cardinality, PP!Cardinality
<1>6. ASSUME P!SaveProduct(a) PROVE PP!SaveProduct(a)
  <2>1. PICK edited \in SUBSET form[a].rows,
             new \in SUBSET {row \in P!Rows : P!Fits(row, form[a].rows)} :
          /\ P!Cardinality(edited) + P!Cardinality(new) <= MaxRows
          /\ \E to \in [edited -> P!Rows \cup {None}] :
                /\ P!Valid(form[a].rows, edited, to)
                /\ slots' = (slots \ form[a].rows) \cup P!Copies
                            \cup {P!Slot(s, P!GroupsOf(s)) : s \in form[a].rows \ edited}
                            \cup {P!Slot(to[s], P!GroupsOf(s)) : s \in {t \in edited : to[t] # None}}
                            \cup {P!Slot(row, P!NoGroups) : row \in new}
    BY Zenon, <1>6 DEF P!SaveProduct
  <2>2. PICK to \in [edited -> P!Rows \cup {None}] :
          /\ P!Valid(form[a].rows, edited, to)
          /\ slots' = (slots \ form[a].rows) \cup P!Copies
                      \cup {P!Slot(s, P!GroupsOf(s)) : s \in form[a].rows \ edited}
                      \cup {P!Slot(to[s], P!GroupsOf(s)) : s \in {t \in edited : to[t] # None}}
                      \cup {P!Slot(row, P!NoGroups) : row \in new}
    BY Zenon, <2>1
  <2>3. PICK deals \in P!Deals : groups' = [g \in Group |->
              IF g \notin DOMAIN deals THEN P!Moved(g)
              ELSE IF deals[g] = None THEN None ELSE [v |-> P!Current + 1, price |-> deals[g]]]
    BY Zenon, <1>6 DEF P!SaveProduct
  <2>4. /\ new \in SUBSET {row \in PP!Rows : PP!Fits(row, form[a].rows)}
        /\ PP!Cardinality(edited) + PP!Cardinality(new) <= MaxRows
    BY <2>1, <1>3, <1>5
  <2>5. to \in [edited -> PP!Rows \cup {None}] /\ PP!Valid(form[a].rows, edited, to)
    BY <2>2, <1>1, SameRows
  <2>6. slots' = (slots \ form[a].rows) \cup PP!Copies
                \cup {PP!Slot(s, PP!GroupsOf(s)) : s \in form[a].rows \ edited}
                \cup {PP!Slot(to[s], PP!GroupsOf(s)) : s \in {t \in edited : to[t] # None}}
                \cup {PP!Slot(row, PP!NoGroups) : row \in new}
    BY Zenon, <2>2, <1>2, SameSaves
  <2>7. deals \in PP!Deals /\ groups' = [g \in Group |->
              IF g \notin DOMAIN deals THEN PP!Moved(g)
              ELSE IF deals[g] = None THEN None ELSE [v |-> PP!Current + 1, price |-> deals[g]]]
    BY Zenon, <2>3, <1>4, SameDeals
  <2>8. PP!MaySave(a) /\ PP!Done(a)
    BY Zenon, <1>6, SameSaves DEF P!SaveProduct
  <2>9. /\ \E price \in ListPrice : versions' = Append(versions, price)
        /\ UNCHANGED <<fixed, orders, struck>>
    BY Zenon, <1>6 DEF P!SaveProduct
  <2>10. \E dealt \in PP!Deals :
          groups' = [g \in Group |->
              IF g \notin DOMAIN dealt THEN PP!Moved(g)
              ELSE IF dealt[g] = None THEN None ELSE [v |-> PP!Current + 1, price |-> dealt[g]]]
    BY Zenon, <2>7
  <2> QED
    BY Zenon, <2>4, <2>5, <2>6, <2>8, <2>9, <2>10 DEF PP!SaveProduct
<1>7. ASSUME PP!SaveProduct(a) PROVE P!SaveProduct(a)
  <2>1. PICK edited \in SUBSET form[a].rows,
             new \in SUBSET {row \in PP!Rows : PP!Fits(row, form[a].rows)} :
          /\ PP!Cardinality(edited) + PP!Cardinality(new) <= MaxRows
          /\ \E to \in [edited -> PP!Rows \cup {None}] :
                /\ PP!Valid(form[a].rows, edited, to)
                /\ slots' = (slots \ form[a].rows) \cup PP!Copies
                            \cup {PP!Slot(s, PP!GroupsOf(s)) : s \in form[a].rows \ edited}
                            \cup {PP!Slot(to[s], PP!GroupsOf(s)) : s \in {t \in edited : to[t] # None}}
                            \cup {PP!Slot(row, PP!NoGroups) : row \in new}
    BY Zenon, <1>7 DEF PP!SaveProduct
  <2>2. PICK to \in [edited -> PP!Rows \cup {None}] :
          /\ PP!Valid(form[a].rows, edited, to)
          /\ slots' = (slots \ form[a].rows) \cup PP!Copies
                      \cup {PP!Slot(s, PP!GroupsOf(s)) : s \in form[a].rows \ edited}
                      \cup {PP!Slot(to[s], PP!GroupsOf(s)) : s \in {t \in edited : to[t] # None}}
                      \cup {PP!Slot(row, PP!NoGroups) : row \in new}
    BY Zenon, <2>1
  <2>3. PICK deals \in PP!Deals : groups' = [g \in Group |->
              IF g \notin DOMAIN deals THEN PP!Moved(g)
              ELSE IF deals[g] = None THEN None ELSE [v |-> PP!Current + 1, price |-> deals[g]]]
    BY Zenon, <1>7 DEF PP!SaveProduct
  <2>4. /\ new \in SUBSET {row \in P!Rows : P!Fits(row, form[a].rows)}
        /\ P!Cardinality(edited) + P!Cardinality(new) <= MaxRows
    BY <2>1, <1>3, <1>5
  <2>5. to \in [edited -> P!Rows \cup {None}] /\ P!Valid(form[a].rows, edited, to)
    BY <2>2, <1>1, SameRows
  <2>6. slots' = (slots \ form[a].rows) \cup P!Copies
                \cup {P!Slot(s, P!GroupsOf(s)) : s \in form[a].rows \ edited}
                \cup {P!Slot(to[s], P!GroupsOf(s)) : s \in {t \in edited : to[t] # None}}
                \cup {P!Slot(row, P!NoGroups) : row \in new}
    BY Zenon, <2>2, <1>2, SameSaves
  <2>7. deals \in P!Deals /\ groups' = [g \in Group |->
              IF g \notin DOMAIN deals THEN P!Moved(g)
              ELSE IF deals[g] = None THEN None ELSE [v |-> P!Current + 1, price |-> deals[g]]]
    BY Zenon, <2>3, <1>4, SameDeals
  <2>8. P!MaySave(a) /\ P!Done(a)
    BY Zenon, <1>7, SameSaves DEF PP!SaveProduct
  <2>9. /\ \E price \in ListPrice : versions' = Append(versions, price)
        /\ UNCHANGED <<fixed, orders, struck>>
    BY Zenon, <1>7 DEF PP!SaveProduct
  <2>10. \E dealt \in P!Deals :
          groups' = [g \in Group |->
              IF g \notin DOMAIN dealt THEN P!Moved(g)
              ELSE IF dealt[g] = None THEN None ELSE [v |-> P!Current + 1, price |-> dealt[g]]]
    BY Zenon, <2>7
  <2> QED
    BY Zenon, <2>4, <2>5, <2>6, <2>8, <2>9, <2>10 DEF P!SaveProduct
<1> QED
  BY <1>6, <1>7

LEMMA SameProductSteps == P!Next <=> PP!Next
<1>1. \A a : P!Open(a) <=> PP!Open(a)
  BY Zenon DEF P!Open, PP!Open, P!Current, PP!Current, P!Live, PP!Live
<1>2. \A a : P!SaveGroup(a) <=> PP!SaveGroup(a)
  BY Zenon DEF P!SaveGroup, PP!SaveGroup, P!Unbased, PP!Unbased, P!Placed, PP!Placed,
     P!Done, PP!Done
<1>3. \A a : P!Refused(a) <=> PP!Refused(a)
  BY Zenon DEF P!Refused, PP!Refused, P!Done, PP!Done, P!Current, PP!Current
<1>4. P!DeleteSlot <=> PP!DeleteSlot
  BY Zenon DEF P!DeleteSlot, PP!DeleteSlot, P!Live, PP!Live, P!Placed, PP!Placed
<1>5. P!DeleteGroup <=> PP!DeleteGroup
  BY Zenon DEF P!DeleteGroup, PP!DeleteGroup
<1> QED
  BY Zenon, SameOrders, SameSaveSlot, SameSaveProduct, <1>1, <1>2, <1>3, <1>4, <1>5
  DEF P!Next, PP!Next

LEMMA SameProducts == P!Spec <=> PP!Spec
<1>1. P!Init <=> PP!Init
  BY DEF P!Init, PP!Init
<1>2. [P!Next]_(P!vars) <=> [PP!Next]_(PP!vars)
  BY SameProductSteps DEF P!vars, PP!vars
<1> QED
  BY <1>1, <1>2, PTL DEF P!Spec, PP!Spec

\* The slots in force belong to the current version, whichever pages were saved.
THEOREM SlotsAlwaysFollow == Spec => []SlotsFollow
<1>1. PP!SlotsFollow => SlotsFollow
  BY DEF SlotsFollow, PP!SlotsFollow, P!SlotsFollow, P!Live, PP!Live, P!Current, PP!Current
<1>2. PP!Spec => []PP!SlotsFollow
  BY Assumed, PP!SlotsFollowProduct
<1> QED
  BY <1>1, <1>2, EachComponent, SameProducts, PTL

\* A slot that keeps its time never comes to clash with one that gets one, though requests check
\* their rows against what they have read.
THEOREM KeptSlotsStayClear == Spec => KeptStayClear
<1>1. [\A s, t \in PP!Live' : s # t /\ PP!Clash(s, t) => (PP!Kept(s) <=> PP!Kept(t))]_(PP!vars) =>
      [\A s, t \in P!Live' : s # t /\ P!Clash(s, t) => (P!Kept(s) <=> P!Kept(t))]_(P!vars)
  BY Zenon DEF P!vars, PP!vars, P!Live, PP!Live, P!Clash, PP!Clash, P!Same, PP!Same,
     P!Kept, PP!Kept
<1>2. PP!Spec => PP!KeptStayClear
  BY Assumed, PP!KeptAlwaysStayClear
<1> QED
  BY <1>1, <1>2, EachComponent, SameProducts, PTL
  DEF KeptStayClear, P!KeptStayClear, PP!KeptStayClear

\* An order costs what its customer was asked to pay, whatever administrators save afterwards,
\* but for the two edits that add no version.
THEOREM PricesAlwaysKept == Spec => []PriceKept
<1>1. PP!PriceKept => PriceKept
  BY Zenon, SamePrice DEF PriceKept, PP!PriceKept, P!PriceKept, P!Placed, PP!Placed,
     P!SlotsOf, PP!SlotsOf, P!Apart, PP!Apart, P!Same, PP!Same
<1>2. PP!Spec => []PP!PriceKept
  BY Assumed, PP!PricesAreKept
<1> QED
  BY <1>1, <1>2, EachComponent, SameProducts, PTL

LEMMA SameDetail ==
    ASSUME NEW f, NEW T, NEW b, NEW e, NEW g, NEW known, NEW default
    PROVE  P!DetailTotal(P!Detail(f, T, b, e, g, known, default)) =
           PP!DetailTotal(PP!Detail(f, T, b, e, g, known, default))
<1>1. P!FixedPrice(T, b, e, g, known, default) = PP!FixedPrice(T, b, e, g, known, default)
  BY Zenon DEF P!FixedPrice, PP!FixedPrice, P!Eligible, PP!Eligible, P!Contains, PP!Contains,
     P!PricedFor, PP!PricedFor, P!SlotPrice, PP!SlotPrice, P!SmallestSlot, PP!SmallestSlot,
     P!FirstSlot, PP!FirstSlot
<1>2. P!Detail(f, T, b, e, g, known, default) = PP!Detail(f, T, b, e, g, known, default)
  BY Zenon, <1>1 DEF P!Detail, PP!Detail, P!Chunks, PP!Chunks, P!DetailSlots, PP!DetailSlots,
     P!Contains, PP!Contains, P!PricedFor, PP!PricedFor, P!SlotPrice, PP!SlotPrice,
     P!FirstSlot, PP!FirstSlot, P!Cardinality, PP!Cardinality
<1>3. \A d : P!DetailTotal(d) = PP!DetailTotal(d)
  BY Zenon DEF P!DetailTotal, PP!DetailTotal, P!MapThenSumSet, PP!MapThenSumSet,
     P!MapThenFoldSet, PP!MapThenFoldSet
<1> QED
  BY Zenon, <1>2, <1>3

\* The parts of a price in detail add up to the price.
THEOREM DetailsAlwaysAgree == Spec => []DetailsAddUp
<1>1. PP!DetailsAddUp => DetailsAddUp
  <2>1. /\ P!Current = PP!Current
        /\ \A v, g : P!HasPrice(v, g) = PP!HasPrice(v, g)
        /\ \A v : P!SlotsOf(v) = PP!SlotsOf(v)
        /\ \A T : P!Apart(T) => PP!Apart(T)
    BY Zenon DEF P!Current, PP!Current, P!HasPrice, PP!HasPrice, P!SlotsOf, PP!SlotsOf,
       P!Apart, PP!Apart, P!Same, PP!Same
  <2>2. PP!DetailsAddUp => P!DetailsAddUp
    <3> SUFFICES ASSUME PP!DetailsAddUp,
                        NEW v \in {n \in 1 .. P!Current : P!Apart(P!SlotsOf(n))},
                        NEW r \in Asked, NEW g \in Group \cup {None}
                 PROVE  LET known == P!HasPrice(v, g)
                            default == IF known THEN groups[g].price ELSE versions[v]
                        IN  P!DetailTotal(P!Detail(fixed, P!SlotsOf(v), r[1], r[2], g, known, default)) =
                            P!TotalPrice(fixed, P!SlotsOf(v), r[1], r[2], g, known, default)
      BY DEF P!DetailsAddUp
    <3> DEFINE known == P!HasPrice(v, g)
               default == IF known THEN groups[g].price ELSE versions[v]
               T == P!SlotsOf(v)
    <3>3. v \in {n \in 1 .. PP!Current : PP!Apart(PP!SlotsOf(n))}
      BY Zenon, <2>1
    <3>1. PP!DetailTotal(PP!Detail(fixed, T, r[1], r[2], g, known, default)) =
          PP!TotalPrice(fixed, T, r[1], r[2], g, known, default)
      BY Zenon, <2>1, <3>3 DEF PP!DetailsAddUp
    <3> HIDE DEF known, default, T
    <3>2. P!DetailTotal(P!Detail(fixed, T, r[1], r[2], g, known, default)) =
          P!TotalPrice(fixed, T, r[1], r[2], g, known, default)
      BY Zenon, <3>1, SameDetail, SameTotal
    <3> QED
      BY Zenon, <3>2 DEF known, default, T
  <2> QED
    BY <2>2 DEF DetailsAddUp
<1>2. PP!Spec => []PP!DetailsAddUp
  BY Assumed, PP!DetailsAlwaysAddUp
<1> QED
  BY <1>1, <1>2, EachComponent, SameProducts, PTL

-----------------------------------------------------------------------------
(* Types *)

LEMMA SameTypes ==
    /\ PP!TypeOK => P!TypeOK
    /\ HP!TypeOK => H!TypeOK
    /\ UP!TypeOK => U!TypeOK
<1>1. PP!TypeOK => P!TypeOK
  BY Zenon DEF P!TypeOK, PP!TypeOK, P!Current, PP!Current, P!SlotRow, PP!SlotRow,
     P!GroupPrice, PP!GroupPrice, P!OrderLine, PP!OrderLine, P!Placed, PP!Placed
<1>2. HP!TypeOK => H!TypeOK
  BY Zenon DEF H!TypeOK, HP!TypeOK, H!Resources, HP!Resources, H!ToSet, HP!ToSet,
     H!DayRow, HP!DayRow, H!Date, HP!Date
<1>3. UP!TypeOK => U!TypeOK
  BY Zenon DEF U!TypeOK, UP!TypeOK, U!Idle, UP!Idle, U!UnitAuthorizationLevel,
     UP!UnitAuthorizationLevel
<1> QED
  BY <1>1, <1>2, <1>3

\* Every table, transaction, form and request of the three components holds what it may.
THEOREM TypesAlwaysOK == Spec => []TypeOK
<1>1. PP!TypeOK /\ HP!TypeOK /\ UP!TypeOK => TypeOK
  BY SameTypes DEF TypeOK
<1>2. PP!Spec => []PP!TypeOK
  BY Assumed, PP!ProductsTyped
<1>3. HP!Spec => []HP!TypeOK
  BY Assumed, HP!HoursTyped
<1>4. UP!Spec => []UP!TypeOK
  BY Assumed, UP!TypeInvariant
<1> QED
  BY <1>1, <1>2, <1>3, <1>4, EachComponent, SameProducts, SameHours, SamePermissions, PTL

-----------------------------------------------------------------------------
(* The search.  What a finite set of reservations has is proved of its least *)
(* counterexample, and so is what the loop knows after so many of them       *)

\* The sets are counted alike.
LEMMA SameCounts == \A R : S!Cardinality(R) = Cardinality(R) /\ (S!IsFiniteSet(R) <=> IsFiniteSet(R))
BY Zenon DEF S!Cardinality, Cardinality, S!IsFiniteSet, IsFiniteSet

LEMMA SameSequences ==
    \A R : S!SetToSeqs(R) =
             {f \in [1..Cardinality(R) -> R] : \A i, j \in 1..Cardinality(R) : i # j => f[i] # f[j]}
BY Zenon, SameCounts DEF S!SetToSeqs

\* Sequences of a set's members, each once, in the order of their beginnings
Lined(R) ==
    {q \in S!SetToSeqs(R) : \A i, j \in DOMAIN q : i < j => q[i][1] <= q[j][1]}

\* One of a finite set of reservations begins last.
LEMMA OneLast ==
    ASSUME NEW R, IsFiniteSet(R), R # {}, \A r \in R : r[1] \in Int
    PROVE  \E r \in R : \A s \in R : s[1] <= r[1]
<1> DEFINE Bad == {n \in Nat : \E Q \in SUBSET R : /\ Q # {} /\ Cardinality(Q) = n
                                                   /\ ~\E r \in Q : \A s \in Q : s[1] <= r[1]}
<1>1. SUFFICES ASSUME Bad # {} PROVE FALSE
  <2>1. Cardinality(R) \in Nat
    BY FS_CardinalityType
  <2> QED
    BY <2>1
<1>2. PICK m \in Bad : \A k \in Bad : m <= k
  <2>1. Bad \in SUBSET Nat
    OBVIOUS
  <2> QED
    BY <1>1, <2>1, PP!Least
<1>3. PICK Q \in SUBSET R : /\ Q # {} /\ Cardinality(Q) = m
                            /\ ~\E r \in Q : \A s \in Q : s[1] <= r[1]
  BY <1>2
<1>4. PICK x \in Q : TRUE
  BY <1>3
<1> DEFINE T == Q \ {x}
<1>5. IsFiniteSet(Q) /\ m \in Nat
  BY FS_Subset, <1>2
<1>6. IsFiniteSet(T) /\ Cardinality(T) = m - 1 /\ m - 1 \in Nat
  <2>1. IsFiniteSet(T) /\ Cardinality(T) = m - 1
    BY <1>3, <1>4, <1>5, FS_RemoveElement
  <2>2. Cardinality(T) \in Nat
    BY <2>1, FS_CardinalityType
  <2> QED
    BY <2>1, <2>2
<1>7. m - 1 \notin Bad
  BY <1>2, <1>5
<1>8. CASE T = {}
  <2>1. Q = {x}
    BY <1>4, <1>8
  <2>2. x[1] <= x[1]
    BY <1>4
  <2> QED
    BY <1>3, <2>1, <2>2
<1>9. CASE T # {}
  <2>1. T \in SUBSET R
    OBVIOUS
  <2> HIDE DEF T
  <2>2. PICK r \in T : \A s \in T : s[1] <= r[1]
    BY <1>6, <1>7, <1>9, <2>1
  <2>3. r \in Q /\ x \in Q /\ r[1] \in Int /\ x[1] \in Int /\ (\A s \in Q : s = x \/ s \in T)
    BY <1>4, <2>1, <2>2 DEF T
  <2>4. CASE x[1] <= r[1]
    <3>1. \A s \in Q : s[1] <= r[1]
      BY <2>2, <2>3, <2>4
    <3> QED
      BY <1>3, <2>3, <3>1
  <2>5. CASE ~(x[1] <= r[1])
    <3>1. \A s \in Q : s[1] <= x[1]
      <4>1. \A s \in Q : s[1] \in Int
        OBVIOUS
      <4> QED
        BY <2>2, <2>3, <2>5, <4>1
    <3> QED
      BY <1>3, <2>3, <3>1
  <2> QED
    BY <2>4, <2>5
<1> QED
  BY <1>8, <1>9

\* Reservations can be put in the order of their beginnings.
LEMMA SomeOrder ==
    ASSUME NEW R, IsFiniteSet(R), \A r \in R : r[1] \in Int
    PROVE  Lined(R) # {}
<1> DEFINE Bad == {n \in Nat : \E Q \in SUBSET R : Cardinality(Q) = n /\ Lined(Q) = {}}
<1>1. SUFFICES ASSUME Bad # {} PROVE FALSE
  <2>1. Cardinality(R) \in Nat
    BY FS_CardinalityType
  <2> QED
    BY <2>1
<1>2. PICK m \in Bad : \A k \in Bad : m <= k
  <2>1. Bad \in SUBSET Nat
    OBVIOUS
  <2> QED
    BY <1>1, <2>1, PP!Least
<1>3. PICK Q \in SUBSET R : Cardinality(Q) = m /\ Lined(Q) = {}
  BY <1>2
<1>4. IsFiniteSet(Q) /\ m \in Nat /\ (\A r \in Q : r[1] \in Int)
  BY FS_Subset, <1>2
<1>5. CASE Q = {}
  <2>1. m = 0
    BY <1>3, <1>5, FS_EmptySet
  <2>2. << >> \in Lined(Q)
    <3>1. S!SetToSeqs(Q) =
            {f \in [1..0 -> Q] : \A i, j \in 1..0 : i # j => f[i] # f[j]}
      BY <1>3, <2>1, SameSequences
    <3>2. << >> \in S!SetToSeqs(Q)
      BY <3>1
    <3> QED
      BY <3>2 DEF Lined
  <2> QED
    BY <1>3, <2>2
<1>6. CASE Q # {}
  <2>1. PICK x \in Q : \A s \in Q : s[1] <= x[1]
    BY <1>4, <1>6, OneLast
  <2> DEFINE T == Q \ {x}
  <2>2. IsFiniteSet(T) /\ Cardinality(T) = m - 1 /\ m - 1 \in Nat
    <3>1. IsFiniteSet(T) /\ Cardinality(T) = m - 1
      BY <1>3, <1>4, <2>1, FS_RemoveElement
    <3>2. Cardinality(T) \in Nat
      BY <3>1, FS_CardinalityType
    <3> QED
      BY <3>1, <3>2
  <2>3. m - 1 \notin Bad
    BY <1>2, <1>4
  <2>4. T \in SUBSET R
    OBVIOUS
  <2> HIDE DEF T
  <2>5. PICK q : q \in Lined(T)
    BY <2>2, <2>3, <2>4
  <2>6. /\ q \in [1..(m - 1) -> T]
        /\ \A i, j \in 1..(m - 1) : i # j => q[i] # q[j]
        /\ \A i, j \in 1..(m - 1) : i < j => q[i][1] <= q[j][1]
    <3>1. q \in [1..Cardinality(T) -> T]
      BY <2>5, SameSequences DEF Lined
    <3>2. DOMAIN q = 1..(m - 1)
      BY <2>2, <3>1
    <3> QED
      BY <2>2, <2>5, <3>1, <3>2, SameSequences DEF Lined
  <2> DEFINE p == [i \in 1..m |-> IF i = m THEN x ELSE q[i]]
  <2>7. \A i \in 1..m : i # m => i \in 1..(m - 1) /\ q[i] \in T
    BY <1>4, <2>6
  <2>8. p \in [1..m -> Q]
    BY <2>1, <2>7 DEF T
  <2>9. ASSUME NEW i \in 1..m, NEW j \in 1..m
        PROVE  (i # j => p[i] # p[j]) /\ (i < j => p[i][1] <= p[j][1])
    <3>1. CASE i # m /\ j # m
      BY <2>6, <2>7, <3>1
    <3>2. CASE i = m /\ j # m
      <4>1. ~(i < j)
        BY <1>4, <3>2
      <4>2. p[j] = q[j] /\ q[j] \in T /\ p[i] = x
        BY <2>7, <3>2
      <4> QED
        BY <4>1, <4>2 DEF T
    <3>3. CASE i # m /\ j = m
      <4>1. p[i] = q[i] /\ q[i] \in T /\ p[j] = x
        BY <2>7, <3>3
      <4>2. p[i] # p[j] /\ p[i] \in Q
        BY <4>1 DEF T
      <4> QED
        BY <2>1, <4>1, <4>2
    <3>4. CASE i = m /\ j = m
      BY <1>4, <3>4
    <3> QED
      BY <3>1, <3>2, <3>3, <3>4
  <2> HIDE DEF p
  <2>10. p \in S!SetToSeqs(Q)
    BY <1>3, <2>8, <2>9, SameSequences
  <2>11. DOMAIN p = 1..m
    BY <2>8
  <2>12. p \in Lined(Q)
    BY <2>9, <2>10, <2>11 DEF Lined
  <2> QED
    BY <1>3, <2>12
<1> QED
  BY <1>5, <1>6

\* The walk before the first reservation
Start(from) == [current |-> from, last |-> from, found |-> "no"]

\* w is the walk over the first n reservations of q.
Walks(w, q, from, to, period, n) ==
    w = [i \in 0..n |-> IF i = 0 THEN Start(from) ELSE S!Look(w[i - 1], q[i], to, period)]

\* The loop's recursion defines a function.
LEMMA WalksExist ==
    ASSUME NEW q, NEW from, NEW to, NEW period, NEW n \in Nat
    PROVE  \E w : Walks(w, q, from, to, period, n)
<1> DEFINE Bad == {k \in Nat : ~\E w : Walks(w, q, from, to, period, k)}
<1>1. SUFFICES ASSUME Bad # {} PROVE FALSE
  OBVIOUS
<1>2. PICK m \in Bad : \A k \in Bad : m <= k
  <2>1. Bad \in SUBSET Nat
    OBVIOUS
  <2> QED
    BY <1>1, <2>1, PP!Least
<1>3. m \in Nat /\ ~\E w : Walks(w, q, from, to, period, m)
  BY <1>2
<1>4. CASE m = 0
  <2>1. \A i \in 0..m : i = 0
    BY <1>4
  <2> DEFINE w == [i \in 0..m |-> Start(from)]
  <2>2. w = [i \in 0..m |-> IF i = 0 THEN Start(from) ELSE S!Look(w[i - 1], q[i], to, period)]
    BY <2>1
  <2>3. Walks(w, q, from, to, period, m)
    BY Zenon, <2>2 DEF Walks
  <2> QED
    BY <1>3, <2>3
<1>5. CASE m # 0
  <2>1. m - 1 \in Nat /\ m - 1 \notin Bad
    BY <1>2, <1>3, <1>5
  <2>2. PICK v : Walks(v, q, from, to, period, m - 1)
    BY <2>1
  <2> DEFINE w == [i \in 0..m |-> IF i = 0 THEN Start(from) ELSE S!Look(v[i - 1], q[i], to, period)]
  <2>3. ASSUME NEW i \in 0..(m - 1) PROVE w[i] = v[i]
    <3>1. i \in 0..m
      BY <1>3
    <3>2. v[i] = IF i = 0 THEN Start(from) ELSE S!Look(v[i - 1], q[i], to, period)
      BY <2>2 DEF Walks
    <3> QED
      BY <3>1, <3>2
  <2>4. w = [i \in 0..m |-> IF i = 0 THEN Start(from) ELSE S!Look(w[i - 1], q[i], to, period)]
    <3>1. \A i \in 0..m : i = 0 \/ i - 1 \in 0..(m - 1)
      BY <1>3
    <3> DEFINE f(i) == IF i = 0 THEN Start(from) ELSE S!Look(v[i - 1], q[i], to, period)
               g(i) == IF i = 0 THEN Start(from) ELSE S!Look(w[i - 1], q[i], to, period)
    <3>2. \A i \in 0..m : f(i) = g(i)
      BY <2>3, <3>1
    <3>3. w = [i \in 0..m |-> f(i)]
      OBVIOUS
    <3> HIDE DEF w
    <3>4. w = [i \in 0..m |-> g(i)]
      <4> HIDE DEF f, g
      <4> QED
        BY <3>2, <3>3
    <3> QED
      BY <3>4
  <2> HIDE DEF w
  <2>5. Walks(w, q, from, to, period, m)
    BY Zenon, <2>4 DEF Walks
  <2> QED
    BY <1>3, <2>5
<1> QED
  BY <1>4, <1>5

\* The whole of [t, t + period) is in the range and free of the reservations of q.
Gap(t, q, from, to, period, n) ==
    /\ from <= t /\ t + period <= to
    /\ \A i \in 1..n : q[i][2] <= t \/ t + period <= q[i][1]

\* What the loop knows after i reservations: where the next gap may begin, or the answer
Known(x, q, from, to, period, n, i) ==
    /\ x.found \in {"no", "yes", "never"}
    /\ x.found = "yes" => \E t \in Times : Gap(t, q, from, to, period, n)
    /\ x.found = "never" => ~\E t \in Times : Gap(t, q, from, to, period, n)
    /\ x.found = "no" =>
         /\ x.current = IF i = 0 THEN from ELSE q[i][2]
         /\ x.last = x.current
         /\ \A t \in Times : Gap(t, q, from, to, period, n) => x.current <= t

\* Reservations in the order of their beginnings and of their ends, in the hours or around their
\* edges
Rows(q, from, to, n) ==
    /\ \A i \in 1..n : /\ q[i][1] \in Times /\ q[i][2] \in Times
                       /\ q[i][1] < q[i][2] /\ from < q[i][2] /\ q[i][1] < to
    /\ \A i, j \in 1..n : i <= j => q[i][1] <= q[j][1] /\ q[i][2] <= q[j][2]

\* The search in numbers
Numbers(from, to, period) == Times \subseteq Int /\ from \in Times /\ to \in Times /\ period \in Int
                               /\ 0 < period /\ from < to

LEMMA LookKnows ==
    ASSUME NEW x, NEW q, NEW from, NEW to, NEW period, NEW n \in Nat, NEW i \in 1..n,
           Numbers(from, to, period), Rows(q, from, to, n),
           Known(x, q, from, to, period, n, i - 1)
    PROVE  Known(S!Look(x, q[i], to, period), q, from, to, period, n, i)
<1> DEFINE c == IF i - 1 = 0 THEN from ELSE q[i - 1][2]
           b == q[i][1]
           e == q[i][2]
<1>1. CASE x.found # "no"
  BY <1>1 DEF S!Look, Known
<1>2. CASE x.found = "no"
  <2>1. /\ x.current = c /\ x.last = c
        /\ \A t \in Times : Gap(t, q, from, to, period, n) => c <= t
    BY <1>2 DEF Known
  <2>2. /\ b \in Int /\ e \in Times /\ e \in Int /\ b < e /\ from < e /\ b < to
        /\ from \in Int /\ to \in Int /\ period \in Int /\ 0 < period
    BY DEF Rows, Numbers
  <2>3. c \in Times /\ c \in Int /\ from <= c /\ c <= e
    <3>1. CASE i = 1
      <4>1. c = from /\ from \in Times
        BY <3>1 DEF Numbers
      <4> HIDE DEF b, c, e
      <4> QED
        BY <4>1, <2>2
    <3>2. CASE i # 1
      <4>1. i - 1 \in 1..n /\ i - 1 <= i /\ c = q[i - 1][2]
        BY <3>2
      <4>2. q[i - 1][2] \in Times /\ from < q[i - 1][2]
        BY <4>1 DEF Rows
      <4>3. q[i - 1][2] <= q[i][2]
        BY <4>1 DEF Rows
      <4>4. c \in Times /\ c \in Int /\ from < c /\ c <= e
        BY <4>1, <4>2, <4>3 DEF Numbers
      <4> HIDE DEF b, c, e
      <4> QED
        BY <4>4, <2>2
    <3> QED
      BY <3>1, <3>2
  <2>4. ASSUME NEW j \in 1..n PROVE IF j < i THEN q[j][2] <= c ELSE b <= q[j][1]
    <3>1. CASE j < i
      <4>1. i - 1 \in 1..n /\ i - 1 # 0 /\ j <= i - 1
        BY <3>1
      <4> QED
        BY <3>1, <4>1 DEF Rows
    <3>2. CASE ~(j < i)
      BY <3>2 DEF Rows
    <3> QED
      BY <3>1, <3>2
  <2>5. ASSUME NEW t \in Times, Gap(t, q, from, to, period, n), ~(c + period <= b)
        PROVE  e <= t /\ t + period <= to
    <3>1. t \in Int /\ c <= t
      BY <2>1, <2>5 DEF Numbers
    <3>2. (e <= t \/ t + period <= b) /\ t + period <= to
      BY <2>5 DEF Gap
    <3> HIDE DEF b, c, e
    <3> QED
      BY <2>2, <2>3, <2>5, <3>1, <3>2
  <2>6. S!Fits(period, b - x.current) <=> c + period <= b
    <3> HIDE DEF b, c, e
    <3> QED
      BY <2>1, <2>2, <2>3 DEF S!Fits
  <2>7. i # 0
    OBVIOUS
  <2>8. CASE e <= c
    <3>1. e = c
      <4> HIDE DEF b, c, e
      <4> QED
        BY <2>2, <2>3, <2>8
    <3>2. S!Look(x, q[i], to, period) = [x EXCEPT !.last = e]
      BY <1>2, <2>1, <2>8 DEF S!Look
    <3> QED
      BY <1>2, <2>1, <2>7, <3>1, <3>2 DEF Known
  <2>9. CASE ~(e <= c)
    <3> DEFINE y == S!Look(x, q[i], to, period)
    <3>1. y = [current |-> e, last |-> e,
               found |-> IF S!Fits(period, b - x.current) THEN "yes"
                         ELSE IF e > to THEN "never" ELSE "no"]
      BY <1>2, <2>1, <2>9 DEF S!Look
    <3> HIDE DEF y
    <3>2. CASE c + period <= b
      <4>1. Gap(c, q, from, to, period, n)
        <5>1. c + period <= to
          <6> HIDE DEF b, c, e
          <6> QED
            BY <2>2, <2>3, <3>2
        <5>2. ASSUME NEW j \in 1..n PROVE q[j][2] <= c \/ c + period <= q[j][1]
          <6>1. q[j][1] \in Int
            BY DEF Rows, Numbers
          <6> HIDE DEF b, c, e
          <6> QED
            BY <2>2, <2>3, <2>4, <3>2, <6>1
        <5> QED
          BY <2>3, <5>1, <5>2 DEF Gap
      <4>2. y.found = "yes"
        BY <2>6, <3>1, <3>2
      <4> HIDE DEF b, c, e
      <4>3. \E t \in Times : Gap(t, q, from, to, period, n)
        BY <2>3, <4>1
      <4> QED
        BY <4>2, <4>3 DEF Known, y
    <3>3. CASE ~(c + period <= b) /\ e > to
      <4>1. y.found = "never"
        BY <2>6, <3>1, <3>3
      <4>2. ASSUME NEW t \in Times, Gap(t, q, from, to, period, n) PROVE FALSE
        <5>1. t \in Int
          BY DEF Numbers
        <5>2. e <= t /\ t + period <= to
          BY <2>5, <3>3, <4>2
        <5> HIDE DEF b, c, e
        <5> QED
          BY <2>2, <3>3, <5>1, <5>2
      <4> QED
        BY <4>1, <4>2 DEF Known, y
    <3>4. CASE ~(c + period <= b) /\ ~(e > to)
      <4>1. y.found = "no" /\ y.current = e /\ y.last = e
        BY <2>6, <3>1, <3>4
      <4>2. \A t \in Times : Gap(t, q, from, to, period, n) => e <= t
        BY <2>5, <3>4
      <4> QED
        BY <2>7, <4>1, <4>2 DEF Known, y
    <3> QED
      BY <3>2, <3>3, <3>4
  <2> QED
    BY <2>8, <2>9
<1> QED
  BY <1>1, <1>2

\* The walk answers whether there is a gap.
LEMMA WalkAnswers ==
    ASSUME NEW w, NEW q, NEW from, NEW to, NEW period, NEW n \in Nat,
           Numbers(from, to, period), Rows(q, from, to, n), Walks(w, q, from, to, period, n)
    PROVE  (w[n].found = "yes" \/ (w[n].found = "no" /\ S!Fits(period, to - w[n].last)))
             <=> \E t \in Times : Gap(t, q, from, to, period, n)
<1> DEFINE Bad == {i \in 0..n : ~Known(w[i], q, from, to, period, n, i)}
<1>1. Bad = {}
  <2>1. SUFFICES ASSUME Bad # {} PROVE FALSE
    OBVIOUS
  <2>2. PICK m \in Bad : \A k \in Bad : m <= k
    <3>1. Bad \in SUBSET Nat
      OBVIOUS
    <3> QED
      BY <2>1, <3>1, PP!Least
  <2>3. m \in 0..n /\ ~Known(w[m], q, from, to, period, n, m)
    BY <2>2
  <2>4. CASE m = 0
    <3>1. w[m] = Start(from)
      BY <2>3, <2>4 DEF Walks
    <3>2. Known(Start(from), q, from, to, period, n, 0)
      BY DEF Known, Start, Gap
    <3> QED
      BY <2>3, <2>4, <3>1, <3>2
  <2>5. CASE m # 0
    <3>1. m - 1 \in 0..n /\ m \in 1..n
      BY <2>3, <2>5
    <3>2. m - 1 \notin Bad
      BY <2>2, <2>3
    <3>3. Known(w[m - 1], q, from, to, period, n, m - 1)
      BY <3>1, <3>2
    <3>4. w[m] = S!Look(w[m - 1], q[m], to, period)
      BY <2>3, <2>5 DEF Walks
    <3>5. Known(S!Look(w[m - 1], q[m], to, period), q, from, to, period, n, m)
      BY <3>1, <3>3, LookKnows
    <3> QED
      BY <2>3, <3>4, <3>5
  <2> QED
    BY <2>4, <2>5
<1>2. Known(w[n], q, from, to, period, n, n)
  BY <1>1
<1> DEFINE c == IF n = 0 THEN from ELSE q[n][2]
<1>3. CASE w[n].found # "no"
  BY <1>2, <1>3 DEF Known
<1>4. CASE w[n].found = "no"
  <2>1. w[n].last = c /\ (\A t \in Times : Gap(t, q, from, to, period, n) => c <= t)
    BY <1>2, <1>4 DEF Known
  <2>2. c \in Times /\ c \in Int /\ from \in Int /\ from <= c /\ to \in Int /\ period \in Int
    BY DEF Rows, Numbers
  <2>3. \A i \in 1..n : q[i][2] <= c
    BY DEF Rows
  <2> HIDE DEF c
  <2>4. S!Fits(period, to - w[n].last) <=> c + period <= to
    BY <2>1, <2>2 DEF S!Fits
  <2>5. c + period <= to => Gap(c, q, from, to, period, n)
    BY <2>2, <2>3 DEF Gap
  <2>6. ASSUME NEW t \in Times, Gap(t, q, from, to, period, n) PROVE c + period <= to
    <3>1. t \in Int
      BY DEF Numbers
    <3>2. c <= t /\ t + period <= to
      BY <2>1, <2>6 DEF Gap
    <3> QED
      BY <2>2, <3>1, <3>2
  <2> QED
    BY <1>4, <2>2, <2>4, <2>5, <2>6
<1> QED
  BY <1>3, <1>4

\* The sequence of the loop holds every reservation once, in order.
LEMMA AllBegun ==
    ASSUME NEW R, IsFiniteSet(R), \A r \in R : r[1] \in Int
    PROVE  /\ Cardinality(R) \in Nat /\ S!Begun(R) \in [1..Cardinality(R) -> R]
           /\ Len(S!Begun(R)) = Cardinality(R)
           /\ \A r \in R : \E i \in 1..Cardinality(R) : S!Begun(R)[i] = r
           /\ \A i, j \in 1..Cardinality(R) : i < j => S!Begun(R)[i][1] <= S!Begun(R)[j][1]
<1> DEFINE q == S!Begun(R)
           n == Cardinality(R)
<1>1. n \in Nat
  BY FS_CardinalityType
<1>2. PICK p : p \in Lined(R)
  BY SomeOrder
<1>3. q \in S!SetToSeqs(R) /\ \A i, j \in DOMAIN q : i < j => q[i][1] <= q[j][1]
  <2>1. \E p2 \in S!SetToSeqs(R) : \A i, j \in DOMAIN p2 : i < j => p2[i][1] <= p2[j][1]
    BY <1>2 DEF Lined
  <2> QED
    BY Zenon, <2>1 DEF S!Begun
<1> HIDE DEF q
<1>4. q \in [1..n -> R] /\ \A i, j \in 1..n : i # j => q[i] # q[j]
  BY <1>3, SameSequences
<1>5. DOMAIN q = 1..n /\ Len(q) = n
  BY <1>1, <1>4
<1>6. q \in Injection(1..n, R)
  BY <1>4 DEF Injection, IsInjective
<1>7. IsFiniteSet(1..n) /\ Cardinality(1..n) = n
  BY <1>1, FS_Interval
<1>8. q \in Surjection(1..n, R)
  BY <1>6, <1>7, FS_Injection
<1>9. \A r \in R : \E i \in 1..n : q[i] = r
  BY <1>8 DEF Surjection
<1> QED
  BY <1>1, <1>3, <1>4, <1>5, <1>9 DEF q

\* What the walk over all the reservations answers
Answers(w, n, to, period) ==
    w[n].found = "yes" \/ (w[n].found = "no" /\ S!Fits(period, to - w[n].last))

\* The two searches agree on any finite set of reservations.
LEMMA SearchAgreesOnAny ==
    ASSUME S!SearchAssumption, S!Init
    PROVE  S!SearchesAgree
<1> DEFINE start == asked.range[1]
           end == asked.range[2]
           period == asked.period
           O == S!Overlapping(reservations, start, end)
           Slot == \E t \in Times : /\ start <= t /\ t + period <= end
                                    /\ S!FreeFor(reservations, open, t, t + period)
<1>1. SUFFICES ASSUME S!Orderly PROVE S!HasSlot(reservations, open, start, end, period) <=> Slot
  BY Zenon DEF S!SearchesAgree
<1>2. /\ start \in Times /\ end \in Times /\ period \in Times /\ start < end /\ 0 < period
      /\ Times \subseteq Int /\ period \in Int /\ start \in Int /\ end \in Int
  BY DEF S!Init, S!Spans, S!SearchAssumption
<1>3. reservations \in SUBSET S!Spans /\ IsFiniteSet(reservations)
  BY SameCounts DEF S!Init
<1> HIDE DEF start, end, period
<1>4. CASE open = Closed
  <2>1. ~S!HasSlot(reservations, open, start, end, period)
    BY <1>4 DEF S!HasSlot
  <2>2. ~Slot
    BY <1>4 DEF S!FreeFor, S!IsOpen
  <2> QED
    BY <2>1, <2>2
<1>5. CASE open # Closed
  <2> DEFINE from == S!After(start, open[1])
             to == S!Before(end, open[2])
             q == S!Begun(O)
             n == Len(q)
  <2>1. open[1] \in Times /\ open[2] \in Times /\ open[1] \in Int /\ open[2] \in Int
    BY <1>2, <1>5 DEF S!Init, S!Spans
  <2>2. /\ from \in Times /\ from \in Int /\ start <= from /\ open[1] <= from
        /\ (from = start \/ from = open[1])
    <3> DEFINE o == open[1]
    <3>1. o \in Times /\ o \in Int
      BY <2>1
    <3> HIDE DEF o
    <3>2. /\ S!After(start, o) \in Times /\ S!After(start, o) \in Int
          /\ start <= S!After(start, o) /\ o <= S!After(start, o)
          /\ (S!After(start, o) = start \/ S!After(start, o) = o)
      BY <1>2, <3>1 DEF S!After
    <3> QED
      BY Zenon, <3>2 DEF o
  <2>3. /\ to \in Times /\ to \in Int /\ to <= end /\ to <= open[2]
        /\ (to = end \/ to = open[2])
    <3> DEFINE o == open[2]
    <3>1. o \in Times /\ o \in Int
      BY <2>1
    <3> HIDE DEF o
    <3>2. /\ S!Before(end, o) \in Times /\ S!Before(end, o) \in Int
          /\ S!Before(end, o) <= end /\ S!Before(end, o) <= o
          /\ (S!Before(end, o) = end \/ S!Before(end, o) = o)
      BY <1>2, <3>1 DEF S!Before
    <3> QED
      BY Zenon, <3>2 DEF o
  <2>4. IsFiniteSet(O) /\ O \in SUBSET S!Spans /\ \A r \in O : r[1] \in Int
    <3>1. O \in SUBSET reservations
      BY DEF S!Overlapping
    <3>2. IsFiniteSet(O)
      BY <1>3, <3>1, FS_Subset
    <3> QED
      BY <1>2, <1>3, <3>1, <3>2 DEF S!Spans
  <2>5. ASSUME NEW r \in reservations
        PROVE  /\ r[1] \in Times /\ r[2] \in Times /\ r[1] \in Int /\ r[2] \in Int /\ r[1] < r[2]
               /\ open[1] < r[2] /\ r[1] < open[2]
               /\ r \in O <=> (start < r[2] /\ r[1] < end)
    <3>1. r \in S!Spans
      BY <1>3
    <3>2. r[1] \in Times /\ r[2] \in Times /\ r[1] \in Int /\ r[2] \in Int /\ r[1] < r[2]
      BY <1>2, <3>1 DEF S!Spans
    <3>3. open[1] < r[2] /\ r[1] < open[2]
      BY <1>1, <1>5, <2>1, <3>2 DEF S!Orderly
    <3>4. r \in O <=> (start < r[2] /\ r[1] < end)
      BY <1>2, <3>2 DEF S!Overlapping
    <3> QED
      BY <3>2, <3>3, <3>4
  <2>6. /\ n \in Nat /\ q \in [1..n -> O]
        /\ \A r \in O : \E i \in 1..n : q[i] = r
        /\ \A i, j \in 1..n : i < j => q[i][1] <= q[j][1]
    <3> HIDE DEF O
    <3> QED
      BY <2>4, AllBegun
  <2>7. O \subseteq reservations
    BY DEF S!Overlapping
  <2> HIDE DEF O, q, n, from, to
  <2>8. Rows(q, from, to, n)
    <3>1. ASSUME NEW i \in 1..n
          PROVE  /\ q[i][1] \in Times /\ q[i][2] \in Times
                 /\ q[i][1] < q[i][2] /\ from < q[i][2] /\ q[i][1] < to
      <4> DEFINE r == q[i]
      <4>1. r \in O /\ r \in reservations
        BY <2>6, <2>7
      <4> HIDE DEF r
      <4>2. /\ r[1] \in Times /\ r[2] \in Times
            /\ r[1] < r[2] /\ from < r[2] /\ r[1] < to
        BY <2>2, <2>3, <2>5, <4>1
      <4> QED
        BY <4>2 DEF r
    <3>2. ASSUME NEW i \in 1..n, NEW j \in 1..n, i <= j
          PROVE  q[i][1] <= q[j][1] /\ q[i][2] <= q[j][2]
      <4> DEFINE r == q[i]
                 s == q[j]
      <4>1. r \in reservations /\ s \in reservations
        BY <2>6, <2>7
      <4>2. i < j \/ i = j
        BY <3>2
      <4>3. i < j => r[1] <= s[1]
        BY <2>6
      <4>4. i = j => r = s
        OBVIOUS
      <4> HIDE DEF r, s
      <4>5. r[1] \in Int /\ s[1] \in Int
        BY <2>5, <4>1
      <4>6. r[1] <= s[1]
        BY <4>2, <4>3, <4>4, <4>5
      <4>7. r[2] <= s[2]
        BY <1>1, <4>1, <4>6 DEF S!Orderly
      <4> QED
        BY <4>6, <4>7 DEF r, s
    <3> QED
      BY <3>1, <3>2 DEF Rows
  <2>9. ASSUME NEW t \in Times
        PROVE  (start <= t /\ t + period <= end /\ S!FreeFor(reservations, open, t, t + period))
                 <=> Gap(t, q, from, to, period, n)
    <3>1. t \in Int
      BY <1>2
    <3>2. (/\ start <= t /\ t + period <= end /\ S!IsOpen(open, t, t + period))
            <=> (from <= t /\ t + period <= to)
      <4> DEFINE o == open[1]
                 c == open[2]
      <4>1. S!IsOpen(open, t, t + period) <=> (o <= t /\ t + period <= c)
        BY <1>5 DEF S!IsOpen
      <4>2. /\ o \in Int /\ start <= from /\ o <= from /\ (from = start \/ from = o)
            /\ c \in Int /\ to <= end /\ to <= c /\ (to = end \/ to = c)
        BY <2>1, <2>2, <2>3
      <4> HIDE DEF o, c
      <4> QED
        BY <1>2, <2>2, <2>3, <3>1, <4>1, <4>2
    <3>3. SUFFICES ASSUME start <= t, t + period <= end, from <= t, t + period <= to
                   PROVE  S!Overlapping(reservations, t, t + period) = {}
                            <=> \A i \in 1..n : q[i][2] <= t \/ t + period <= q[i][1]
      BY <3>2 DEF S!FreeFor, Gap
    <3>4. ASSUME NEW r \in reservations
          PROVE  r \in S!Overlapping(reservations, t, t + period)
                   <=> (r \in O /\ ~(r[2] <= t \/ t + period <= r[1]))
      <4>1. r \in S!Overlapping(reservations, t, t + period) <=> (t < r[2] /\ r[1] < t + period)
        BY <2>5, <3>1 DEF S!Overlapping
      <4> QED
        BY <1>2, <2>5, <3>1, <3>3, <4>1
    <3>5. ASSUME S!Overlapping(reservations, t, t + period) = {}, NEW i \in 1..n
          PROVE  q[i][2] <= t \/ t + period <= q[i][1]
      <4>1. q[i] \in O /\ q[i] \in reservations
        BY <2>6, <2>7
      <4> QED
        BY Zenon, <3>4, <3>5, <4>1
    <3>6. ASSUME \A i \in 1..n : q[i][2] <= t \/ t + period <= q[i][1],
                 NEW r \in S!Overlapping(reservations, t, t + period)
          PROVE  FALSE
      <4>1. r \in reservations
        BY DEF S!Overlapping
      <4>2. r \in O /\ ~(r[2] <= t \/ t + period <= r[1])
        BY <3>4, <4>1
      <4>3. PICK i \in 1..n : q[i] = r
        BY <2>6, <4>2
      <4> QED
        BY Zenon, <3>6, <4>2, <4>3
    <3> QED
      BY <3>5, <3>6
  <2> DEFINE w == CHOOSE v : Walks(v, q, from, to, period, n)
  <2>10. Walks(w, q, from, to, period, n)
    <3>1. \E v : Walks(v, q, from, to, period, n)
      BY <2>6, WalksExist
    <3> QED
      BY Zenon, <3>1
  <2>11. S!HasSlot(reservations, open, start, end, period) <=> (from < to /\ Answers(w, n, to, period))
    <3>1. w = CHOOSE v : v = [i \in 0..n |->
                  IF i = 0 THEN [current |-> from, last |-> from, found |-> "no"]
                  ELSE S!Look(v[i - 1], q[i], to, period)]
      BY Zenon DEF Walks, Start
    <3> HIDE DEF w
    <3> QED
      BY Zenon, <1>5, <3>1 DEF S!HasSlot, Answers, from, to, n, q, O
  <2> HIDE DEF w
  <2>12. Slot <=> \E t \in Times : Gap(t, q, from, to, period, n)
    BY Zenon, <2>9
  <2>13. CASE from < to
    <3>1. Numbers(from, to, period)
      BY <1>2, <2>2, <2>3, <2>13 DEF Numbers
    <3> HIDE DEF Slot
    <3>2. Answers(w, n, to, period) <=> \E t \in Times : Gap(t, q, from, to, period, n)
      BY <2>6, <2>8, <2>10, <3>1, WalkAnswers DEF Answers
    <3> QED
      BY Zenon, <2>12, <2>13, <2>11, <3>2
  <2>14. CASE ~(from < to)
    <3>1. ASSUME NEW t \in Times, Gap(t, q, from, to, period, n) PROVE FALSE
      <4>1. t \in Int /\ from <= t /\ t + period <= to
        BY <1>2, <3>1 DEF Gap
      <4> QED
        BY <1>2, <2>2, <2>3, <2>14, <4>1
    <3> QED
      BY Zenon, <2>12, <2>14, <2>11, <3>1
  <2> QED
    BY <2>13, <2>14
<1> QED
  BY <1>4, <1>5

-----------------------------------------------------------------------------
(* The search asks one question and changes nothing *)

\* The walk over the reservations finds a slot of the asked length exactly when the query would find
\* the resource free for some range of that length within the range asked for, whatever the times,
\* the hours and the reservations of the day, as long as these keep the hours or reach over their
\* edge, and of two that overlap the one that begins first ends first.
THEOREM SearchesAlwaysAgree == Spec => []SearchesAgree
<1> DEFINE Asks == part = "search" => S!Init
<1>1. Init => Asks
  BY Zenon DEF Init
<1>2. Asks /\ [Next]_<<part, products, opening, search, permissions>> => Asks'
  <2> SUFFICES ASSUME Asks, [Next]_<<part, products, opening, search, permissions>>,
                      part' = "search"
               PROVE  S!Init'
    OBVIOUS
  <2>1. part = "search" /\ UNCHANGED search
    BY DEF Next, search
  <2> QED
    BY <2>1 DEF S!Init, search
<1>3. Asks => SearchesAgree
  <2>1. S!SearchAssumption
    BY Constants
  <2> QED
    BY <2>1, SearchAgreesOnAny DEF SearchesAgree
<1> QED
  BY <1>1, <1>2, <1>3, PTL DEF Spec
=============================================================================
