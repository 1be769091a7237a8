------------------------- MODULE OpeningHoursProofs -------------------------
(***************************************************************************)
(* For any number of resources, periods and requests: the daily hours of a *)
(* resource are those that its periods give, unless its last update was    *)
(* overtaken by another, or left it out.                                   *)
(*                                                                         *)
(* What a request has read of a resource is still so when it commits, but  *)
(* for the resources that are stale in it; and what it has deleted and     *)
(* added of one turns its hours into hours that the periods give once they *)
(* are as the request has written them.                                    *)
(***************************************************************************)
EXTENDS OpeningHours, WellFoundedInduction, TLAPS

\* Rows that periods may give
Shown == {Row(x[1], x[2].days[x[1]]) : x \in {y \in Date \X PeriodRow : Opens(y[2], y[1])}}

Place == DOMAIN Resource
Table == [PeriodId -> PeriodRow \cup {None}]
Busy == {"periods", "delete", "insert"}

TxShape == [at : {"idle", "rows"} \cup Busy, id : PeriodId \cup {None},
            row : PeriodRow \cup {None}, todo : SUBSET Place,
            seen : SUBSET Shown, drop : SUBSET Shown, add : SUBSET Shown,
            old : SUBSET (Resources \X Shown), new : SUBSET (Resources \X Shown),
            read : SUBSET Resources, stale : SUBSET Resources]

-----------------------------------------------------------------------------
(* A transaction t, where table holds the committed periods and H the      *)
(* committed hours                                                         *)

\* The periods once t has committed
With(t, table) == [table EXCEPT ![t.id] = t.row]

Owner(t, table) == IF t.row # None THEN t.row.owner ELSE table[t.id].owner
Concerned(t, table) == IF Owner(t, table) = Unit THEN Resources ELSE {Owner(t, table)}

Pending(t) == {Resource[i] : i \in t.todo}
Hand(t) == Resource[FirstOf(t.todo)]

\* The hours h of r once t has committed
After(h, t, r) == {x \in h : <<r, x>> \notin t.old} \cup {y[2] : y \in {z \in t.new : z[1] = r}}

Given(r, t, table) == Outcomes(PeriodsOf(r, With(t, table)))

\* It changes one period, and not the owner of it
RowOk(t, table) ==
    /\ t.id \in PeriodId
    /\ t.row # table[t.id]
    /\ t.row # None /\ table[t.id] # None => t.row.owner = table[t.id].owner

\* It updates the resources that the period concerns one after the other, each once
Progress(t, table) ==
    /\ t.at \in Busy => t.todo # {}
    /\ t.read \cap Pending(t) = IF t.at \in Busy THEN {Hand(t)} ELSE {}
    /\ t.read \cup Pending(t) \subseteq Concerned(t, table)
    /\ t.stale \subseteq t.read
    /\ \A y \in t.old \cup t.new : y[1] \in t.read
    /\ t.at \in {"periods", "delete"} => \A y \in t.old \cup t.new : y[1] # Hand(t)
    /\ t.at = "insert" => \A y \in t.new : y[1] # Hand(t)

\* The resources it has updated
Updated(t, table, H) ==
    \A r \in t.read \ (t.stale \cup Pending(t)) : After(H[r], t, r) \in Given(r, t, table)

\* The resource it is at
Updating(t, table, H) ==
    t.at \in Busy /\ Hand(t) \notin t.stale =>
        LET r == Hand(t) IN
        /\ t.at = "periods" => t.seen = H[r]
        /\ t.at = "delete" => \E w \in Given(r, t, table) : t.drop = H[r] \ w /\ t.add = w \ H[r]
        /\ t.at = "insert" =>
              \E w \in Given(r, t, table) :
                  /\ \A x \in H[r] : <<r, x>> \in t.old <=> x \notin w
                  /\ t.add = w \ H[r]

TxInv(t, table, H) ==
    /\ RowOk(t, table)
    /\ Progress(t, table)
    /\ Updated(t, table, H)
    /\ Updating(t, table, H)

Types ==
    /\ periods \in Table
    /\ hours \in [Resources -> SUBSET Shown]
    /\ tx \in [Request -> TxShape]

HoursInv ==
    /\ Types
    /\ \A r \in Resources \ strayed : hours[r] \in Outcomes(PeriodsOf(r, periods))
    /\ \A q \in InTx : TxInv(tx[q], periods, hours)
    /\ \A p, q \in InTx : p # q => tx[p].id # tx[q].id

-----------------------------------------------------------------------------
(* Periods and what they give *)

LEMMA Least ==
    ASSUME NEW T \in SUBSET Nat, T # {}
    PROVE  \E m \in T : \A k \in T : m <= k
<1>1. \E m \in T : \A k \in T : ~ (<<k, m>> \in OpToRel(<, Nat))
  BY NatLessThanWellFounded, WFMin
<1>2. PICK m \in T : \A k \in T : ~ (<<k, m>> \in OpToRel(<, Nat))
  BY <1>1
<1>3. ASSUME NEW k \in T PROVE m <= k
  <2>1. OpToRel(<, Nat) = {ss \in Nat \X Nat : ss[1] < ss[2]}
    BY Zenon DEF OpToRel
  <2>2. k < m => <<k, m>> \in {ss \in Nat \X Nat : ss[1] < ss[2]}
    OBVIOUS
  <2>3. ~ (<<k, m>> \in {ss \in Nat \X Nat : ss[1] < ss[2]})
    BY Zenon, <1>2, <2>1
  <2> QED
    BY <2>2, <2>3
<1> QED
  BY <1>3

LEMMA Names ==
    ASSUME OpeningHoursAssumption
    PROVE  /\ Place \subseteq Nat
           /\ Resources = {Resource[i] : i \in Place}
           /\ \A i, j \in Place : Resource[i] = Resource[j] => i = j
           /\ Unit \notin Resources /\ None \notin PeriodRow
           /\ \A p \in PeriodRow : p.owner \in Resources \cup {Unit}
<1>1. Resource \in Seq(Resources)
  BY DEF OpeningHoursAssumption
<1>2. Place = 1 .. Len(Resource)
  BY <1>1 DEF Place
<1>3. Place \subseteq Nat
  BY <1>1, <1>2
<1>4. Resources = {Resource[i] : i \in Place}
  BY DEF Resources, ToSet, Place
<1>5. \A i, j \in Place : Resource[i] = Resource[j] => i = j
  BY DEF OpeningHoursAssumption, IsInjective, Place
<1> QED
  BY <1>3, <1>4, <1>5 DEF OpeningHoursAssumption

LEMMA FirstIs ==
    ASSUME OpeningHoursAssumption, NEW places \in SUBSET Place, places # {}
    PROVE  FirstOf(places) \in places
<1>1. \E i \in places : \A j \in places : i <= j
  BY Least, Names
<1> QED
  BY <1>1 DEF FirstOf

LEMMA OutcomesShown ==
    ASSUME NEW P \in SUBSET PeriodRow, NEW w \in Outcomes(P)
    PROVE  w \in SUBSET Shown
<1>1. PICK first \in {f \in [{d \in Date : Deciding(P, d) # {}} -> P] :
                         \A d \in DOMAIN f : f[d] \in Deciding(P, d)} :
        w = {Row(d, first[d].days[d]) : d \in {e \in DOMAIN first : Opens(first[e], e)}}
  BY DEF Outcomes
<1>2. ASSUME NEW d \in DOMAIN first, Opens(first[d], d) PROVE Row(d, first[d].days[d]) \in Shown
  <2>1. d \in Date /\ first[d] \in PeriodRow
    OBVIOUS
  <2>2. <<d, first[d]>> \in Date \X PeriodRow
    BY <2>1
  <2> QED
    BY <1>2, <2>2 DEF Shown
<1> QED
  BY <1>1, <1>2

LEMMA PeriodsAre ==
    ASSUME NEW table \in Table, NEW r
    PROVE  PeriodsOf(r, table) \in SUBSET PeriodRow
BY DEF PeriodsOf, Table

\* Rows of other owners do not matter
LEMMA SamePeriods ==
    ASSUME NEW r, NEW table \in Table, NEW other \in Table,
           \A i \in PeriodId :
              \/ table[i] = other[i]
              \/ /\ table[i] = None \/ table[i].owner \notin {r, Unit}
                 /\ other[i] = None \/ other[i].owner \notin {r, Unit}
    PROVE  PeriodsOf(r, table) = PeriodsOf(r, other)
BY DEF PeriodsOf

LEMMA WithTable ==
    ASSUME NEW table \in Table, NEW t, RowOk(t, table), t.row \in PeriodRow \cup {None}
    PROVE  /\ With(t, table) \in Table
           /\ With(t, table)[t.id] = t.row
           /\ \A i \in PeriodId \ {t.id} : With(t, table)[i] = table[i]
BY DEF RowOk, With, Table

\* What a request writes does not matter to resources it does not concern
LEMMA Unconcerned ==
    ASSUME NEW table \in Table, NEW t, RowOk(t, table), t.row \in PeriodRow \cup {None},
           NEW r \in Resources \ Concerned(t, table)
    PROVE  /\ t.row = None \/ t.row.owner \notin {r, Unit}
           /\ table[t.id] = None \/ table[t.id].owner \notin {r, Unit}
<1>1. Owner(t, table) \notin {r, Unit}
  BY DEF Concerned
<1> QED
  BY <1>1 DEF Owner, RowOk

-----------------------------------------------------------------------------
(* Steps *)

LEMMA InitHours ==
    ASSUME OpeningHoursAssumption, Init
    PROVE  HoursInv
<1>1. Types
  BY DEF Init, Types, Table, Idle, TxShape
<1>2. \A r \in Resources : hours[r] = {} /\ PeriodsOf(r, periods) = {}
  BY DEF Init, PeriodsOf
<1>3. {} \in Outcomes({})
  <2> DEFINE D == {d \in Date : Deciding({}, d) # {}}
             first == [d \in D |-> None]
  <2>1. D = {}
    BY DEF Deciding
  <2>2. first \in {f \in [D -> {}] : \A d \in DOMAIN f : f[d] \in Deciding({}, d)}
    BY <2>1
  <2>3. {} = {Row(d, first[d].days[d]) : d \in {e \in DOMAIN first : Opens(first[e], e)}}
    BY <2>1
  <2> HIDE DEF first
  <2> QED
    BY <2>2, <2>3 DEF Outcomes
<1>4. InTx = {}
  BY DEF Init, InTx, Idle
<1> QED
  BY <1>1, <1>2, <1>3, <1>4 DEF HoursInv

\* A request alone moves: the tables stay, and so do the others' transactions
LEMMA Alone ==
    ASSUME HoursInv, NEW q \in Request, NEW t \in TxShape,
           tx' = [tx EXCEPT ![q] = t],
           t.at = "idle" \/ TxInv(t, periods, hours),
           t.at # "idle" => \A p \in InTx \ {q} : tx[p].id # t.id,
           UNCHANGED <<periods, hours, strayed>>
    PROVE  HoursInv'
<1>1. tx \in [Request -> TxShape]
  BY DEF HoursInv, Types
<1>2. tx'[q] = t /\ tx' \in [Request -> TxShape] /\ \A p \in Request \ {q} : tx'[p] = tx[p]
  BY <1>1
<1>3. Types'
  BY <1>2 DEF HoursInv, Types
<1>4. \A p \in InTx' \ {q} : p \in InTx
  BY <1>2 DEF InTx
<1>5. q \in InTx' => t.at # "idle"
  BY <1>2 DEF InTx
<1>6. \A p \in InTx' : TxInv(tx'[p], periods', hours')
  <2> SUFFICES ASSUME NEW p \in InTx' PROVE TxInv(tx'[p], periods, hours)
    OBVIOUS
  <2>1. CASE p = q
    BY <1>2, <1>5, <2>1
  <2>2. CASE p # q
    <3>1. p \in InTx /\ tx'[p] = tx[p]
      BY <1>2, <1>4, <2>2 DEF InTx
    <3> QED
      BY <3>1 DEF HoursInv
  <2> QED
    BY <2>1, <2>2
<1>7. \A p, o \in InTx' : p # o => tx'[p].id # tx'[o].id
  <2>1. \A p \in InTx' : IF p = q THEN tx'[p] = t ELSE p \in InTx /\ tx'[p] = tx[p]
    BY <1>2, <1>4 DEF InTx
  <2>2. \A p, o \in InTx : p # o => tx[p].id # tx[o].id
    BY DEF HoursInv
  <2> QED
    BY <1>5, <2>1, <2>2
<1>8. \A r \in Resources \ strayed' : hours'[r] \in Outcomes(PeriodsOf(r, periods'))
  BY DEF HoursInv
<1> QED
  BY <1>3, <1>6, <1>7, <1>8 DEF HoursInv

LEMMA IdleShape ==
    /\ Idle \in TxShape /\ Idle.at = "idle"
    /\ Idle.old = {} /\ Idle.new = {} /\ Idle.read = {} /\ Idle.stale = {}
BY DEF Idle, TxShape

LEMMA AbortStep ==
    ASSUME HoursInv, NEW q \in Request, Abort(q)
    PROVE  HoursInv'
BY Alone, IdleShape DEF Abort

LEMMA SaveStep ==
    ASSUME OpeningHoursAssumption, HoursInv, NEW q \in Request, Save(q)
    PROVE  HoursInv'
<1>1. PICK i \in PeriodId, row \in PeriodRow \cup {None} :
        /\ row # periods[i] /\ \A p \in InTx : tx[p].id # i
        /\ periods[i] # None /\ row # None => row.owner = periods[i].owner
        /\ tx' = [tx EXCEPT ![q] = [Idle EXCEPT !.at = "rows", !.id = i, !.row = row,
                                                !.todo = Listed(OwnerOf(i, row))]]
  BY DEF Save
<1> DEFINE owner == OwnerOf(i, row)
           t == [Idle EXCEPT !.at = "rows", !.id = i, !.row = row, !.todo = Listed(owner)]
<1>2. Listed(owner) \in SUBSET Place
  BY DEF Listed, Place
<1>3. /\ t \in TxShape
      /\ t.at = "rows" /\ t.id = i /\ t.row = row /\ t.todo = Listed(owner)
      /\ t.old = {} /\ t.new = {} /\ t.read = {} /\ t.stale = {}
  <2> HIDE DEF owner
  <2> QED
    BY <1>2, IdleShape DEF TxShape
<1> HIDE DEF t
<1>4. t \in TxShape
  BY <1>3
<1>5. RowOk(t, periods)
  BY <1>1, <1>3 DEF RowOk
<1>6. Owner(t, periods) = owner
  BY <1>3 DEF Owner, OwnerOf
<1>7. Pending(t) \subseteq Concerned(t, periods)
  <2>1. Pending(t) = {Resource[j] : j \in Listed(owner)}
    BY <1>3 DEF Pending
  <2>2. \A j \in Listed(owner) : Resource[j] \in Resources /\ (owner # Unit => Resource[j] = owner)
    BY Names DEF Listed, Place
  <2> QED
    BY <1>6, <2>1, <2>2 DEF Concerned
<1>8. Progress(t, periods)
  BY <1>3, <1>7 DEF Progress, Busy
<1>9. TxInv(t, periods, hours)
  BY <1>3, <1>5, <1>8 DEF TxInv, Updated, Updating, Busy
<1>10. tx' = [tx EXCEPT ![q] = t]
  BY <1>1 DEF t
<1>11. \A p \in InTx \ {q} : tx[p].id # t.id
  BY <1>1, <1>3
<1> QED
  BY <1>4, <1>9, <1>10, <1>11, Alone DEF Save

\* What is known of a request that is under way
LEMMA UnderWay ==
    ASSUME OpeningHoursAssumption, HoursInv, NEW q \in Request, tx[q].at # "idle"
    PROVE  /\ tx[q] \in TxShape /\ TxInv(tx[q], periods, hours)
           /\ \A p \in InTx \ {q} : tx[p].id # tx[q].id
           /\ tx[q].todo # {} => /\ FirstOf(tx[q].todo) \in tx[q].todo
                                 /\ Now(q) = Hand(tx[q]) /\ Now(q) \in Pending(tx[q])
                                 /\ Now(q) \in Resources
<1>1. q \in InTx /\ tx[q] \in TxShape
  BY DEF InTx, HoursInv, Types
<1>2. ASSUME tx[q].todo # {}
      PROVE  /\ FirstOf(tx[q].todo) \in tx[q].todo
             /\ Now(q) = Hand(tx[q]) /\ Now(q) \in Pending(tx[q])
             /\ Now(q) \in Resources
  <2>1. tx[q].todo \in SUBSET Place
    BY <1>1 DEF TxShape
  <2>2. FirstOf(tx[q].todo) \in tx[q].todo
    BY <1>2, <2>1, FirstIs
  <2> QED
    BY <2>1, <2>2, Names DEF Now, Hand, Pending
<1> QED
  BY <1>1, <1>2 DEF HoursInv

\* A period as it is once u has committed makes no difference to resources it does not concern
LEMMA Elsewhere ==
    ASSUME NEW u \in TxShape, NEW r \in Resources \ Concerned(u, periods),
           OpeningHoursAssumption, HoursInv, RowOk(u, periods), periods' = With(u, periods)
    PROVE  /\ PeriodsOf(r, periods') = PeriodsOf(r, periods)
           /\ \A p \in InTx : tx[p].id # u.id => Given(r, tx[p], periods') = Given(r, tx[p], periods)
<1>1. periods \in Table /\ u.row \in PeriodRow \cup {None}
  BY DEF HoursInv, Types, TxShape
<1>2. /\ periods' \in Table /\ periods'[u.id] = u.row
      /\ \A i \in PeriodId \ {u.id} : periods'[i] = periods[i]
  BY <1>1, WithTable
<1>3. /\ u.row = None \/ u.row.owner \notin {r, Unit}
      /\ periods[u.id] = None \/ periods[u.id].owner \notin {r, Unit}
  BY <1>1, Unconcerned
<1>4. PeriodsOf(r, periods') = PeriodsOf(r, periods)
  BY <1>1, <1>2, <1>3, SamePeriods
<1>5. ASSUME NEW p \in InTx, tx[p].id # u.id
      PROVE  Given(r, tx[p], periods') = Given(r, tx[p], periods)
  <2> DEFINE v == tx[p]
  <2>1. v \in TxShape /\ RowOk(v, periods) /\ v.id # u.id
    BY <1>5 DEF HoursInv, Types, InTx, TxInv
  <2>2. v.row \in PeriodRow \cup {None} /\ v.id \in PeriodId
    BY <2>1 DEF TxShape, RowOk
  <2> HIDE DEF v
  <2>3. RowOk(v, periods')
    BY <1>2, <2>1, <2>2 DEF RowOk
  <2>4. /\ With(v, periods) \in Table /\ With(v, periods') \in Table
        /\ With(v, periods)[v.id] = v.row /\ With(v, periods')[v.id] = v.row
        /\ \A i \in PeriodId \ {v.id} : /\ With(v, periods)[i] = periods[i]
                                        /\ With(v, periods')[i] = periods'[i]
    BY <1>1, <1>2, <2>1, <2>2, <2>3, WithTable
  <2>5. PeriodsOf(r, With(v, periods')) = PeriodsOf(r, With(v, periods))
    <3>1. \A i \in PeriodId :
             \/ With(v, periods')[i] = With(v, periods)[i]
             \/ /\ With(v, periods')[i] = None \/ With(v, periods')[i].owner \notin {r, Unit}
                /\ With(v, periods)[i] = None \/ With(v, periods)[i].owner \notin {r, Unit}
      BY <1>2, <1>3, <2>4
    <3> QED
      BY <2>4, <3>1, SamePeriods
  <2> QED
    BY <2>5 DEF Given, v
<1> QED
  BY <1>4, <1>5

\* The transaction p of another, once a period has been committed
LEMMA OthersThen ==
    ASSUME NEW u \in TxShape, NEW p \in InTx,
           OpeningHoursAssumption, HoursInv, RowOk(u, periods), periods' = With(u, periods),
           \A r \in Resources \ Concerned(u, periods) : hours'[r] = hours[r],
           tx[p].id # u.id, tx'[p] = Outdate(tx[p], Concerned(u, periods))
    PROVE  tx'[p] \in TxShape /\ tx'[p].id = tx[p].id /\ TxInv(tx'[p], periods', hours')
<1> DEFINE v == tx[p]
           touched == Concerned(u, periods)
           t == [v EXCEPT !.stale = @ \cup (touched \cap v.read)]
<1>2. p \in Request /\ v \in TxShape /\ TxInv(v, periods, hours) /\ v.id # u.id
  BY DEF HoursInv, Types, InTx
<1>4. tx'[p] = t
  BY DEF Outdate
<1>5. /\ t \in TxShape /\ t.stale = v.stale \cup (touched \cap v.read)
      /\ t.at = v.at /\ t.id = v.id /\ t.row = v.row /\ t.todo = v.todo /\ t.seen = v.seen
      /\ t.drop = v.drop /\ t.add = v.add /\ t.old = v.old /\ t.new = v.new /\ t.read = v.read
  <2> HIDE DEF v, touched
  <2> QED
    BY <1>2 DEF TxShape
<1>6. /\ \A r \in Resources \ touched :
            hours'[r] = hours[r] /\ Given(r, v, periods') = Given(r, v, periods)
  BY <1>2, Elsewhere
<1>7. periods'[v.id] = periods[v.id]
  <2>1. periods \in Table /\ u.row \in PeriodRow \cup {None} /\ v.id \in PeriodId
    BY <1>2 DEF HoursInv, Types, TxInv, RowOk, TxShape
  <2> QED
    BY <1>2, <2>1, WithTable
<1> HIDE DEF v, t, touched
<1>8. RowOk(t, periods')
  BY <1>2, <1>5, <1>7 DEF TxInv, RowOk
<1>9. Hand(t) = Hand(v) /\ Pending(t) = Pending(v) /\ Concerned(t, periods') = Concerned(v, periods)
  BY <1>5, <1>7 DEF Hand, Pending, Concerned, Owner
<1>10. Progress(t, periods')
  BY <1>2, <1>5, <1>9 DEF TxInv, Progress
<1>11. \A x : Given(x, t, periods') = Given(x, v, periods')
  BY <1>5 DEF Given, With
<1>12. \A h, x : After(h, t, x) = After(h, v, x)
  BY <1>5 DEF After
<1>13. v.read \subseteq Resources
  BY <1>2 DEF TxShape
<1>14. Updated(t, periods', hours')
  <2> SUFFICES ASSUME NEW x \in t.read \ (t.stale \cup Pending(t))
               PROVE  After(hours'[x], t, x) \in Given(x, t, periods')
    BY DEF Updated
  <2>1. x \in Resources \ touched /\ x \in v.read \ (v.stale \cup Pending(v))
    BY <1>5, <1>9, <1>13
  <2>2. After(hours[x], v, x) \in Given(x, v, periods)
    BY <1>2, <2>1 DEF TxInv, Updated
  <2> QED
    BY <1>6, <1>11, <1>12, <2>1, <2>2
<1>15. Updating(t, periods', hours')
  <2> SUFFICES ASSUME t.at \in Busy, Hand(t) \notin t.stale
               PROVE  LET r == Hand(t) IN
                      /\ t.at = "periods" => t.seen = hours'[r]
                      /\ t.at = "delete" => \E w \in Given(r, t, periods') :
                            t.drop = hours'[r] \ w /\ t.add = w \ hours'[r]
                      /\ t.at = "insert" => \E w \in Given(r, t, periods') :
                            /\ \A x \in hours'[r] : <<r, x>> \in t.old <=> x \notin w
                            /\ t.add = w \ hours'[r]
    BY DEF Updating
  <2> DEFINE r == Hand(v)
  <2>1. r \in v.read
    BY <1>2, <1>5 DEF TxInv, Progress
  <2>2. r \in Resources \ touched /\ r \notin v.stale
    BY <1>5, <1>9, <1>13, <2>1
  <2>3. hours'[r] = hours[r] /\ Given(r, t, periods') = Given(r, v, periods)
    BY <1>6, <1>11, <2>2
  <2>4. /\ v.at = "periods" => v.seen = hours[r]
        /\ v.at = "delete" => \E w \in Given(r, v, periods) :
              v.drop = hours[r] \ w /\ v.add = w \ hours[r]
        /\ v.at = "insert" => \E w \in Given(r, v, periods) :
              /\ \A x \in hours[r] : <<r, x>> \in v.old <=> x \notin w
              /\ v.add = w \ hours[r]
    BY <1>2, <1>5, <2>2 DEF TxInv, Updating
  <2>5. Hand(t) = r
    BY <1>9
  <2> HIDE DEF r
  <2> QED
    BY <1>5, <2>3, <2>4, <2>5
<1> QED
  BY <1>4, <1>5, <1>8, <1>10, <1>14, <1>15 DEF TxInv, v

\* A period has been committed, and others know that what it concerns is stale
LEMMA Landed ==
    ASSUME NEW u \in TxShape,
           OpeningHoursAssumption, HoursInv, RowOk(u, periods), periods' = With(u, periods),
           hours' \in [Resources -> SUBSET Shown],
           \A r \in Resources \ Concerned(u, periods) : hours'[r] = hours[r],
           tx' = [p \in Request |-> tx'[p]],
           \A p \in Request :
              \/ tx'[p] = Idle
              \/ /\ tx'[p] = Outdate(tx[p], Concerned(u, periods))
                 /\ p \in InTx => tx[p].id # u.id,
           \A r \in Resources \ strayed' :
              \/ r \notin strayed /\ r \notin Concerned(u, periods)
              \/ hours'[r] \in Outcomes(PeriodsOf(r, periods'))
    PROVE  HoursInv'
<1>1. periods' \in Table
  BY WithTable DEF HoursInv, Types, TxShape
<1>2. ASSUME NEW p \in Request, tx'[p] # Idle
      PROVE  /\ tx'[p] \in TxShape /\ tx'[p].at = tx[p].at
             /\ p \in InTx => tx[p].id # u.id /\ tx'[p] = Outdate(tx[p], Concerned(u, periods))
  <2>1. tx[p] \in TxShape
    BY DEF HoursInv, Types
  <2>2. tx'[p] = Outdate(tx[p], Concerned(u, periods)) /\ (p \in InTx => tx[p].id # u.id)
    BY <1>2
  <2>3. tx'[p] = [tx[p] EXCEPT !.stale = @ \cup (Concerned(u, periods) \cap tx[p].read)]
    BY <2>2 DEF Outdate
  <2>4. tx'[p] \in TxShape /\ tx'[p].at = tx[p].at
    BY <2>1, <2>3 DEF TxShape
  <2> QED
    BY <2>2, <2>4
<1>3. tx' \in [Request -> TxShape]
  BY <1>2, IdleShape
<1>4. \A p \in InTx' : p \in InTx /\ tx'[p] # Idle
  BY <1>2, IdleShape DEF InTx
<1>5. \A r \in Resources \ strayed' : hours'[r] \in Outcomes(PeriodsOf(r, periods'))
  <2> SUFFICES ASSUME NEW r \in Resources \ strayed',
                      r \notin strayed /\ r \notin Concerned(u, periods)
               PROVE  hours'[r] \in Outcomes(PeriodsOf(r, periods'))
    OBVIOUS
  <2> QED
    BY Elsewhere DEF HoursInv
<1>6. \A p \in InTx' : TxInv(tx'[p], periods', hours') /\ tx'[p].id = tx[p].id
  <2> SUFFICES ASSUME NEW p \in InTx'
               PROVE  TxInv(tx'[p], periods', hours') /\ tx'[p].id = tx[p].id
    OBVIOUS
  <2>1. p \in Request /\ p \in InTx /\ tx'[p] # Idle
    BY <1>4 DEF InTx
  <2>2. tx[p].id # u.id /\ tx'[p] = Outdate(tx[p], Concerned(u, periods))
    BY <1>2, <2>1
  <2> QED
    BY <2>1, <2>2, OthersThen
<1>7. \A p, o \in InTx' : p # o => tx'[p].id # tx'[o].id
  BY <1>4, <1>6 DEF HoursInv
<1>8. Types'
  BY <1>1, <1>3 DEF Types
<1> QED
  BY <1>5, <1>6, <1>7, <1>8 DEF HoursInv

\* What a request concerns
LEMMA TouchedIs == \A q \in Request : Touched(OwnerIn(q)) = Concerned(tx[q], periods)
BY DEF Touched, OwnerIn, Concerned, Owner, OwnerOf

\* The others, when q commits
LEMMA LeaveIs ==
    ASSUME OpeningHoursAssumption, HoursInv, NEW q \in Request, tx[q].at # "idle", tx' = Leave(q)
    PROVE  /\ tx' = [p \in Request |-> tx'[p]]
           /\ tx'[q] = Idle
           /\ \A p \in Request \ {q} : tx'[p] = Outdate(tx[p], Concerned(tx[q], periods))
           /\ \A p \in Request :
                 \/ tx'[p] = Idle
                 \/ /\ tx'[p] = Outdate(tx[p], Concerned(tx[q], periods))
                    /\ p \in InTx => tx[p].id # tx[q].id
<1>1. \A p \in InTx \ {q} : tx[p].id # tx[q].id
  BY UnderWay
<1>2. tx' = [p \in Request |-> IF p = q THEN Idle
                               ELSE Outdate(tx[p], Concerned(tx[q], periods))]
  BY TouchedIs DEF Leave
<1> QED
  BY <1>1, <1>2

LEMMA CommitStep ==
    ASSUME OpeningHoursAssumption, HoursInv, NEW q \in Request, Commit(q)
    PROVE  HoursInv'
<1> DEFINE u == tx[q]
<1>1. u \in TxShape /\ TxInv(u, periods, hours) /\ u.todo = {} /\ u.at = "rows"
  BY UnderWay DEF Commit
<1>2. RowOk(u, periods) /\ periods' = With(u, periods)
  BY <1>1 DEF TxInv, Commit, With
<1>3. hours' = [r \in Resources |-> After(hours[r], u, r)]
  BY DEF Commit, After
<1>4. hours' \in [Resources -> SUBSET Shown]
  <2>1. \A r \in Resources : hours[r] \in SUBSET Shown
    BY DEF HoursInv, Types
  <2>2. \A y \in u.new : y[2] \in Shown
    BY <1>1 DEF TxShape
  <2> QED
    BY <1>3, <2>1, <2>2 DEF After
<1>5. ASSUME NEW r \in Resources \ Concerned(u, periods) PROVE hours'[r] = hours[r]
  <2>1. \A y \in u.old \cup u.new : y[1] # r
    BY <1>1 DEF TxInv, Progress
  <2>2. \A x : <<r, x>> \notin u.old
    BY <2>1
  <2>3. {z \in u.new : z[1] = r} = {}
    BY <2>1
  <2> QED
    BY <1>3, <2>2, <2>3 DEF After
<1>6. ASSUME NEW r \in Resources \ strayed'
      PROVE  \/ r \notin strayed /\ r \notin Concerned(u, periods)
             \/ hours'[r] \in Outcomes(PeriodsOf(r, periods'))
  <2>1. CASE r \in u.read \ u.stale
    <3>1. After(hours[r], u, r) \in Given(r, u, periods)
      BY <1>1, <2>1 DEF TxInv, Updated, Pending
    <3> QED
      BY <1>2, <1>3, <3>1 DEF Given
  <2>2. CASE r \notin u.read \ u.stale
    BY <2>2, TouchedIs DEF Commit
  <2> QED
    BY <2>1, <2>2
<1>7. tx[q].at # "idle" /\ tx' = Leave(q)
  BY <1>1 DEF Commit
<1> HIDE DEF u
<1> QED
  BY <1>1, <1>2, <1>4, <1>5, <1>6, <1>7, LeaveIs, Landed DEF u

\* A failed assertion is swallowed: the resource is astray
LEMMA SwallowStep ==
    ASSUME NEW q \in Request, NEW gone, OpeningHoursAssumption, HoursInv, tx[q].at # "idle",
           Swallow(q, gone)
    PROVE  HoursInv'
<1> DEFINE u == tx[q]
<1>1. u \in TxShape /\ RowOk(u, periods) /\ periods' = With(u, periods)
  BY UnderWay DEF TxInv, Swallow, With
<1>2. Concerned(u, periods) = {OwnerIn(q)} /\ strayed' = strayed \cup {OwnerIn(q)}
  BY DEF Swallow, Concerned, Owner, OwnerIn, OwnerOf
<1>3. hours' = [hours EXCEPT ![OwnerIn(q)] = @ \ gone] /\ hours \in [Resources -> SUBSET Shown]
  BY DEF Swallow, HoursInv, Types
<1>4. hours' \in [Resources -> SUBSET Shown]
  BY <1>3
<1>5. \A r \in Resources \ Concerned(u, periods) : hours'[r] = hours[r]
  BY <1>2, <1>3
<1>6. \A r \in Resources \ strayed' : r \notin strayed /\ r \notin Concerned(u, periods)
  BY <1>2
<1>7. tx' = Leave(q)
  BY DEF Swallow
<1> HIDE DEF u
<1> QED
  BY <1>1, <1>4, <1>5, <1>6, <1>7, LeaveIs, Landed DEF u

LEMMA AssertionStep ==
    ASSUME NEW q \in Request, NEW gone, OpeningHoursAssumption, HoursInv, tx[q].at # "idle",
           AssertionFails(q, gone)
    PROVE  HoursInv'
BY AbortStep, SwallowStep DEF AssertionFails

LEMMA ApiStep ==
    ASSUME OpeningHoursAssumption, HoursInv, ApiSave
    PROVE  HoursInv'
<1>1. PICK i \in PeriodId, row \in PeriodRow :
        /\ row # periods[i] /\ \A p \in InTx : tx[p].id # i
        /\ periods[i] # None => row.owner # Unit /\ row.owner = periods[i].owner
        /\ periods' = [periods EXCEPT ![i] = row]
        /\ tx' = [q \in Request |-> Outdate(tx[q], Touched(row.owner))]
        /\ strayed' = strayed \cup Touched(row.owner)
  BY DEF ApiSave
<1> DEFINE u == [Idle EXCEPT !.id = i, !.row = row]
<1>2. u \in TxShape /\ u.id = i /\ u.row = row
  BY DEF Idle, TxShape
<1> HIDE DEF u
<1>3. RowOk(u, periods) /\ periods' = With(u, periods)
  BY <1>1, <1>2 DEF RowOk, With
<1>4. row # None
  BY Names
<1>5. Concerned(u, periods) = Touched(row.owner)
  BY <1>2, <1>4 DEF Concerned, Owner, Touched
<1>6. hours' = hours /\ hours \in [Resources -> SUBSET Shown]
  BY DEF ApiSave, HoursInv, Types
<1>7. \A p \in Request : /\ tx'[p] = Outdate(tx[p], Concerned(u, periods))
                         /\ p \in InTx => tx[p].id # u.id
  BY <1>1, <1>2, <1>5
<1>8. tx' = [p \in Request |-> tx'[p]]
  BY <1>1
<1>9. \A r \in Resources \ strayed' : r \notin strayed /\ r \notin Concerned(u, periods)
  BY <1>1, <1>5
<1> QED
  BY <1>2, <1>3, <1>6, <1>7, <1>8, <1>9, Landed

LEMMA ReadRowsStep ==
    ASSUME OpeningHoursAssumption, HoursInv, NEW q \in Request, ReadRows(q)
    PROVE  HoursInv'
<1> DEFINE u == tx[q]
           t == [u EXCEPT !.at = "periods", !.seen = hours[Now(q)], !.read = @ \cup {Now(q)}]
           r == Now(q)
<1>1. CASE AssertionFails(q, {})
  BY <1>1, AssertionStep DEF ReadRows
<1>2. CASE /\ tx' = [tx EXCEPT ![q].at = "periods", ![q].seen = hours[Now(q)],
                               ![q].read = @ \cup {Now(q)}]
           /\ UNCHANGED <<periods, hours, strayed>>
  <2>1. u.at = "rows" /\ u.todo # {}
    BY DEF ReadRows
  <2>2. /\ u \in TxShape /\ TxInv(u, periods, hours)
        /\ \A p \in InTx \ {q} : tx[p].id # u.id
        /\ r = Hand(u) /\ r \in Pending(u) /\ r \in Resources
    BY <2>1, UnderWay
  <2>3. tx' = [tx EXCEPT ![q] = t]
    BY <1>2
  <2>4. hours[r] \in SUBSET Shown
    BY <2>2 DEF HoursInv, Types
  <2>5. /\ t \in TxShape /\ t.at = "periods" /\ t.seen = hours[r] /\ t.read = u.read \cup {r}
        /\ t.id = u.id /\ t.row = u.row /\ t.todo = u.todo /\ t.stale = u.stale
        /\ t.old = u.old /\ t.new = u.new
    <3> HIDE DEF u, r
    <3> QED
      BY <2>2, <2>4 DEF TxShape, Busy, r
  <2> HIDE DEF u, t, r
  <2>6. RowOk(t, periods)
    BY <2>2, <2>5 DEF TxInv, RowOk
  <2>7. Hand(t) = r /\ Pending(t) = Pending(u) /\ Concerned(t, periods) = Concerned(u, periods)
    BY <2>2, <2>5 DEF Hand, Pending, Concerned, Owner
  <2>8. /\ u.read \cap Pending(u) = {} /\ u.read \cup Pending(u) \subseteq Concerned(u, periods)
        /\ u.stale \subseteq u.read /\ \A y \in u.old \cup u.new : y[1] \in u.read
    BY <2>1, <2>2 DEF TxInv, Progress, Busy
  <2>9. Progress(t, periods)
    BY <2>1, <2>2, <2>5, <2>7, <2>8 DEF Progress, Busy
  <2>10. \A x : Given(x, t, periods) = Given(x, u, periods)
    BY <2>5 DEF Given, With
  <2>11. \A h, x : After(h, t, x) = After(h, u, x)
    BY <2>5 DEF After
  <2>12. Updated(t, periods, hours)
    BY <2>2, <2>5, <2>7, <2>10, <2>11 DEF TxInv, Updated
  <2>13. Updating(t, periods, hours)
    BY <2>5, <2>7 DEF Updating, Busy
  <2>14. TxInv(t, periods, hours)
    BY <2>6, <2>9, <2>12, <2>13 DEF TxInv
  <2>15. UNCHANGED <<periods, hours, strayed>> /\ \A p \in InTx \ {q} : tx[p].id # t.id
    BY <1>2, <2>2, <2>5
  <2> QED
    BY <2>3, <2>5, <2>14, <2>15, Alone
<1> QED
  BY <1>1, <1>2 DEF ReadRows

LEMMA ReadPeriodsStep ==
    ASSUME OpeningHoursAssumption, HoursInv, NEW q \in Request, ReadPeriods(q)
    PROVE  HoursInv'
<1> DEFINE u == tx[q]
           r == Now(q)
<1>1. PICK wanted \in Outcomes(PeriodsOf(r, [periods EXCEPT ![u.id] = u.row])) :
        tx' = [tx EXCEPT ![q].at = "delete", ![q].seen = {},
                         ![q].drop = Obsolete(tx[q].seen, wanted),
                         ![q].add = wanted \ tx[q].seen]
  BY DEF ReadPeriods
<1> DEFINE t == [u EXCEPT !.at = "delete", !.seen = {}, !.drop = u.seen \ wanted,
                          !.add = wanted \ u.seen]
<1>2. u.at = "periods"
  BY DEF ReadPeriods
<1>3. u \in TxShape /\ TxInv(u, periods, hours) /\ \A p \in InTx \ {q} : tx[p].id # u.id
  BY <1>2, UnderWay
<1>4. u.todo # {} /\ r = Hand(u)
  BY <1>2, <1>3, UnderWay DEF TxInv, Progress, Busy
<1>5. wanted \in Given(r, u, periods)
  BY DEF Given, With
<1>6. wanted \in SUBSET Shown
  <2>1. periods \in Table /\ u.row \in PeriodRow \cup {None} /\ RowOk(u, periods)
    BY <1>3 DEF HoursInv, Types, TxInv, TxShape
  <2> QED
    BY <1>5, <2>1, WithTable, PeriodsAre, OutcomesShown DEF Given
<1>7. tx' = [tx EXCEPT ![q] = t]
  BY <1>1 DEF Obsolete
<1>8. /\ t \in TxShape /\ t.at = "delete"
      /\ t.drop = u.seen \ wanted /\ t.add = wanted \ u.seen
      /\ t.id = u.id /\ t.row = u.row /\ t.todo = u.todo /\ t.stale = u.stale
      /\ t.old = u.old /\ t.new = u.new /\ t.read = u.read
  <2> HIDE DEF u
  <2> QED
    BY <1>3, <1>6 DEF TxShape, Busy
<1> HIDE DEF u, t, r
<1>9. RowOk(t, periods)
  BY <1>3, <1>8 DEF TxInv, RowOk
<1>10. Hand(t) = r /\ Pending(t) = Pending(u) /\ Concerned(t, periods) = Concerned(u, periods)
  BY <1>4, <1>8 DEF Hand, Pending, Concerned, Owner
<1>11. Progress(t, periods)
  BY <1>2, <1>3, <1>4, <1>8, <1>10 DEF TxInv, Progress, Busy
<1>12. \A x : Given(x, t, periods) = Given(x, u, periods)
  BY <1>8 DEF Given, With
<1>13. \A h, x : After(h, t, x) = After(h, u, x)
  BY <1>8 DEF After
<1>14. Updated(t, periods, hours)
  BY <1>3, <1>8, <1>10, <1>12, <1>13 DEF TxInv, Updated
<1>15. Updating(t, periods, hours)
  <2> SUFFICES ASSUME r \notin t.stale
               PROVE  \E w \in Given(r, t, periods) :
                         t.drop = hours[r] \ w /\ t.add = w \ hours[r]
    BY <1>8, <1>10 DEF Updating
  <2>1. u.seen = hours[r]
    BY <1>2, <1>3, <1>4, <1>8 DEF TxInv, Updating, Busy
  <2> QED
    BY <1>5, <1>8, <1>12, <2>1
<1>16. TxInv(t, periods, hours)
  BY <1>9, <1>11, <1>14, <1>15 DEF TxInv
<1>17. UNCHANGED <<periods, hours, strayed>> /\ \A p \in InTx \ {q} : tx[p].id # t.id
  BY <1>3, <1>8 DEF ReadPeriods
<1> QED
  BY <1>7, <1>8, <1>16, <1>17, Alone

LEMMA DeleteStep ==
    ASSUME OpeningHoursAssumption, HoursInv, NEW q \in Request, Delete(q)
    PROVE  HoursInv'
<1> DEFINE u == tx[q]
           r == Now(q)
           t == [u EXCEPT !.at = "insert", !.drop = {}, !.old = @ \cup Of(r, u.drop)]
<1>1. CASE AssertionFails(q, tx[q].drop)
  BY <1>1, AssertionStep DEF Delete
<1>2. CASE /\ tx' = [tx EXCEPT ![q].at = "insert", ![q].drop = {},
                               ![q].old = @ \cup Of(Now(q), tx[q].drop)]
           /\ UNCHANGED <<periods, hours, strayed>>
  <2>1. u.at = "delete"
    BY DEF Delete
  <2>2. u \in TxShape /\ TxInv(u, periods, hours) /\ \A p \in InTx \ {q} : tx[p].id # u.id
    BY <2>1, UnderWay
  <2>3. r = Hand(u) /\ r \in Pending(u) /\ r \in Resources
    BY <2>1, <2>2, UnderWay DEF TxInv, Progress, Busy
  <2>4. tx' = [tx EXCEPT ![q] = t]
    BY <1>2
  <2>5. Of(r, u.drop) \in SUBSET (Resources \X Shown)
    BY <2>2, <2>3 DEF Of, TxShape
  <2>6. /\ t \in TxShape /\ t.at = "insert" /\ t.old = u.old \cup Of(r, u.drop)
        /\ t.id = u.id /\ t.row = u.row /\ t.todo = u.todo /\ t.stale = u.stale
        /\ t.add = u.add /\ t.new = u.new /\ t.read = u.read
    <3> HIDE DEF u, r
    <3> QED
      BY <2>2, <2>5 DEF TxShape, Busy, r, u
  <2> HIDE DEF u, t, r
  <2>7. RowOk(t, periods)
    BY <2>2, <2>6 DEF TxInv, RowOk
  <2>8. Hand(t) = r /\ Pending(t) = Pending(u) /\ Concerned(t, periods) = Concerned(u, periods)
    BY <2>3, <2>6 DEF Hand, Pending, Concerned, Owner
  <2>9. \A y \in Of(r, u.drop) : y[1] = r
    BY DEF Of
  <2>10. r \in u.read
    BY <2>1, <2>2, <2>3 DEF TxInv, Progress, Busy
  <2>11. Progress(t, periods)
    BY <2>1, <2>2, <2>3, <2>6, <2>8, <2>9, <2>10 DEF TxInv, Progress, Busy
  <2>12. \A x : Given(x, t, periods) = Given(x, u, periods)
    BY <2>6 DEF Given, With
  <2>13. ASSUME NEW x \in u.read \ (u.stale \cup Pending(u)), NEW h
         PROVE  After(h, t, x) = After(h, u, x)
    <3>1. x # r
      BY <2>3
    <3>2. \A y : <<x, y>> \in t.old <=> <<x, y>> \in u.old
      BY <2>6, <3>1 DEF Of
    <3> QED
      BY <2>6, <3>2 DEF After
  <2>14. Updated(t, periods, hours)
    BY <2>2, <2>6, <2>8, <2>12, <2>13 DEF TxInv, Updated
  <2>15. Updating(t, periods, hours)
    <3> SUFFICES ASSUME r \notin t.stale
                 PROVE  \E w \in Given(r, t, periods) :
                           /\ \A x \in hours[r] : <<r, x>> \in t.old <=> x \notin w
                           /\ t.add = w \ hours[r]
      BY <2>6, <2>8 DEF Updating
    <3>1. PICK w \in Given(r, u, periods) : u.drop = hours[r] \ w /\ u.add = w \ hours[r]
      BY <2>1, <2>2, <2>3, <2>6 DEF TxInv, Updating, Busy
    <3>2. \A x : <<r, x>> \notin u.old
      BY <2>1, <2>2, <2>3 DEF TxInv, Progress
    <3>3. \A x : <<r, x>> \in Of(r, u.drop) <=> x \in u.drop
      BY DEF Of
    <3> QED
      BY <2>6, <2>12, <3>1, <3>2, <3>3
  <2>16. TxInv(t, periods, hours)
    BY <2>7, <2>11, <2>14, <2>15 DEF TxInv
  <2>17. UNCHANGED <<periods, hours, strayed>> /\ \A p \in InTx \ {q} : tx[p].id # t.id
    BY <1>2, <2>2, <2>6
  <2> QED
    BY <2>4, <2>6, <2>16, <2>17, Alone
<1> QED
  BY <1>1, <1>2 DEF Delete

LEMMA InsertStep ==
    ASSUME OpeningHoursAssumption, HoursInv, NEW q \in Request, Insert(q)
    PROVE  HoursInv'
<1> DEFINE u == tx[q]
           r == Now(q)
           t == [u EXCEPT !.at = "rows", !.todo = @ \ {FirstOf(@)}, !.add = {},
                          !.new = @ \cup Of(r, u.add)]
<1>1. CASE Abort(q)
  BY <1>1, AbortStep DEF Insert
<1>2. CASE /\ tx' = [tx EXCEPT ![q].at = "rows", ![q].todo = @ \ {FirstOf(@)}, ![q].add = {},
                               ![q].new = @ \cup Of(Now(q), tx[q].add)]
           /\ UNCHANGED <<periods, hours, strayed>>
  <2>1. u.at = "insert"
    BY DEF Insert
  <2>2. u \in TxShape /\ TxInv(u, periods, hours) /\ \A p \in InTx \ {q} : tx[p].id # u.id
    BY <2>1, UnderWay
  <2>3. /\ r = Hand(u) /\ r \in Pending(u) /\ r \in Resources
        /\ FirstOf(u.todo) \in u.todo
    BY <2>1, <2>2, UnderWay DEF TxInv, Progress, Busy
  <2>4. tx' = [tx EXCEPT ![q] = t]
    BY <1>2
  <2>5. Of(r, u.add) \in SUBSET (Resources \X Shown)
    BY <2>2, <2>3 DEF Of, TxShape
  <2>6. /\ t \in TxShape /\ t.at = "rows" /\ t.todo = u.todo \ {FirstOf(u.todo)}
        /\ t.new = u.new \cup Of(r, u.add)
        /\ t.id = u.id /\ t.row = u.row /\ t.stale = u.stale
        /\ t.old = u.old /\ t.read = u.read
    <3> HIDE DEF u, r
    <3> QED
      BY <2>2, <2>5 DEF TxShape, Busy, r, u
  <2> HIDE DEF u, t, r
  <2>7. RowOk(t, periods)
    BY <2>2, <2>6 DEF TxInv, RowOk
  <2>8. Pending(t) = Pending(u) \ {r} /\ Concerned(t, periods) = Concerned(u, periods)
    <3>1. u.todo \subseteq Place /\ r = Resource[FirstOf(u.todo)]
      BY <2>2, <2>3 DEF TxShape, Hand
    <3> QED
      BY <2>3, <2>6, <3>1, Names DEF Pending, Concerned, Owner
  <2>9. \A y \in Of(r, u.add) : y[1] = r
    BY DEF Of
  <2>10. r \in u.read /\ u.read \cap Pending(u) = {r}
    BY <2>1, <2>2, <2>3 DEF TxInv, Progress, Busy
  <2>11. Progress(t, periods)
    BY <2>1, <2>2, <2>6, <2>8, <2>9, <2>10 DEF TxInv, Progress, Busy
  <2>12. \A x : Given(x, t, periods) = Given(x, u, periods)
    BY <2>6 DEF Given, With
  <2>13. ASSUME NEW x \in Resources \ {r}, NEW h PROVE After(h, t, x) = After(h, u, x)
    <3>1. {z \in t.new : z[1] = x} = {z \in u.new : z[1] = x}
      BY <2>6, <2>9
    <3> QED
      BY <2>6, <3>1 DEF After
  <2>14. ASSUME r \notin u.stale PROVE After(hours[r], t, r) \in Given(r, t, periods)
    <3>1. PICK w \in Given(r, u, periods) :
            /\ \A x \in hours[r] : <<r, x>> \in u.old <=> x \notin w
            /\ u.add = w \ hours[r]
      BY <2>1, <2>2, <2>3, <2>14 DEF TxInv, Updating, Busy
    <3>2. \A y \in u.new : y[1] # r
      BY <2>1, <2>2, <2>3 DEF TxInv, Progress
    <3>3. {z \in t.new : z[1] = r} = Of(r, u.add)
      BY <2>6, <2>9, <3>2
    <3>4. {y[2] : y \in Of(r, u.add)} = u.add
      <4>1. \A x \in u.add : <<r, x>> \in Of(r, u.add) /\ <<r, x>>[2] = x
        BY DEF Of
      <4>2. \A y \in Of(r, u.add) : y[2] \in u.add
        BY DEF Of
      <4> QED
        BY <4>1, <4>2
    <3>5. {x \in hours[r] : <<r, x>> \notin t.old} = hours[r] \cap w
      BY <2>6, <3>1
    <3>6. After(hours[r], t, r) = w
      BY <3>1, <3>3, <3>4, <3>5 DEF After
    <3> QED
      BY <2>12, <3>6
  <2>15. Updated(t, periods, hours)
    <3> SUFFICES ASSUME NEW x \in t.read \ (t.stale \cup Pending(t))
                 PROVE  After(hours[x], t, x) \in Given(x, t, periods)
      BY DEF Updated
    <3>1. CASE x = r
      BY <2>6, <2>14, <3>1
    <3>2. CASE x # r
      <4>1. x \in u.read \ (u.stale \cup Pending(u)) /\ x \in Resources
        BY <2>2, <2>6, <2>8, <3>2 DEF TxShape
      <4> QED
        BY <2>2, <2>12, <2>13, <3>2, <4>1 DEF TxInv, Updated
    <3> QED
      BY <3>1, <3>2
  <2>16. TxInv(t, periods, hours)
    BY <2>6, <2>7, <2>11, <2>15 DEF TxInv, Updating, Busy
  <2>17. UNCHANGED <<periods, hours, strayed>> /\ \A p \in InTx \ {q} : tx[p].id # t.id
    BY <1>2, <2>2, <2>6
  <2> QED
    BY <2>4, <2>6, <2>16, <2>17, Alone
<1> QED
  BY <1>1, <1>2 DEF Insert

-----------------------------------------------------------------------------
(* What follows *)

LEMMA NextHours ==
    ASSUME OpeningHoursAssumption, HoursInv, [Next]_vars
    PROVE  HoursInv'
<1>1. CASE UNCHANGED vars
  BY <1>1 DEF vars, HoursInv, Types, InTx
<1>2. CASE \E q \in Request :
              Save(q) \/ ReadRows(q) \/ ReadPeriods(q) \/ Delete(q) \/ Insert(q) \/ Commit(q)
  BY <1>2, SaveStep, ReadRowsStep, ReadPeriodsStep, DeleteStep, InsertStep, CommitStep
<1>3. CASE \E r \in Resources :
              (SoftDelete(r) \/ Restore(r)) /\ UNCHANGED <<periods, hours, edits, tx, strayed>>
  BY <1>3 DEF HoursInv, Types, InTx
<1> QED
  BY <1>1, <1>2, <1>3, ApiStep DEF Next

\* What transactions have read of the hours, and will leave of them, fits what the periods give:
\* the invariant that HoursMatch rests on.
THEOREM HoursInvariant ==
    ASSUME OpeningHoursAssumption
    PROVE  Spec => []HoursInv
<1>1. Init => HoursInv
  BY InitHours
<1>2. HoursInv /\ [Next]_vars => HoursInv'
  BY NextHours
<1> QED
  BY <1>1, <1>2, PTL DEF Spec

\* The period that comes first on a day is the shortest of the resource, else of its unit
LEMMA DecidingIs ==
    ASSUME OpeningHoursAssumption, NEW table \in Table, NEW r \in Resources, NEW d,
           periods = table
    PROVE  Deciding(PeriodsOf(r, table), d) = Decide(r, d)
<1> DEFINE P == PeriodsOf(r, table)
           all == {p \in P : Covers(p, d)}
           own == {p \in all : p.owner = r}
<1>1. r # Unit /\ P \in SUBSET PeriodRow
  BY Names, PeriodsAre
<1>2. \A p \in P : p.owner \in {r, Unit} /\ p.start \in Nat /\ p.end \in Nat
  BY <1>1 DEF PeriodsOf, OpeningHoursAssumption
<1>3. Deciding(P, d) = {p \in all : \A q \in all : ~Before(q, p)}
  BY DEF Deciding
<1>4. Decide(r, d) = Shortest(IF own # {} THEN own ELSE all)
  BY DEF Decide
<1>5. \A p, q \in all :
         Before(q, p) <=> \/ q.owner = r /\ p.owner = Unit
                          \/ q.owner = p.owner /\ q.end - q.start < p.end - p.start
  BY <1>1, <1>2 DEF Before
<1> HIDE DEF P
<1>6. ASSUME NEW p \in all
      PROVE  (\A q \in all : ~Before(q, p)) <=> p \in Shortest(IF own # {} THEN own ELSE all)
  <2>1. \A q \in all : q.owner \in {r, Unit} /\ q.end - q.start \in Int
    BY <1>2
  <2>2. CASE own # {}
    <3>1. (\A q \in all : ~Before(q, p))
            <=> p \in own /\ \A q \in own : p.end - p.start <= q.end - q.start
      BY <1>1, <1>5, <2>1, <2>2
    <3> QED
      BY <2>2, <3>1 DEF Shortest
  <2>3. CASE own = {}
    <3>1. \A q \in all : q.owner = Unit
      BY <2>1, <2>3
    <3>2. (\A q \in all : ~Before(q, p))
            <=> \A q \in all : p.end - p.start <= q.end - q.start
      BY <1>1, <1>5, <2>1, <3>1
    <3> QED
      BY <2>3, <3>2 DEF Shortest
  <2> QED
    BY <2>2, <2>3
<1>7. Shortest(IF own # {} THEN own ELSE all) \subseteq all
  BY DEF Shortest
<1> QED
  BY <1>3, <1>4, <1>6, <1>7 DEF P

\* Of a day, an outcome holds what the period that decides says
LEMMA OutcomeDay ==
    ASSUME NEW P, NEW w \in Outcomes(P), NEW d \in Date
    PROVE  LET given == {x \in w : x.date = d} IN
           IF Deciding(P, d) = {} THEN given = {}
           ELSE \E p \in Deciding(P, d) : given = IF Opens(p, d) THEN {Row(d, p.days[d])} ELSE {}
<1> DEFINE D == {e \in Date : Deciding(P, e) # {}}
           given == {x \in w : x.date = d}
<1>1. PICK first \in {f \in [D -> P] : \A e \in DOMAIN f : f[e] \in Deciding(P, e)} :
        w = {Row(e, first[e].days[e]) : e \in {c \in DOMAIN first : Opens(first[c], c)}}
  BY DEF Outcomes
<1>2. DOMAIN first = D /\ \A e \in D : first[e] \in Deciding(P, e)
  OBVIOUS
<1>3. \A e, h : Row(e, h).date = e
  BY DEF Row
<1> HIDE DEF D
<1>4. given = IF d \in D /\ Opens(first[d], d) THEN {Row(d, first[d].days[d])} ELSE {}
  BY <1>1, <1>2, <1>3
<1>5. d \in D <=> Deciding(P, d) # {}
  BY DEF D
<1> QED
  BY <1>2, <1>4, <1>5

\* The daily hours are those that the periods give, but for resources that went astray: whose
\* periods were last saved by the API, by a request whose failed assertion was swallowed, by one
\* whose update overlapped another that has committed, or while the resource was deleted.
THEOREM HoursAlwaysMatch ==
    ASSUME OpeningHoursAssumption
    PROVE  Spec => []HoursMatch
<1>1. HoursInv => HoursMatch
  <2> SUFFICES ASSUME HoursInv, NEW r \in Resources \ strayed, NEW d \in Date
               PROVE  LET given == {x \in hours[r] : x.date = d}
                          decide == Decide(r, d)
                      IN  IF decide = {} THEN given = {}
                          ELSE \E p \in decide :
                                  given = IF Opens(p, d) THEN {Row(d, p.days[d])} ELSE {}
    BY DEF HoursMatch
  <2>1. hours[r] \in Outcomes(PeriodsOf(r, periods)) /\ periods \in Table
    BY DEF HoursInv, Types
  <2>2. Deciding(PeriodsOf(r, periods), d) = Decide(r, d)
    BY <2>1, DecidingIs
  <2> QED
    BY <2>1, <2>2, OutcomeDay
<1> QED
  BY <1>1, HoursInvariant, PTL

-----------------------------------------------------------------------------
(* Types *)

\* What the invariant above does not say
HoursTypes ==
    /\ deleted \subseteq Resources /\ strayed \subseteq Resources
    /\ edits \in 0 .. MaxEdits
    /\ \A q \in Request : tx[q].stale \subseteq tx[q].read

LEMMA ShownIs ==
    ASSUME OpeningHoursAssumption, NEW x \in Shown
    PROVE  x \in DayRow /\ x.opens < x.closes
<1>1. PICK y \in Date \X PeriodRow : Opens(y[2], y[1]) /\ x = Row(y[1], y[2].days[y[1]])
  BY DEF Shown
<1> DEFINE d == y[1]
           h == y[2].days[d]
<1>2. d \in Date /\ y[2] \in PeriodRow /\ d \in DOMAIN y[2].days /\ h.opens # h.closes
  BY <1>1 DEF Opens
<1>3. h.opens \in Nat /\ h.closes \in Nat /\ h.opens <= h.closes
  BY <1>2 DEF OpeningHoursAssumption
<1>4. x = [date |-> d, opens |-> h.opens, closes |-> h.closes]
  BY <1>1 DEF Row
<1> HIDE DEF d, h
<1> QED
  BY <1>2, <1>3, <1>4 DEF DayRow

\* A resource that is read is one, and so is the owner of a period unless it is the unit
LEMMA TouchedAre ==
    ASSUME OpeningHoursAssumption, HoursInv, NEW q \in InTx
    PROVE  Touched(OwnerIn(q)) \subseteq Resources
<1> DEFINE u == tx[q]
<1>1. u \in TxShape /\ RowOk(u, periods) /\ periods \in Table
  BY DEF HoursInv, Types, InTx, TxInv
<1>2. \A p \in PeriodRow : p.owner \in Resources \cup {Unit}
  BY Names
<1>3. u.row \in PeriodRow \cup {None} /\ u.id \in PeriodId /\ u.row # periods[u.id]
  BY <1>1 DEF TxShape, RowOk
<1>4. OwnerOf(u.id, u.row) \in Resources \cup {Unit}
  BY <1>1, <1>2, <1>3 DEF OwnerOf, Table
<1> QED
  BY <1>4 DEF Touched, OwnerIn

LEMMA InitTypes == ASSUME OpeningHoursAssumption, Init PROVE HoursTypes
BY DEF Init, HoursTypes, Idle, OpeningHoursAssumption

\* A request alone moves, and knows of each stale resource that it has read it
LEMMA AloneTypes ==
    ASSUME HoursInv, HoursTypes, NEW q \in Request, NEW t, t.stale \subseteq t.read,
           tx' = [tx EXCEPT ![q] = t]
    PROVE  \A p \in Request : tx'[p].stale \subseteq tx'[p].read
BY DEF HoursInv, Types, HoursTypes

LEMMA AbortTypes ==
    ASSUME HoursInv, HoursTypes, NEW q \in Request, Abort(q)
    PROVE  \A p \in Request : tx'[p].stale \subseteq tx'[p].read
BY AloneTypes DEF Abort, Idle

\* What is outdated has been read
LEMMA OutdateTypes ==
    ASSUME NEW touched, NEW p \in Request, HoursInv, HoursTypes,
           tx'[p] = Outdate(tx[p], touched)
    PROVE  tx'[p].stale \subseteq tx'[p].read
<1>1. tx[p] \in TxShape /\ tx[p].stale \subseteq tx[p].read
  BY DEF HoursInv, Types, HoursTypes
<1>2. tx'[p] = [tx[p] EXCEPT !.stale = @ \cup (touched \cap tx[p].read)]
  BY DEF Outdate
<1>3. tx'[p].stale = tx[p].stale \cup (touched \cap tx[p].read) /\ tx'[p].read = tx[p].read
  BY <1>1, <1>2 DEF TxShape
<1> QED
  BY <1>1, <1>3

LEMMA LeaveTypes ==
    ASSUME HoursInv, HoursTypes, NEW q \in Request, tx' = Leave(q)
    PROVE  \A p \in Request : tx'[p].stale \subseteq tx'[p].read
<1> SUFFICES ASSUME NEW p \in Request PROVE tx'[p].stale \subseteq tx'[p].read
  OBVIOUS
<1>1. CASE p = q
  <2>1. tx'[p] = Idle
    BY <1>1 DEF Leave
  <2> QED
    BY <2>1 DEF Idle
<1>2. CASE p # q
  <2>1. tx'[p] = Outdate(tx[p], Touched(OwnerIn(q)))
    BY <1>2 DEF Leave
  <2> QED
    BY <2>1, OutdateTypes
<1> QED
  BY <1>1, <1>2

LEMMA AssertionTypes ==
    ASSUME NEW q \in Request, NEW gone, OpeningHoursAssumption, HoursInv, HoursTypes,
           tx[q].at # "idle", AssertionFails(q, gone), UNCHANGED <<deleted, edits>>
    PROVE  HoursTypes'
<1>1. CASE Abort(q)
  BY <1>1, AbortTypes DEF Abort, HoursTypes
<1>2. CASE Swallow(q, gone)
  <2>1. OwnerIn(q) \in Touched(OwnerIn(q)) /\ Touched(OwnerIn(q)) \subseteq Resources
    BY <1>2, TouchedAre DEF Swallow, Touched, InTx
  <2>2. strayed' \subseteq Resources
    BY <1>2, <2>1 DEF Swallow, HoursTypes
  <2>3. tx' = Leave(q)
    BY <1>2 DEF Swallow
  <2> QED
    BY <2>2, <2>3, LeaveTypes DEF HoursTypes
<1> QED
  BY <1>1, <1>2 DEF AssertionFails

LEMMA ApiTypes ==
    ASSUME OpeningHoursAssumption, HoursInv, HoursTypes, ApiSave
    PROVE  HoursTypes'
<1>1. PICK i \in PeriodId, row \in PeriodRow :
        /\ tx' = [q \in Request |-> Outdate(tx[q], Touched(row.owner))]
        /\ strayed' = strayed \cup Touched(row.owner)
  BY DEF ApiSave
<1>2. Touched(row.owner) \subseteq Resources
  BY Names DEF Touched
<1>3. \A p \in Request : tx'[p].stale \subseteq tx'[p].read
  <2> SUFFICES ASSUME NEW p \in Request PROVE tx'[p].stale \subseteq tx'[p].read
    OBVIOUS
  <2>1. tx'[p] = Outdate(tx[p], Touched(row.owner))
    BY <1>1
  <2> QED
    BY <2>1, OutdateTypes
<1>4. edits' \in 0 .. MaxEdits
  <2>1. edits < MaxEdits /\ edits' = edits + 1
    BY DEF ApiSave
  <2>2. edits \in 0 .. MaxEdits /\ MaxEdits \in Nat
    BY DEF HoursTypes, OpeningHoursAssumption
  <2> QED
    BY <2>1, <2>2
<1> QED
  BY <1>1, <1>2, <1>3, <1>4 DEF HoursTypes, ApiSave

LEMMA RequestTypes ==
    ASSUME OpeningHoursAssumption, HoursInv, HoursTypes, NEW q \in Request,
           Save(q) \/ ReadRows(q) \/ ReadPeriods(q) \/ Delete(q) \/ Insert(q)
    PROVE  HoursTypes'
<1> DEFINE Fine == \A p \in Request : tx'[p].stale \subseteq tx'[p].read
<1>1. tx[q] \in TxShape /\ tx[q].stale \subseteq tx[q].read
  BY DEF HoursInv, Types, HoursTypes
<1>2. CASE Save(q)
  <2>1. PICK i, row, places :
          tx' = [tx EXCEPT ![q] = [Idle EXCEPT !.at = "rows", !.id = i, !.row = row, !.todo = places]]
    BY <1>2 DEF Save
  <2> DEFINE t == [Idle EXCEPT !.at = "rows", !.id = i, !.row = row, !.todo = places]
  <2>2. t.stale = {} /\ t.read = {} /\ tx' = [tx EXCEPT ![q] = t]
    BY <2>1 DEF Idle
  <2> HIDE DEF t
  <2>3. Fine
    BY <2>2, AloneTypes
  <2>4. edits' \in 0 .. MaxEdits
    <3>1. edits < MaxEdits /\ edits' = edits + 1
      BY <1>2 DEF Save
    <3>2. edits \in 0 .. MaxEdits /\ MaxEdits \in Nat
      BY DEF HoursTypes, OpeningHoursAssumption
    <3> QED
      BY <3>1, <3>2
  <2> QED
    BY <1>2, <2>3, <2>4 DEF Save, HoursTypes
<1>3. CASE ReadRows(q)
  <2> DEFINE t == [tx[q] EXCEPT !.at = "periods", !.seen = hours[Now(q)],
                                !.read = @ \cup {Now(q)}]
  <2>1. CASE AssertionFails(q, {})
    BY <1>3, <2>1, AssertionTypes DEF ReadRows
  <2>2. CASE tx' = [tx EXCEPT ![q] = t] /\ UNCHANGED <<periods, hours, strayed>>
    <3>1. t.stale = tx[q].stale /\ t.read = tx[q].read \cup {Now(q)}
      BY <1>1 DEF TxShape
    <3> HIDE DEF t
    <3>2. Fine
      BY <1>1, <2>2, <3>1, AloneTypes
    <3> QED
      BY <1>3, <2>2, <3>2 DEF ReadRows, HoursTypes
  <2> QED
    BY <1>3, <2>1, <2>2 DEF ReadRows, HoursInv, Types
<1>4. CASE ReadPeriods(q)
  <2>1. PICK drop, add :
          tx' = [tx EXCEPT ![q].at = "delete", ![q].seen = {}, ![q].drop = drop, ![q].add = add]
    BY <1>4 DEF ReadPeriods
  <2> DEFINE t == [tx[q] EXCEPT !.at = "delete", !.seen = {}, !.drop = drop, !.add = add]
  <2>2. t.stale = tx[q].stale /\ t.read = tx[q].read
    BY <1>1 DEF TxShape
  <2>3. tx' = [tx EXCEPT ![q] = t]
    BY <2>1 DEF HoursInv, Types
  <2> HIDE DEF t
  <2>4. Fine
    BY <1>1, <2>2, <2>3, AloneTypes
  <2> QED
    BY <1>4, <2>4 DEF ReadPeriods, HoursTypes
<1>5. CASE Delete(q)
  <2> DEFINE t == [tx[q] EXCEPT !.at = "insert", !.drop = {},
                                !.old = @ \cup Of(Now(q), tx[q].drop)]
  <2>1. CASE AssertionFails(q, tx[q].drop)
    BY <1>5, <2>1, AssertionTypes DEF Delete
  <2>2. CASE tx' = [tx EXCEPT ![q] = t] /\ UNCHANGED <<periods, hours, strayed>>
    <3>1. t.stale = tx[q].stale /\ t.read = tx[q].read
      BY <1>1 DEF TxShape
    <3> HIDE DEF t
    <3>2. Fine
      BY <1>1, <2>2, <3>1, AloneTypes
    <3> QED
      BY <1>5, <2>2, <3>2 DEF Delete, HoursTypes
  <2> QED
    BY <1>5, <2>1, <2>2 DEF Delete, HoursInv, Types
<1>6. CASE Insert(q)
  <2> DEFINE t == [tx[q] EXCEPT !.at = "rows", !.todo = @ \ {FirstOf(@)}, !.add = {},
                                !.new = @ \cup Of(Now(q), tx[q].add)]
  <2>1. t.stale = tx[q].stale /\ t.read = tx[q].read
    BY <1>1 DEF TxShape
  <2>2. /\ Abort(q) \/ tx' = [tx EXCEPT ![q] = t]
        /\ UNCHANGED <<periods, hours, deleted, edits, strayed>>
    BY <1>6 DEF Insert, Abort, HoursInv, Types
  <2> HIDE DEF t
  <2>3. Fine
    BY <1>1, <2>1, <2>2, AloneTypes, AbortTypes
  <2> QED
    BY <2>2, <2>3 DEF HoursTypes
<1> QED
  BY <1>2, <1>3, <1>4, <1>5, <1>6

LEMMA CommitTypes ==
    ASSUME OpeningHoursAssumption, HoursInv, HoursTypes, NEW q \in Request, Commit(q)
    PROVE  HoursTypes'
<1>1. strayed' \subseteq Resources
  <2>1. Touched(OwnerIn(q)) \subseteq Resources
    BY TouchedAre DEF Commit, InTx
  <2> QED
    BY <2>1 DEF Commit, HoursTypes
<1>2. tx' = Leave(q)
  BY DEF Commit
<1> QED
  BY <1>1, <1>2, LeaveTypes DEF HoursTypes, Commit

LEMMA NextTypes ==
    ASSUME OpeningHoursAssumption, HoursInv, HoursTypes, [Next]_vars
    PROVE  HoursTypes'
<1>1. CASE UNCHANGED vars
  BY <1>1 DEF vars, HoursTypes
<1>2. CASE \E q \in Request :
              Save(q) \/ ReadRows(q) \/ ReadPeriods(q) \/ Delete(q) \/ Insert(q) \/ Commit(q)
  BY <1>2, RequestTypes, CommitTypes
<1>3. CASE \E r \in Resources :
              (SoftDelete(r) \/ Restore(r)) /\ UNCHANGED <<periods, hours, edits, tx, strayed>>
  BY <1>3 DEF HoursTypes, SoftDelete, Restore
<1> QED
  BY <1>1, <1>2, <1>3, ApiTypes DEF Next

LEMMA TypesOK == ASSUME OpeningHoursAssumption, HoursInv, HoursTypes PROVE TypeOK
<1>1. periods \in [PeriodId -> PeriodRow \cup {None}]
  BY DEF HoursInv, Types, Table
<1>2. \A r \in Resources : \A x \in hours[r] : x \in DayRow /\ x.opens < x.closes
  BY ShownIs DEF HoursInv, Types
<1>3. \A q \in Request :
        /\ tx[q].at \in {"idle", "rows", "periods", "delete", "insert"}
        /\ tx[q].read \subseteq Resources
  BY DEF HoursInv, Types, TxShape, Busy
<1> QED
  BY <1>1, <1>2, <1>3 DEF HoursTypes, TypeOK

\* Every row of the daily hours has a length, whatever updates overtake each other, and a
\* transaction knows a resource to be stale only after it has read it.
THEOREM HoursTyped ==
    ASSUME OpeningHoursAssumption
    PROVE  Spec => []TypeOK
<1>1. Init => HoursTypes
  BY InitTypes
<1>2. HoursInv /\ HoursTypes /\ [Next]_vars => HoursTypes'
  BY NextTypes
<1>3. HoursInv /\ HoursTypes => TypeOK
  BY TypesOK
<1> QED
  BY <1>1, <1>2, <1>3, HoursInvariant, PTL DEF Spec

=============================================================================
