---------------------------- MODULE OpeningHours ----------------------------
(***************************************************************************)
(* The hours a resource is open on each day (ResourceDailyOpeningHours),   *)
(* derived from the periods that administrators give to the resource and   *)
(* to its unit.  A request writes a period and then updates the hours of   *)
(* every resource it concerns, in one transaction at READ COMMITTED: each  *)
(* statement sees what others have committed before it, and waits for the  *)
(* rows that they have written and not committed.                          *)
(*                                                                         *)
(* Resources of one unit; the days are dates within one week.              *)
(***************************************************************************)
EXTENDS Integers, FiniteSets, Sequences, SequencesExt

CONSTANTS
    Resource,   \* a sequence: the resources in the order of their names
    PeriodId,   \* rows of Period
    PeriodRow,  \* what they may hold: owner, start, end, and the hours of the days
    Request,    \* requests of administrators
    MaxEdits,   \* bound: requests in all
    Unit, None

Resources == ToSet(Resource)
Date == UNION {p.start .. p.end : p \in PeriodRow}

\* What the constants have to be
OpeningHoursAssumption ==
    /\ Resource \in Seq(Resources) /\ IsInjective(Resource)
    /\ Unit \notin Resources /\ None \notin PeriodRow /\ MaxEdits \in Nat
    /\ \A p \in PeriodRow :
          /\ p.owner \in Resources \cup {Unit} /\ p.start \in Nat /\ p.end \in Nat
          /\ DOMAIN p.days \subseteq p.start .. p.end \* days without a row are closed
          \* Day.save makes a range of the two, which the database refuses the other way round
          /\ \A d \in DOMAIN p.days : /\ p.days[d].opens \in Nat /\ p.days[d].closes \in Nat
                                      /\ p.days[d].opens <= p.days[d].closes

VARIABLES
    periods,  \* committed Period and Day rows
    hours,    \* committed ResourceDailyOpeningHours rows of each resource
    deleted,  \* resources that are soft deleted
    edits,    \* requests so far
    tx,       \* the transaction of each request
    strayed   \* history: resources whose periods were last changed by a request that did not
              \* update their hours, or updated them beside another request

vars == <<periods, hours, deleted, edits, tx, strayed>>

\* What a request has in hand, has written (old rows deleted, new ones added) and has read
Idle == [at |-> "idle", id |-> None, row |-> None, todo |-> {}, seen |-> {}, drop |-> {},
         add |-> {}, old |-> {}, new |-> {}, read |-> {}, stale |-> {}]

Init ==
    /\ periods = [i \in PeriodId |-> None]
    /\ hours = [r \in Resources |-> {}]
    /\ deleted = {}
    /\ edits = 0
    /\ tx = [q \in Request |-> Idle]
    /\ strayed = {}

-----------------------------------------------------------------------------
(* get_opening_hours *)

\* Periods of the resource come before those of its unit, then the shortest
Before(p, q) ==
    \/ p.owner # Unit /\ q.owner = Unit
    \/ (p.owner = Unit) = (q.owner = Unit) /\ p.end - p.start < q.end - q.start

Covers(p, d) == p.start <= d /\ d <= p.end

\* The first period of the day decides; the order of equal ones is the database's
Deciding(P, d) == {p \in P : Covers(p, d) /\ \A q \in P : Covers(q, d) => ~Before(q, p)}

\* (mutant) a day may be of no length
MutOpens(p, d) == d \in DOMAIN p.days

Opens(p, d) == d \in DOMAIN p.days /\ p.days[d].opens # p.days[d].closes

Row(d, h) == [date |-> d, opens |-> h.opens, closes |-> h.closes]

Outcomes(P) ==
    {{Row(d, first[d].days[d]) : d \in {e \in DOMAIN first : Opens(first[e], e)}} :
        first \in {f \in [{d \in Date : Deciding(P, d) # {}} -> P] :
                      \A d \in DOMAIN f : f[d] \in Deciding(P, d)}}

PeriodsOf(r, table) ==
    {table[i] : i \in {j \in PeriodId : table[j] # None /\ table[j].owner \in {r, Unit}}}

-----------------------------------------------------------------------------
(* Requests *)

InTx == {q \in Request : tx[q].at # "idle"}

\* The places of the resources to update: those of the unit, or the one
Listed(owner) ==
    {i \in DOMAIN Resource :
        IF owner = Unit THEN Resource[i] \notin deleted ELSE Resource[i] = owner}

OwnerOf(i, row) == IF row # None THEN row.owner ELSE periods[i].owner

\* A period is added, changed or deleted, whose row no other request has written (save_related)
Save(q) ==
    /\ tx[q].at = "idle" /\ edits < MaxEdits
    /\ edits' = edits + 1
    /\ \E i \in PeriodId, row \in PeriodRow \cup {None} :
          /\ row # periods[i] /\ \A p \in InTx : tx[p].id # i
          /\ periods[i] # None /\ row # None => row.owner = periods[i].owner
          /\ LET owner == OwnerOf(i, row) IN
             /\ owner \notin deleted
             /\ tx' = [tx EXCEPT ![q] = [Idle EXCEPT !.at = "rows", !.id = i, !.row = row,
                                                     !.todo = Listed(owner)]]
    /\ UNCHANGED <<periods, hours, deleted, strayed>>

\* The resources whose hours depend on a period
Touched(owner) == IF owner = Unit THEN Resources ELSE {owner}
OwnerIn(q) == OwnerOf(tx[q].id, tx[q].row)

\* What other requests have read of these resources is no longer so
Outdate(t, touched) == [t EXCEPT !.stale = @ \cup (touched \cap t.read)]

\* The API adds periods to resources and units and changes those of resources, and updates no
\* hours (UnitSerializer, PeriodSerializer)
ApiSave ==
    /\ edits < MaxEdits
    /\ edits' = edits + 1
    /\ \E i \in PeriodId, row \in PeriodRow :
          /\ row # periods[i] /\ \A p \in InTx : tx[p].id # i
          /\ periods[i] # None => row.owner # Unit /\ row.owner = periods[i].owner
          /\ row.owner \notin deleted
          /\ periods' = [periods EXCEPT ![i] = row]
          /\ tx' = [q \in Request |-> Outdate(tx[q], Touched(row.owner))]
          /\ strayed' = strayed \cup Touched(row.owner)
    /\ UNCHANGED <<hours, deleted>>

\* They are updated in the order of their names
FirstOf(places) == CHOOSE i \in places : \A j \in places : i <= j
Now(q) == Resource[FirstOf(tx[q].todo)]

\* The other requests when q commits
Leave(q) == [p \in Request |-> IF p = q THEN Idle ELSE Outdate(tx[p], Touched(OwnerIn(q)))]

\* An error of the database rolls the request back
Abort(q) == tx' = [tx EXCEPT ![q] = Idle] /\ UNCHANGED <<periods, hours, strayed>>

\* The page of a resource answers a failed assertion as if it had found an error in the form: the
\* request commits its period, and the rows it has deleted (SaveResourceView.post)
Swallow(q, gone) ==
    /\ OwnerIn(q) # Unit
    /\ periods' = [periods EXCEPT ![tx[q].id] = tx[q].row]
    /\ hours' = [hours EXCEPT ![OwnerIn(q)] = @ \ gone]
    /\ tx' = Leave(q)
    /\ strayed' = strayed \cup {OwnerIn(q)}

\* The other pages roll it back
AssertionFails(q, gone) == Abort(q) \/ Swallow(q, gone)

Twice(rows) == \E x, y \in rows : x # y /\ x.date = y.date /\ x.opens = y.opens

\* update_opening_hours reads the rows there are; two that open at one time are an error
ReadRows(q) ==
    /\ tx[q].at = "rows" /\ tx[q].todo # {}
    /\ IF Twice(hours[Now(q)]) THEN AssertionFails(q, {})
       ELSE /\ tx' = [tx EXCEPT ![q].at = "periods", ![q].seen = hours[Now(q)],
                               ![q].read = @ \cup {Now(q)}]
            /\ UNCHANGED <<periods, hours, strayed>>
    /\ UNCHANGED <<deleted, edits>>

\* (mutant) rows are added only
MutObsolete(seen, wanted) == {}

\* Rows that are not wanted any more
Obsolete(seen, wanted) == seen \ wanted

\* It reads the periods, its own among them
ReadPeriods(q) ==
    /\ tx[q].at = "periods"
    /\ \E wanted \in Outcomes(PeriodsOf(Now(q), [periods EXCEPT ![tx[q].id] = tx[q].row])) :
          tx' = [tx EXCEPT ![q].at = "delete", ![q].seen = {},
                           ![q].drop = Obsolete(tx[q].seen, wanted),
                           ![q].add = wanted \ tx[q].seen]
    /\ UNCHANGED <<periods, hours, deleted, edits, strayed>>

Of(r, rows) == {<<r, x>> : x \in rows}
Others(q) == InTx \ {q}

\* It deletes them once no other request has; it is an error if some are gone then
Delete(q) ==
    /\ tx[q].at = "delete"
    /\ \A p \in Others(q) : tx[p].old \cap Of(Now(q), tx[q].drop) = {}
    /\ IF tx[q].drop \subseteq hours[Now(q)]
       THEN /\ tx' = [tx EXCEPT ![q].at = "insert", ![q].drop = {},
                                ![q].old = @ \cup Of(Now(q), tx[q].drop)]
            /\ UNCHANGED <<periods, hours, strayed>>
       ELSE AssertionFails(q, tx[q].drop)
    /\ UNCHANGED <<deleted, edits>>

\* It adds the new ones; an equal row is an error, if its request commits
Insert(q) ==
    /\ tx[q].at = "insert"
    /\ \A p \in Others(q) : (tx[p].old \cup tx[p].new) \cap Of(Now(q), tx[q].add) = {}
    /\ IF tx[q].add \cap hours[Now(q)] = {}
       THEN /\ tx' = [tx EXCEPT ![q].at = "rows", ![q].todo = @ \ {FirstOf(@)}, ![q].add = {},
                                ![q].new = @ \cup Of(Now(q), tx[q].add)]
            /\ UNCHANGED <<periods, hours, strayed>>
       ELSE Abort(q)
    /\ UNCHANGED <<deleted, edits>>

Commit(q) ==
    /\ tx[q].at = "rows" /\ tx[q].todo = {}
    /\ periods' = [periods EXCEPT ![tx[q].id] = tx[q].row]
    /\ hours' = [r \in Resources |-> {x \in hours[r] : <<r, x>> \notin tx[q].old}
                                   \cup {y[2] : y \in {z \in tx[q].new : z[1] = r}}]
    /\ tx' = Leave(q)
    /\ strayed' = (strayed \cup Touched(OwnerIn(q))) \ (tx[q].read \ tx[q].stale)
    /\ UNCHANGED <<deleted, edits>>

\* Resource.delete and restore
SoftDelete(r) == r \notin deleted /\ deleted' = deleted \cup {r}
Restore(r) == r \in deleted /\ deleted' = deleted \ {r}

Next ==
    \/ \E q \in Request :
          Save(q) \/ ReadRows(q) \/ ReadPeriods(q) \/ Delete(q) \/ Insert(q) \/ Commit(q)
    \/ ApiSave
    \/ \E r \in Resources :
          (SoftDelete(r) \/ Restore(r)) /\ UNCHANGED <<periods, hours, edits, tx, strayed>>

Spec == Init /\ [][Next]_vars

-----------------------------------------------------------------------------
DayRow == [date : Date, opens : Nat, closes : Nat]

\* Every variable holds what the tables and transactions may hold; a row has a length.
TypeOK ==
    /\ periods \in [PeriodId -> PeriodRow \cup {None}]
    /\ \A r \in Resources : \A x \in hours[r] : x \in DayRow /\ x.opens < x.closes
    /\ deleted \subseteq Resources /\ edits \in 0 .. MaxEdits
    /\ \A q \in Request :
          /\ tx[q].at \in {"idle", "rows", "periods", "delete", "insert"}
          /\ tx[q].stale \subseteq tx[q].read /\ tx[q].read \subseteq Resources
    /\ strayed \subseteq Resources

\* The reference: the shortest period of the resource on that day, else of its unit
Shortest(P) == {p \in P : \A q \in P : p.end - p.start <= q.end - q.start}
Decide(r, d) ==
    LET all == {p \in PeriodsOf(r, periods) : Covers(p, d)}
        own == {p \in all : p.owner = r}
    IN  Shortest(IF own # {} THEN own ELSE all)

\* The hours on which reservations are checked are those that the periods give, on each day, once
\* a request that saves a period has updated them alone, whatever they were before: they are
\* updated by differences, from reads that others overtake.  Claimed for the resources that have
\* not gone astray, as they do when a period is saved by the API, when a failed assertion is
\* swallowed, when updates overlap, and while they are deleted; the next update that does none
\* of this brings them back (Resource.update_opening_hours, resources/models/resource.py:694;
\* "Calculated automatically for each day the resource is open", :1359).
HoursMatch ==
    \A r \in Resources \ strayed, d \in Date :
        LET given == {x \in hours[r] : x.date = d}
            decide == Decide(r, d)
        IN  IF decide = {} THEN given = {}
            ELSE \E p \in decide : given = IF Opens(p, d) THEN {Row(d, p.days[d])} ELSE {}
=============================================================================
