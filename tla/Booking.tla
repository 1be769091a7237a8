------------------------------ MODULE Booking ------------------------------
(***************************************************************************)
(* Reservations of shared resources: the requests that create, change and  *)
(* cancel reservations (resources/api/reservation.py) against the table of *)
(* reservation rows they share.                                            *)
(*                                                                         *)
(* A worker runs one request at a time, in one READ COMMITTED database     *)
(* transaction (ATOMIC_REQUESTS).  A request reads rows when it starts,    *)
(* keeps its own copies, and writes whole rows back when it commits, so    *)
(* between two of its steps the rows it has read may have changed.  The    *)
(* one lock of this protocol is the row lock on the Resource which         *)
(* ReservationSerializer.validate takes before its collision checks and    *)
(* which the end of the transaction releases.  Bulk creation, cancellation *)
(* and the calendar synchronisations write without it.                     *)
(*                                                                         *)
(* Reservations here carry no payment order, and all are of type "normal". *)
(***************************************************************************)
EXTENDS Integers, FiniteSets

CONSTANTS
    Resource, User, Unit,
    Rid,            \* primary keys of reservation rows (bounds their number)
    Worker,         \* web workers and sync jobs, one request each at a time
    NoUser,         \* the null user of a synchronised reservation
    MaxTime,        \* bound of the clock
    Period,         \* <<begin, end>> that requests may ask for
    Ops,            \* kinds of request that arrive
    AskedStates,    \* states an update may ask for, besides none
    UnitOf,         \* the unit of each resource
    Exclusive,      \* units with disallow_overlapping_reservations
    PerUser,        \* of these, the ones that disallow it per user only
    NeedManual,     \* resources with need_manual_confirmation
    MaxReservations,\* max_reservations_per_user of each resource
    Cooldown,       \* cooldown of each resource
    Perm            \* the permissions of each user

Permission == {"approve", "modify", "see_all", "overlap", "ignore_max",
               "viewer", "for_others", "bypass", "staff"}

CONFIRMED == "confirmed"
REQUESTED == "requested"
DENIED == "denied"
CANCELLED == "cancelled"
WAITING_FOR_PAYMENT == "waiting_for_payment"
State == {CONFIRMED, REQUESTED, DENIED, CANCELLED, WAITING_FOR_PAYMENT}
Absent == "absent"      \* no row has been inserted under this key
Keep == "keep"          \* the request carries no "state" field

ASSUME BookingAssumption ==
    /\ Resource # {}
    /\ NoUser \notin User
    /\ IsFiniteSet(Rid)
    /\ MaxTime \in Nat
    /\ Period \subseteq {p \in Nat \X Nat : p[1] < p[2]}
    /\ Ops \subseteq {"post", "put", "cancel", "bulk", "sync"}
    /\ AskedStates \subseteq State
    /\ UnitOf \in [Resource -> Unit]
    /\ Exclusive \subseteq Unit /\ PerUser \subseteq Exclusive
    /\ NeedManual \subseteq Resource
    /\ MaxReservations \in [Resource -> Nat]
    /\ Cooldown \in [Resource -> Nat]
    /\ Perm \in [User -> SUBSET Permission]

VARIABLES
    now,     \* the clock
    res,     \* the committed reservation rows
    pc,      \* where each worker's request is
    req,     \* what the request asks, and the copies of rows it holds
    checked  \* history: the checks the period of each row was written under

vars == <<now, res, pc, req, checked>>

Row == [resource : Resource, user : User \cup {NoUser},
        begin : Nat, end : Nat, state : State \cup {Absent}]

Request == [by : User \cup {NoUser}, resource : Resource, periods : SUBSET Period,
            user : User \cup {NoUser}, target : SUBSET Rid,
            state : State \cup {Keep}, copy : [Rid -> Row], old : State]

NoRow == [resource |-> CHOOSE r \in Resource : TRUE, user |-> NoUser,
          begin |-> 0, end |-> 0, state |-> Absent]

NoRequest == [by |-> NoUser, resource |-> CHOOSE r \in Resource : TRUE,
              periods |-> {}, user |-> NoUser, target |-> {},
              state |-> Keep, copy |-> [i \in Rid |-> NoRow], old |-> CANCELLED]

-----------------------------------------------------------------------------
(* What the queries and permission checks of the code compute.             *)

Can(u, p) == u \in User /\ p \in Perm[u]

\* ReservationQuerySet.current and .active
Current(row) == row.state \notin {Absent, CANCELLED, DENIED}
Active(row) == Current(row) /\ row.end >= now

Meets(row, b, e) == row.end > b /\ row.begin < e

\* (mutant) forgets reservations of the same period
MutCollisionFree(r, b, e, own) ==
    \A i \in Rid \ own :
        res[i].resource = r /\ Active(res[i]) =>
            ~(\/ res[i].begin < b /\ res[i].end > b
              \/ res[i].begin > b /\ res[i].begin < e)

\* Resource.check_reservation_collision
CollisionFree(r, b, e, own) ==
    \A i \in Rid \ own :
        res[i].resource = r /\ Active(res[i]) => ~Meets(res[i], b, e)

\* (mutant) forgets reservations that end within the cooldown before
MutCooldownMeets(row, b, e, c) ==
    \/ row.begin > b - c /\ row.begin < e + c
    \/ row.begin < b - c /\ row.end > b
    \/ row.begin < e /\ row.end > e + c

\* Resource.check_cooldown_collision, its four alternatives as the query has them
CooldownMeets(row, b, e, c) ==
    \/ row.begin > b - c /\ row.begin < e + c
    \/ row.end > b - c /\ row.end < e + c
    \/ row.begin < b - c /\ row.end > b
    \/ row.begin < e /\ row.end > e + c

CooldownFree(r, b, e, own) ==
    \A i \in Rid \ own :
        res[i].resource = r /\ Active(res[i]) =>
            ~CooldownMeets(res[i], b, e, Cooldown[r])

CooldownApplies(r, u) == Cooldown[r] > 0 /\ ~Can(u, "viewer")

\* The unit-wide query of Reservation.clean: it drops cancelled rows only,
\* and compares periods by four alternatives of its own
UnitMeets(row, b, e) ==
    \/ row.begin > b /\ row.begin < e
    \/ row.begin < b /\ row.end > b
    \/ row.begin >= b /\ row.end <= e
    \/ row.begin <= b /\ row.end > e

UnitRuleApplies(r, u) == UnitOf[r] \in Exclusive /\ ~Can(u, "overlap")

UnitFree(r, b, e, u, own) ==
    UnitRuleApplies(r, u) =>
        \A i \in Rid \ own :
            (/\ res[i].state \notin {Absent, CANCELLED}
             /\ UnitOf[res[i].resource] = UnitOf[r]
             /\ UnitOf[r] \in PerUser => res[i].user = u)
            => ~UnitMeets(res[i], b, e)

\* Reservation.clean
Clean(r, p, u, own) ==
    /\ UnitFree(r, p[1], p[2], u, own)
    /\ CollisionFree(r, p[1], p[2], own)
    /\ CooldownApplies(r, u) => CooldownFree(r, p[1], p[2], own)

Check == {"collision", "cooldown", "unit"}

ChecksPassed(r, u) ==
    {c \in Check : /\ c = "cooldown" => CooldownApplies(r, u)
                   /\ c = "unit" => UnitRuleApplies(r, u)}

\* Resource.validate_max_reservations_per_user
ActiveOf(r, u) ==
    {i \in Rid : res[i].resource = r /\ res[i].user = u /\ Active(res[i])}

\* (mutant) off by one
MutWithinMax(r, u) ==
    Can(u, "ignore_max") \/ Cardinality(ActiveOf(r, u)) <= MaxReservations[r]

WithinMax(r, u) ==
    Can(u, "ignore_max") \/ Cardinality(ActiveOf(r, u)) < MaxReservations[r]

\* (mutant) the owner may always modify
MutCanModify(row, u) ==
    row.state # WAITING_FOR_PAYMENT /\ (row.user = u \/ Can(u, "modify"))

\* Reservation.can_modify
CanModify(row, u) ==
    /\ row.state # WAITING_FOR_PAYMENT
    /\ (row.resource \in NeedManual /\ row.state = CONFIRMED) => Can(u, "approve")
    /\ row.user = u \/ Can(u, "modify")

\* ReservationViewSet.get_queryset
Visible(row, u) ==
    \/ row.state \in {CONFIRMED, REQUESTED, WAITING_FOR_PAYMENT}
    \/ row.state # Absent /\ (row.user = u \/ Can(u, "see_all"))

\* get_object: the row is found and its permission check passes
MayModify(i, u) == Visible(res[i], u) /\ CanModify(res[i], u)

\* ReservationSerializer.validate_state, against the copy the request holds
StateChangeAllowed(row, s, u) ==
    \/ s = row.state
    \/ /\ Can(u, "approve")
       /\ {row.state, s} \subseteq {REQUESTED, CONFIRMED, DENIED, WAITING_FOR_PAYMENT}
    \/ s = WAITING_FOR_PAYMENT

\* The Resource row is locked from validation to the end of the transaction
Holds(w, r) == pc[w] \in {"creating", "validated", "reloaded"} /\ req[w].resource = r

\* (mutant) the Resource is read, but not FOR UPDATE
MutLockFree(r) == r \in Resource

LockFree(r) == \A w \in Worker : ~Holds(w, r)

FreeRids == {i \in Rid : res[i].state = Absent}

\* The bound on rows: a request that inserts n arrives only while there are keys for it
Inserting == {row \in Worker \X Period :
                /\ pc[row[1]] \in {"to_create", "creating", "to_bulk"}
                /\ row[2] \in req[row[1]].periods}
Room(n) == Cardinality(FreeRids) >= Cardinality(Inserting) + n

\* The end of a request, by commit or by an error that rolls it back
End(w) == /\ pc' = [pc EXCEPT ![w] = "idle"]
          /\ req' = [req EXCEPT ![w] = NoRequest]

Become(w, l, q) == /\ pc' = [pc EXCEPT ![w] = l]
                   /\ req' = [req EXCEPT ![w] = q]

\* (mutant) a request that fails its validation waits for a better moment
MutValidated(w, ok, l) == ok /\ Become(w, l, req[w])

\* The checks under the lock decide whether the request goes on, in step l
Validated(w, ok, l) == IF ok THEN Become(w, l, req[w]) ELSE End(w)

Start(w, op, l, q) == /\ pc[w] = "idle"
                      /\ op \in Ops
                      /\ Become(w, l, q)
                      /\ UNCHANGED <<now, res, checked>>

-----------------------------------------------------------------------------
(* POST /reservation/                                                      *)

\* The request arrives; permissions and "not in the past" are checked before
\* the lock is asked for.  Who may, makes the reservation for someone else.
PostBegin(w, u, r, p, owner) ==
    /\ Room(1)
    /\ p[2] >= now
    /\ owner = u \/ Can(u, "for_others")
    /\ Start(w, "post", "to_create",
             [NoRequest EXCEPT !.by = u, !.resource = r, !.periods = {p}, !.user = owner])

\* The lock is granted, the limit and the period are checked under it
PostValidate(w) ==
    LET q == req[w] IN
    /\ pc[w] = "to_create"
    /\ LockFree(q.resource)
    /\ Validated(w, /\ WithinMax(q.resource, q.by)
                    /\ \A p \in q.periods : Clean(q.resource, p, q.by, {}),
                 "creating")
    /\ UNCHANGED <<now, res, checked>>

NewState(r, u) == IF r \in NeedManual /\ ~Can(u, "bypass") THEN REQUESTED ELSE CONFIRMED

\* The row is inserted and set_state gives it its first state; commit
PostCommit(w) ==
    LET q == req[w] IN
    /\ pc[w] = "creating"
    /\ \E i \in FreeRids, p \in q.periods :
        /\ res' = [res EXCEPT ![i] =
             [resource |-> q.resource, user |-> q.user, begin |-> p[1], end |-> p[2],
              state |-> NewState(q.resource, q.by)]]
        /\ checked' = [checked EXCEPT ![i] = ChecksPassed(q.resource, q.by)]
    /\ End(w)
    /\ UNCHANGED now

-----------------------------------------------------------------------------
(* PUT /reservation/i/                                                     *)

\* get_object reads the row, before the lock; the request may move it to
\* another period, resource or owner and may ask for a state
PutBegin(w, u, i, r, p, owner, s) ==
    /\ MayModify(i, u)
    /\ s # Keep => StateChangeAllowed(res[i], s, u)
    /\ p[2] >= now
    /\ owner = res[i].user \/ (owner \in User /\ Can(u, "for_others"))
    /\ Start(w, "put", "to_update",
             [NoRequest EXCEPT !.by = u, !.resource = r, !.periods = {p}, !.user = owner,
                               !.target = {i}, !.state = s, !.copy[i] = res[i]])

PutValidate(w) ==
    LET q == req[w] IN
    /\ pc[w] = "to_update"
    /\ LockFree(q.resource)
    /\ Validated(w, \A p \in q.periods : Clean(q.resource, p, q.by, q.target), "validated")
    /\ UNCHANGED <<now, res, checked>>

\* (mutant) the second reading of the row is the first copy
MutReread(q, i) == q.copy[i]

Reread(q, i) == res[i]

\* perform_update reads the row again, with its permission checks, for the
\* state it keeps when the request asks for none
PutReload(w) ==
    LET q == req[w] IN
    /\ pc[w] = "validated"
    /\ \E i \in q.target :
        IF MayModify(i, q.by)
        THEN Become(w, "reloaded", [q EXCEPT !.old = Reread(q, i).state])
        ELSE End(w)
    /\ UNCHANGED <<now, res, checked>>

\* (mutant) there is no default for a state that is not asked for
MutFinalState(q) == q.state

FinalState(q) == IF q.state = Keep THEN q.old ELSE q.state

\* The serializer saves the first copy with the new fields, set_state the state
PutCommit(w) ==
    LET q == req[w] IN
    /\ pc[w] = "reloaded"
    /\ \E i \in q.target, p \in q.periods :
        /\ res' = [res EXCEPT ![i] =
             [q.copy[i] EXCEPT !.resource = q.resource, !.user = q.user,
                               !.begin = p[1], !.end = p[2], !.state = FinalState(q)]]
        /\ checked' = [checked EXCEPT ![i] = ChecksPassed(q.resource, q.by)]
    /\ End(w)
    /\ UNCHANGED now

-----------------------------------------------------------------------------
(* DELETE /reservation/i/ and DELETE /resource/r/cancel_reservations/:     *)
(* the rows are read, and written back as they were read, but cancelled.   *)

DeleteBegin(w, u, i) ==
    /\ MayModify(i, u)
    /\ Start(w, "cancel", "to_cancel",
             [NoRequest EXCEPT !.by = u, !.target = {i}, !.copy[i] = res[i]])

CancelRangeBegin(w, u, r, p) ==
    LET found == {i \in Rid : /\ res[i].resource = r
                              /\ res[i].begin >= p[1] /\ res[i].end <= p[2]
                              /\ res[i].state \notin {Absent, CANCELLED}}
    IN  /\ Can(u, "staff")
        /\ found # {}
        /\ Start(w, "cancel", "to_cancel",
                 [NoRequest EXCEPT !.by = u, !.target = found,
                     !.copy = [i \in Rid |-> IF i \in found THEN res[i] ELSE NoRow]])

CancelCommit(w) ==
    LET q == req[w] IN
    /\ pc[w] = "to_cancel"
    /\ res' = [i \in Rid |-> IF i \in q.target
                             THEN [q.copy[i] EXCEPT !.state = CANCELLED]
                             ELSE res[i]]
    /\ End(w)
    /\ UNCHANGED <<now, checked>>

-----------------------------------------------------------------------------
(* POST /reservation_bulk/ by a staff member: each period of the stack is  *)
(* cleaned against the table alone, as a reservation of no user yet, and   *)
(* nothing is locked.                                                      *)

BulkBegin(w, u, r, stack) ==
    /\ Room(Cardinality(stack))
    /\ Can(u, "staff")
    /\ \A p \in stack : Clean(r, p, NoUser, {}) /\ WithinMax(r, NoUser)
    /\ Start(w, "bulk", "to_bulk",
             [NoRequest EXCEPT !.by = u, !.resource = r, !.periods = stack, !.user = u])

BulkCommit(w) ==
    LET q == req[w] IN
    /\ pc[w] = "to_bulk"
    /\ \E key \in [q.periods -> FreeRids] :
        /\ \A p, o \in q.periods : p # o => key[p] # key[o]
        /\ res' = [i \in Rid |->
             IF \E p \in q.periods : key[p] = i
             THEN LET p == CHOOSE p \in q.periods : key[p] = i
                  IN  [resource |-> q.resource, user |-> q.user,
                       begin |-> p[1], end |-> p[2], state |-> CONFIRMED]
             ELSE res[i]]
        /\ checked' = [i \in Rid |-> IF \E p \in q.periods : key[p] = i
                                     THEN {} ELSE checked[i]]
    /\ End(w)
    /\ UNCHANGED now

-----------------------------------------------------------------------------
(* The calendar synchronisation (RespaReservations): it copies what the    *)
(* other calendar says, without a check or a lock.                         *)

SyncCreate(i, r, p) ==
    /\ "sync" \in Ops
    /\ i \in FreeRids /\ Room(1)
    /\ res' = [res EXCEPT ![i] = [resource |-> r, user |-> NoUser, begin |-> p[1],
                                  end |-> p[2], state |-> CONFIRMED]]
    /\ checked' = [checked EXCEPT ![i] = {}]
    /\ UNCHANGED <<now, pc, req>>

SyncBegin(w, i, p) ==
    /\ res[i].state # Absent
    /\ Start(w, "sync", "to_sync",
             [NoRequest EXCEPT !.target = {i}, !.periods = {p}, !.copy[i] = res[i]])

\* set_item writes the copy back with the new period
SyncSet(w) ==
    LET q == req[w] IN
    /\ pc[w] = "to_sync"
    /\ \E i \in q.target, p \in q.periods :
        /\ res' = [res EXCEPT ![i] = [q.copy[i] EXCEPT !.begin = p[1], !.end = p[2]]]
        /\ checked' = [checked EXCEPT ![i] = {}]
    /\ End(w)
    /\ UNCHANGED now

\* remove_item writes the copy back, cancelled
SyncRemove(w) ==
    LET q == req[w] IN
    /\ pc[w] = "to_sync"
    /\ \E i \in q.target : res' = [res EXCEPT ![i] = [q.copy[i] EXCEPT !.state = CANCELLED]]
    /\ End(w)
    /\ UNCHANGED <<now, checked>>

-----------------------------------------------------------------------------
Tick == /\ now < MaxTime
        /\ now' = now + 1
        /\ UNCHANGED <<res, pc, req, checked>>

Init == /\ now = 0
        /\ res = [i \in Rid |-> NoRow]
        /\ pc = [w \in Worker |-> "idle"]
        /\ req = [w \in Worker |-> NoRequest]
        /\ checked = [i \in Rid |-> {}]

\* A request arrives
Arrive(w) ==
    \/ \E u \in User, r \in Resource, p \in Period, o \in User : PostBegin(w, u, r, p, o)
    \/ \E u \in User, i \in Rid, r \in Resource, p \in Period,
          o \in User \cup {NoUser}, s \in AskedStates \cup {Keep} :
            PutBegin(w, u, i, r, p, o, s)
    \/ \E u \in User, i \in Rid : DeleteBegin(w, u, i)
    \/ \E u \in User, r \in Resource, p \in Period : CancelRangeBegin(w, u, r, p)
    \/ \E u \in User, r \in Resource, ps \in SUBSET Period :
            ps # {} /\ BulkBegin(w, u, r, ps)
    \/ \E i \in Rid, p \in Period : SyncBegin(w, i, p)

\* A request takes its next step
Proceed(w) ==
    \/ PostValidate(w) \/ PostCommit(w)
    \/ PutValidate(w) \/ PutReload(w) \/ PutCommit(w)
    \/ CancelCommit(w)
    \/ BulkCommit(w)
    \/ SyncSet(w) \/ SyncRemove(w)

Next ==
    \/ Tick
    \/ \E i \in Rid, r \in Resource, p \in Period : SyncCreate(i, r, p)
    \/ \E w \in Worker : Arrive(w) \/ Proceed(w)

Spec == Init /\ [][Next]_vars

\* A worker goes on with its request; the database grants the row lock of the
\* resource to every waiter in the end (its lock queue is first come, first served)
FairSpec == Spec /\ \A w \in Worker : SF_vars(Proceed(w))

-----------------------------------------------------------------------------
(* Properties                                                              *)

PCs == {"idle", "to_create", "creating", "to_update", "validated", "reloaded",
        "to_cancel", "to_bulk", "to_sync"}

\* Every variable has its type
TypeOK == /\ now \in 0..MaxTime
          /\ res \in [Rid -> Row]
          /\ pc \in [Worker -> PCs]
          /\ req \in [Worker -> Request]
          /\ checked \in [Rid -> SUBSET Check]

Overlap(x, y) == x.begin < y.end /\ y.begin < x.end

\* Two different reservations that still hold one resource
Rivals(i, j) == /\ i # j /\ res[i].resource = res[j].resource
                /\ Active(res[i]) /\ Active(res[j])

\* No resource is booked twice: of two reservations in force whose periods were
\* written by POST or PUT requests, one ends before the other begins.  (Bulk
\* requests and synchronisation write periods that nothing has checked; and a
\* reservation that has ended may be overlapped by one made later.)
NoDoubleBooking ==
    \A i, j \in Rid :
        (Rivals(i, j) /\ "collision" \in checked[i] \cap checked[j])
            => ~Overlap(res[i], res[j])

\* Between two such reservations, both made by users whom the cooldown binds,
\* there is at least the cooldown of the resource
CooldownKept ==
    \A i, j \in Rid :
        (Rivals(i, j) /\ "cooldown" \in checked[i] \cap checked[j])
            => \/ res[i].end + Cooldown[res[i].resource] <= res[j].begin
               \/ res[j].end + Cooldown[res[i].resource] <= res[i].begin

\* In a unit that disallows overlapping reservations no two of its resources are
\* booked for the same time by users whom that rule binds, as the critical section of
\* ReservationSerializer.validate says it ensures
NoOverlapInUnit ==
    \A i, j \in Rid :
        (/\ i # j /\ Active(res[i]) /\ Active(res[j])
         /\ UnitOf[res[i].resource] = UnitOf[res[j].resource]
         /\ UnitOf[res[i].resource] \in Exclusive \ PerUser
         /\ "unit" \in checked[i] \cap checked[j])
            => ~Overlap(res[i], res[j])

\* The request of worker w commits its update of row i in this step
Updates(w, i) == pc[w] = "reloaded" /\ pc'[w] = "idle" /\ i \in req[w].target

\* When a POST commits, its user still has fewer than max_reservations_per_user
\* checked reservations in force on the resource: no concurrent request has used
\* the place that its validation found
CreateWithinLimit ==
    [][\A w \in Worker :
         (pc[w] = "creating" /\ pc'[w] = "idle" /\ ~Can(req[w].by, "ignore_max"))
           => Cardinality({i \in ActiveOf(req[w].resource, req[w].by) : checked[i] # {}})
                < MaxReservations[req[w].resource]]_vars

\* Unless synchronisation writes rows behind the lock, an update that asks for no
\* state and stays in its resource does not undo what an approver decided while it
\* was under way.  (A cancellation takes no lock and may be undone.)
DecisionKept ==
    [][\A w \in Worker, i \in Rid :
         (/\ "sync" \notin Ops
          /\ Updates(w, i) /\ req[w].state = Keep
          /\ req[w].resource = res[i].resource
          /\ res[i].state # CANCELLED)
           => res'[i].state = res[i].state]_vars

\* Under the same conditions nobody without the approve permission changes a
\* reservation that, while the request was under way, has been confirmed in a
\* resource that needs manual confirmation
ConfirmedStaysPut ==
    [][\A w \in Worker, i \in Rid :
         (/\ "sync" \notin Ops
          /\ Updates(w, i)
          /\ req[w].resource = res[i].resource
          /\ res[i].resource \in NeedManual
          /\ ~Can(req[w].by, "approve"))
           => res[i].state # CONFIRMED]_vars

\* A request that has arrived ends, whoever else waits for the resource
RequestEnds == \A w \in Worker : pc[w] # "idle" ~> pc[w] = "idle"

-----------------------------------------------------------------------------
(* Why NoDoubleBooking holds: the invariant that is inductive.             *)

Critical(w) == pc[w] \in {"creating", "validated", "reloaded"}

\* Row i stands in the way of checked periods of resource r
InTheWay(i, r) == res[i].resource = r /\ Active(res[i]) /\ "collision" \in checked[i]

\* At most one request is past its validation in each resource
OneCritical ==
    \A v, w \in Worker :
        (Critical(v) /\ Critical(w) /\ req[v].resource = req[w].resource) => v = w

\* A creation targets no row, an update targets one
Targets ==
    \A w \in Worker :
        /\ pc[w] \in {"to_create", "creating"} => req[w].target = {}
        /\ pc[w] \in {"to_update", "validated", "reloaded"} =>
              \E i \in Rid : req[w].target = {i}

\* What a request found when it validated its period is still so
StillClear ==
    \A w \in Worker : Critical(w) =>
        \A p \in req[w].periods : \A i \in Rid \ req[w].target :
            InTheWay(i, req[w].resource) => ~Meets(res[i], p[1], p[2])

\* The inductive invariant: from the validation of a request to its commit, no
\* other request can put a reservation in its way
BookingInv == TypeOK /\ OneCritical /\ Targets /\ StillClear /\ NoDoubleBooking

=============================================================================
