--------------------------- MODULE BookingProofs ---------------------------
(***************************************************************************)
(* For any number of resources, users, rows and workers: no resource is    *)
(* booked twice, by the inductive invariant BookingInv of Booking; and on  *)
(* top of it the cooldown, the rule about units for one worker, the        *)
(* decisions of approvers and the limit.                                   *)
(***************************************************************************)
EXTENDS Booking, FiniteSetTheorems, TLAPS

USE BookingAssumption

-----------------------------------------------------------------------------
(* Types                                                                   *)

\* The row that stands for "no row" and the empty request have their types
LEMMA NoRowType == NoRow \in Row
BY DEF NoRow, Row, Absent

LEMMA NoRequestType == NoRequest \in Request
BY NoRowType DEF NoRequest, Request, State, Keep, CANCELLED

\* A worker that goes on to a step l with a request q, or ends, keeps the types
LEMMA BecomeType ==
    ASSUME TypeOK, NEW w \in Worker, NEW l \in PCs, NEW q \in Request, Become(w, l, q)
    PROVE  pc' \in [Worker -> PCs] /\ req' \in [Worker -> Request]
BY DEF TypeOK, Become

LEMMA EndType ==
    ASSUME TypeOK, NEW w \in Worker, End(w)
    PROVE  pc' \in [Worker -> PCs] /\ req' \in [Worker -> Request]
BY NoRequestType DEF TypeOK, End, PCs

LEMMA ValidatedType ==
    ASSUME TypeOK, NEW w \in Worker, NEW ok, NEW l \in PCs, Validated(w, ok, l)
    PROVE  pc' \in [Worker -> PCs] /\ req' \in [Worker -> Request]
<1>1. req[w] \in Request
  BY DEF TypeOK
<1>2. CASE Become(w, l, req[w])
  BY <1>1, <1>2, BecomeType
<1>3. CASE End(w)
  BY <1>3, EndType
<1> QED
  BY <1>2, <1>3 DEF Validated

LEMMA StartType ==
    ASSUME TypeOK, NEW w \in Worker, NEW op, NEW l \in PCs, NEW q \in Request,
           Start(w, op, l, q)
    PROVE  TypeOK'
<1>1. pc' \in [Worker -> PCs] /\ req' \in [Worker -> Request]
  BY BecomeType DEF Start
<1> QED
  BY <1>1 DEF Start, TypeOK, Row, Active, Current

\* A period is a pair of times
LEMMA PeriodType == \A p \in Period : p[1] \in Nat /\ p[2] \in Nat
OBVIOUS

\* Every state the system starts in has its types
LEMMA TypeInit == Init => TypeOK
BY NoRowType, NoRequestType DEF Init, TypeOK, PCs, Check

\* Every arrival of a request keeps the types
LEMMA TypeArrive ==
    ASSUME TypeOK, NEW w \in Worker, Arrive(w)
    PROVE  TypeOK'
<1> USE NoRowType, NoRequestType
<1>1. ASSUME NEW u \in User, NEW r \in Resource, NEW p \in Period, NEW o \in User,
             PostBegin(w, u, r, p, o)
      PROVE  TypeOK'
  <2> DEFINE q == [NoRequest EXCEPT !.by = u, !.resource = r, !.periods = {p}, !.user = o]
  <2>1. q \in Request
    BY DEF Request
  <2> QED
    BY <1>1, <2>1, StartType DEF PostBegin, PCs
<1>2. ASSUME NEW u \in User, NEW i \in Rid, NEW r \in Resource, NEW p \in Period,
             NEW o \in User \cup {NoUser}, NEW s \in AskedStates \cup {Keep},
             PutBegin(w, u, i, r, p, o, s)
      PROVE  TypeOK'
  <2> DEFINE q == [NoRequest EXCEPT !.by = u, !.resource = r, !.periods = {p}, !.user = o,
                                    !.target = {i}, !.state = s, !.copy[i] = res[i]]
  <2>1. q \in Request
    BY DEF Request, TypeOK
  <2> QED
    BY <1>2, <2>1, StartType DEF PutBegin, PCs
<1>3. ASSUME NEW u \in User, NEW i \in Rid, DeleteBegin(w, u, i)
      PROVE  TypeOK'
  <2> DEFINE q == [NoRequest EXCEPT !.by = u, !.target = {i}, !.copy[i] = res[i]]
  <2>1. q \in Request
    BY DEF Request, TypeOK
  <2> QED
    BY <1>3, <2>1, StartType DEF DeleteBegin, PCs
<1>4. ASSUME NEW u \in User, NEW r \in Resource, NEW p \in Period,
             CancelRangeBegin(w, u, r, p)
      PROVE  TypeOK'
  <2> DEFINE found == {i \in Rid : /\ res[i].resource = r
                                   /\ res[i].begin >= p[1] /\ res[i].end <= p[2]
                                   /\ res[i].state \notin {Absent, CANCELLED}}
             q == [NoRequest EXCEPT !.by = u, !.target = found,
                     !.copy = [i \in Rid |-> IF i \in found THEN res[i] ELSE NoRow]]
  <2>1. [i \in Rid |-> IF i \in found THEN res[i] ELSE NoRow] \in [Rid -> Row]
    BY DEF TypeOK
  <2>2. found \in SUBSET Rid
    OBVIOUS
  <2> HIDE DEF found
  <2>3. q \in Request
    BY <2>1, <2>2 DEF Request
  <2> QED
    BY <1>4, <2>3, StartType DEF CancelRangeBegin, PCs, found
<1>5. ASSUME NEW u \in User, NEW r \in Resource, NEW ps \in SUBSET Period,
             BulkBegin(w, u, r, ps)
      PROVE  TypeOK'
  <2> DEFINE q == [NoRequest EXCEPT !.by = u, !.resource = r, !.periods = ps, !.user = u]
  <2>1. q \in Request
    BY DEF Request
  <2> QED
    BY <1>5, <2>1, StartType DEF BulkBegin, PCs
<1>6. ASSUME NEW i \in Rid, NEW p \in Period, SyncBegin(w, i, p)
      PROVE  TypeOK'
  <2> DEFINE q == [NoRequest EXCEPT !.target = {i}, !.periods = {p}, !.copy[i] = res[i]]
  <2>1. q \in Request
    BY DEF Request, TypeOK
  <2> QED
    BY <1>6, <2>1, StartType DEF SyncBegin, PCs
<1> QED
  BY <1>1, <1>2, <1>3, <1>4, <1>5, <1>6 DEF Arrive

\* Every step of a request keeps the types
LEMMA TypeProceed ==
    ASSUME TypeOK, NEW w \in Worker, Proceed(w)
    PROVE  TypeOK'
<1> DEFINE q == req[w]
<1>q. q \in Request
  BY DEF TypeOK
<1>1. CASE PostValidate(w)
  BY <1>1, ValidatedType DEF PostValidate, TypeOK, PCs
<1>2. CASE PostCommit(w)
  <2>1. PICK i \in FreeRids, p \in q.periods :
           /\ res' = [res EXCEPT ![i] =
                [resource |-> q.resource, user |-> q.user, begin |-> p[1], end |-> p[2],
                 state |-> NewState(q.resource, q.by)]]
           /\ checked' = [checked EXCEPT ![i] = ChecksPassed(q.resource, q.by)]
    BY <1>2 DEF PostCommit
  <2>2. ChecksPassed(q.resource, q.by) \in SUBSET Check
    BY DEF ChecksPassed
  <2>3. [resource |-> q.resource, user |-> q.user, begin |-> p[1], end |-> p[2],
         state |-> NewState(q.resource, q.by)] \in Row
    <3>1. p \in Period
      BY <1>q DEF Request
    <3> QED
      BY <1>q, <3>1, PeriodType DEF Row, Request, NewState, State
  <2>4. res' \in [Rid -> Row] /\ checked' \in [Rid -> SUBSET Check]
    BY <2>1, <2>2, <2>3 DEF TypeOK
  <2> QED
    BY <1>2, <2>4, EndType DEF PostCommit, TypeOK
<1>3. CASE PutValidate(w)
  BY <1>3, ValidatedType DEF PutValidate, TypeOK, PCs
<1>4. CASE PutReload(w)
  <2>1. PICK i \in q.target :
          IF MayModify(i, q.by)
          THEN Become(w, "reloaded", [q EXCEPT !.old = Reread(q, i).state])
          ELSE End(w)
    BY <1>4 DEF PutReload
  <2>2. CASE MayModify(i, q.by)
    <3>1. res[i].state \in State
      <4>1. i \in Rid
        BY <1>q DEF Request
      <4>2. res[i].state \in State \cup {Absent} /\ res[i].state # Absent
        BY <2>2, <4>1 DEF MayModify, Visible, TypeOK, Row, CONFIRMED, REQUESTED,
                          WAITING_FOR_PAYMENT, Absent
      <4> QED
        BY <4>2
    <3>2. [q EXCEPT !.old = Reread(q, i).state] \in Request
      BY <1>q, <3>1 DEF Request, Reread
    <3>3. pc' \in [Worker -> PCs] /\ req' \in [Worker -> Request]
      BY <2>1, <2>2, <3>2, BecomeType DEF PCs
    <3> QED
      BY <1>4, <3>3 DEF PutReload, TypeOK
  <2>3. CASE ~MayModify(i, q.by)
    BY <1>4, <2>1, <2>3, EndType DEF PutReload, TypeOK
  <2> QED
    BY <2>2, <2>3
<1>5. CASE PutCommit(w)
  <2>1. PICK i \in q.target, p \in q.periods :
           /\ res' = [res EXCEPT ![i] =
                [q.copy[i] EXCEPT !.resource = q.resource, !.user = q.user,
                                  !.begin = p[1], !.end = p[2], !.state = FinalState(q)]]
           /\ checked' = [checked EXCEPT ![i] = ChecksPassed(q.resource, q.by)]
    BY <1>5 DEF PutCommit
  <2>2. ChecksPassed(q.resource, q.by) \in SUBSET Check
    BY DEF ChecksPassed
  <2>3. i \in Rid /\ p \in Period /\ q.copy[i] \in Row
    BY <1>q DEF Request
  <2>4. FinalState(q) \in State
    BY <1>q DEF FinalState, Request, State, Keep
  <2>5. [q.copy[i] EXCEPT !.resource = q.resource, !.user = q.user,
                          !.begin = p[1], !.end = p[2], !.state = FinalState(q)] \in Row
    BY <1>q, <2>3, <2>4, PeriodType DEF Row, Request
  <2>6. res' \in [Rid -> Row] /\ checked' \in [Rid -> SUBSET Check]
    BY <2>1, <2>2, <2>5 DEF TypeOK
  <2> QED
    BY <1>5, <2>6, EndType DEF PutCommit, TypeOK
<1>6. CASE CancelCommit(w)
  <2>1. \A i \in Rid : [q.copy[i] EXCEPT !.state = CANCELLED] \in Row
    BY <1>q DEF Request, Row, State
  <2>2. res' \in [Rid -> Row]
    BY <1>6, <2>1 DEF CancelCommit, TypeOK
  <2> QED
    BY <1>6, <2>2, EndType DEF CancelCommit, TypeOK
<1>7. CASE BulkCommit(w)
  <2>1. PICK key \in [q.periods -> FreeRids] :
        /\ res' = [i \in Rid |->
             IF \E p \in q.periods : key[p] = i
             THEN LET p == CHOOSE p \in q.periods : key[p] = i
                  IN  [resource |-> q.resource, user |-> q.user,
                       begin |-> p[1], end |-> p[2], state |-> CONFIRMED]
             ELSE res[i]]
        /\ checked' = [i \in Rid |-> IF \E p \in q.periods : key[p] = i
                                     THEN {} ELSE checked[i]]
    BY <1>7 DEF BulkCommit
  <2>2. \A p \in q.periods : [resource |-> q.resource, user |-> q.user, begin |-> p[1],
                              end |-> p[2], state |-> CONFIRMED] \in Row
    BY <1>q, PeriodType DEF Request, Row, State
  <2>3. res' \in [Rid -> Row]
    <3> SUFFICES ASSUME NEW i \in Rid PROVE res'[i] \in Row
      BY <2>1
    <3>1. CASE \E p \in q.periods : key[p] = i
      <4> DEFINE c == CHOOSE p \in q.periods : key[p] = i
      <4>1. c \in q.periods
        BY <3>1
      <4>2. res'[i] = [resource |-> q.resource, user |-> q.user,
                       begin |-> c[1], end |-> c[2], state |-> CONFIRMED]
        BY <2>1, <3>1
      <4> HIDE DEF c
      <4> QED
        BY <2>2, <4>1, <4>2
    <3>2. CASE ~ \E p \in q.periods : key[p] = i
      BY <2>1, <3>2 DEF TypeOK
    <3> QED
      BY <3>1, <3>2
  <2>4. checked' \in [Rid -> SUBSET Check]
    BY <2>1 DEF TypeOK
  <2> QED
    BY <1>7, <2>3, <2>4, EndType DEF BulkCommit, TypeOK
<1>8. CASE SyncSet(w)
  <2>1. PICK i \in q.target, p \in q.periods :
           /\ res' = [res EXCEPT ![i] = [q.copy[i] EXCEPT !.begin = p[1], !.end = p[2]]]
           /\ checked' = [checked EXCEPT ![i] = {}]
    BY <1>8 DEF SyncSet
  <2>2. [q.copy[i] EXCEPT !.begin = p[1], !.end = p[2]] \in Row
    <3>1. q.copy[i] \in Row /\ p \in Period
      BY <1>q DEF Request
    <3> QED
      BY <3>1, PeriodType DEF Row
  <2>3. res' \in [Rid -> Row] /\ checked' \in [Rid -> SUBSET Check]
    BY <2>1, <2>2 DEF TypeOK
  <2> QED
    BY <1>8, <2>3, EndType DEF SyncSet, TypeOK
<1>9. CASE SyncRemove(w)
  <2>1. PICK i \in q.target : res' = [res EXCEPT ![i] = [q.copy[i] EXCEPT !.state = CANCELLED]]
    BY <1>9 DEF SyncRemove
  <2>2. [q.copy[i] EXCEPT !.state = CANCELLED] \in Row
    BY <1>q DEF Request, Row, State
  <2>3. res' \in [Rid -> Row]
    BY <2>1, <2>2 DEF TypeOK
  <2> QED
    BY <1>9, <2>3, EndType DEF SyncRemove, TypeOK
<1> QED
  BY <1>1, <1>2, <1>3, <1>4, <1>5, <1>6, <1>7, <1>8, <1>9 DEF Proceed

\* Every step keeps the types
LEMMA TypeStep == TypeOK /\ [Next]_vars => TypeOK'
<1> SUFFICES ASSUME TypeOK, [Next]_vars
             PROVE  TypeOK'
  OBVIOUS
<1>1. CASE Tick
  BY <1>1 DEF Tick, TypeOK
<1>2. ASSUME NEW i \in Rid, NEW r \in Resource, NEW p \in Period, SyncCreate(i, r, p)
      PROVE  TypeOK'
  <2>1. [resource |-> r, user |-> NoUser, begin |-> p[1], end |-> p[2],
         state |-> CONFIRMED] \in Row
    BY PeriodType DEF Row, State
  <2> QED
    BY <1>2, <2>1 DEF SyncCreate, TypeOK
<1>3. ASSUME NEW w \in Worker, Arrive(w) \/ Proceed(w)
      PROVE  TypeOK'
  BY <1>3, TypeArrive, TypeProceed
<1>4. CASE UNCHANGED vars
  BY <1>4 DEF vars, TypeOK
<1> QED
  BY <1>1, <1>2, <1>3, <1>4 DEF Next

\* Rows, requests and the clock always have their types: in particular no update
\* ever writes a row whose state is not one of the states of a reservation
THEOREM TypeInvariant == Spec => []TypeOK
BY TypeInit, TypeStep, PTL DEF Spec

-----------------------------------------------------------------------------
(* Exclusion: the steps that put no checked reservation in anybody's way   *)

\* A step that leaves alone every checked reservation still in force, takes no
\* lock and does not change what a request past its validation asks
Quiet ==
    /\ now' >= now
    /\ \A i \in Rid : Current(res'[i]) /\ "collision" \in checked'[i] =>
           res'[i] = res[i] /\ checked'[i] = checked[i]
    /\ \A v \in Worker : Critical(v)' =>
           /\ Critical(v)
           /\ req'[v].by = req[v].by
           /\ req'[v].resource = req[v].resource
           /\ req'[v].periods = req[v].periods
           /\ req'[v].target = req[v].target

\* What the exclusion rests on, besides types and targets
MutualExclusion == OneCritical /\ StillClear /\ NoDoubleBooking

\* Time passing only takes reservations out of force
LEMMA StillInForce ==
    ASSUME TypeOK, TypeOK', Quiet, NEW i \in Rid,
           Active(res[i])', "collision" \in checked'[i]
    PROVE  Active(res[i]) /\ res'[i] = res[i] /\ checked'[i] = checked[i]
<1>1. Current(res'[i]) /\ res'[i].end >= now'
  BY DEF Active, Current
<1>2. res'[i] = res[i] /\ checked'[i] = checked[i]
  BY <1>1 DEF Quiet
<1>3. res[i].end \in Nat /\ now \in Nat /\ now' \in Nat /\ now' >= now
  BY DEF Quiet, TypeOK, Row
<1>4. res[i].end >= now
  BY <1>1, <1>2, <1>3
<1> QED
  BY <1>1, <1>2, <1>4 DEF Active

\* A quiet step keeps the exclusion
LEMMA QuietStep ==
    ASSUME TypeOK, TypeOK', Quiet, MutualExclusion
    PROVE  MutualExclusion'
<1>1. OneCritical'
  BY DEF Quiet, MutualExclusion, OneCritical
<1>2. StillClear'
  <2> SUFFICES ASSUME NEW w \in Worker, Critical(w)', NEW p \in req'[w].periods,
                      NEW i \in Rid \ req'[w].target, InTheWay(i, req[w].resource)'
               PROVE  ~Meets(res'[i], p[1], p[2])
    BY DEF StillClear, Meets
  <2>1. Critical(w) /\ req'[w].periods = req[w].periods /\ req'[w].target = req[w].target
    BY DEF Quiet
  <2>2. InTheWay(i, req[w].resource) /\ res'[i] = res[i]
    BY StillInForce DEF InTheWay, Quiet
  <2> QED
    BY <2>1, <2>2 DEF MutualExclusion, StillClear
<1>3. NoDoubleBooking'
  <2> SUFFICES ASSUME NEW i \in Rid, NEW j \in Rid, Rivals(i, j)',
                      "collision" \in checked'[i] \cap checked'[j]
               PROVE  ~Overlap(res'[i], res'[j])
    BY DEF NoDoubleBooking, Overlap
  <2>1. /\ Active(res[i]) /\ res'[i] = res[i] /\ checked'[i] = checked[i]
        /\ Active(res[j]) /\ res'[j] = res[j] /\ checked'[j] = checked[j]
    BY StillInForce DEF Rivals
  <2>2. Rivals(i, j) /\ "collision" \in checked[i] \cap checked[j]
    BY <2>1 DEF Rivals
  <2> QED
    BY <2>1, <2>2 DEF MutualExclusion, NoDoubleBooking
<1> QED
  BY <1>1, <1>2, <1>3 DEF MutualExclusion

\* An arriving request, or one that ends, is quiet if it leaves the rows alone
LEMMA BecomeQuiet ==
    ASSUME TypeOK, NEW w \in Worker, NEW l, NEW q,
           l \notin {"creating", "validated", "reloaded"}, Become(w, l, q),
           UNCHANGED <<now, res, checked>>
    PROVE  Quiet
BY DEF Become, Quiet, Critical, TypeOK

LEMMA EndQuiet ==
    ASSUME TypeOK, NEW w \in Worker, End(w), now' = now,
           \A i \in Rid : Current(res'[i]) /\ "collision" \in checked'[i] =>
               res'[i] = res[i] /\ checked'[i] = checked[i]
    PROVE  Quiet
BY DEF End, Quiet, Critical, TypeOK

\* Every arrival is quiet
LEMMA ArriveQuiet ==
    ASSUME TypeOK, NEW w \in Worker, Arrive(w)
    PROVE  Quiet
<1>1. ASSUME NEW op, NEW l \in {"to_create", "to_update", "to_cancel", "to_bulk", "to_sync"},
             NEW q, Start(w, op, l, q)
      PROVE  Quiet
  BY <1>1, BecomeQuiet DEF Start
<1>2. ASSUME NEW u \in User, NEW r \in Resource, NEW p \in Period, NEW o \in User,
             PostBegin(w, u, r, p, o)
      PROVE  Quiet
  BY <1>1, <1>2 DEF PostBegin
<1>3. ASSUME NEW u \in User, NEW i \in Rid, NEW r \in Resource, NEW p \in Period,
             NEW o \in User \cup {NoUser}, NEW s \in AskedStates \cup {Keep},
             PutBegin(w, u, i, r, p, o, s)
      PROVE  Quiet
  BY <1>1, <1>3 DEF PutBegin
<1>4. ASSUME NEW u \in User, NEW i \in Rid, DeleteBegin(w, u, i)
      PROVE  Quiet
  BY <1>1, <1>4 DEF DeleteBegin
<1>5. ASSUME NEW u \in User, NEW r \in Resource, NEW p \in Period,
             CancelRangeBegin(w, u, r, p)
      PROVE  Quiet
  BY <1>1, <1>5 DEF CancelRangeBegin
<1>6. ASSUME NEW u \in User, NEW r \in Resource, NEW ps \in SUBSET Period,
             BulkBegin(w, u, r, ps)
      PROVE  Quiet
  BY <1>1, <1>6 DEF BulkBegin
<1>7. ASSUME NEW i \in Rid, NEW p \in Period, SyncBegin(w, i, p)
      PROVE  Quiet
  BY <1>1, <1>7 DEF SyncBegin
<1> QED
  BY <1>2, <1>3, <1>4, <1>5, <1>6, <1>7 DEF Arrive

\* Cancellations, bulk requests and synchronisation are quiet: the rows they write
\* are cancelled, or count as unchecked
LEMMA UncheckedQuiet ==
    ASSUME TypeOK, NEW w \in Worker,
           CancelCommit(w) \/ BulkCommit(w) \/ SyncSet(w) \/ SyncRemove(w)
    PROVE  Quiet
<1> DEFINE q == req[w]
<1>q. q.target \subseteq Rid /\ q.copy \in [Rid -> Row]
  BY DEF TypeOK, Request
<1>1. CASE CancelCommit(w)
  <2>1. \A i \in q.target : res'[i].state = CANCELLED
    BY <1>q, <1>1 DEF CancelCommit, Row
  <2>2. \A i \in Rid \ q.target : res'[i] = res[i]
    BY <1>1 DEF CancelCommit
  <2> QED
    BY <1>1, <2>1, <2>2, EndQuiet DEF CancelCommit, Current
<1>2. CASE BulkCommit(w)
  <2>1. \A i \in Rid : checked'[i] = {} \/ (res'[i] = res[i] /\ checked'[i] = checked[i])
    <3>1. PICK key :
          /\ \A i \in Rid : (~ \E p \in q.periods : key[p] = i) => res'[i] = res[i]
          /\ checked' = [i \in Rid |-> IF \E p \in q.periods : key[p] = i
                                       THEN {} ELSE checked[i]]
      BY <1>2 DEF BulkCommit
    <3> QED
      BY <3>1
  <2> QED
    BY <1>2, <2>1, EndQuiet DEF BulkCommit
<1>3. CASE SyncSet(w)
  <2>1. \A i \in Rid : checked'[i] = {} \/ (res'[i] = res[i] /\ checked'[i] = checked[i])
    BY <1>q, <1>3 DEF SyncSet, TypeOK
  <2> QED
    BY <1>3, <2>1, EndQuiet DEF SyncSet
<1>4. CASE SyncRemove(w)
  <2>1. PICK i \in q.target : res' = [res EXCEPT ![i] = [q.copy[i] EXCEPT !.state = CANCELLED]]
    BY <1>4 DEF SyncRemove
  <2>2. res'[i].state = CANCELLED
    BY <1>q, <2>1 DEF TypeOK, Row
  <2>3. \A j \in Rid \ {i} : res'[j] = res[j]
    BY <2>1 DEF TypeOK
  <2> QED
    BY <1>4, <2>2, <2>3, EndQuiet DEF SyncRemove, Current
<1> QED
  BY <1>1, <1>2, <1>3, <1>4

-----------------------------------------------------------------------------
(* The steps of the requests that take the lock                            *)

\* A validation under the lock: nobody else is past it in this resource, and the
\* period has just been compared with every reservation in force
LEMMA ValidateStep ==
    ASSUME TypeOK, Targets, MutualExclusion, NEW w \in Worker,
           PostValidate(w) \/ PutValidate(w)
    PROVE  MutualExclusion'
<1> DEFINE q == req[w]
<1>1. UNCHANGED <<now, res, checked>> /\ LockFree(q.resource)
  BY DEF PostValidate, PutValidate
<1>2. PICK ok \in BOOLEAN, l \in {"creating", "validated"} :
         /\ Validated(w, ok, l)
         /\ ok => \A p \in q.periods : CollisionFree(q.resource, p[1], p[2], q.target)
  <2>1. CASE PostValidate(w)
    <3>1. q.target = {}
      BY <2>1 DEF Targets, PostValidate
    <3>2. PICK ok \in BOOLEAN : /\ Validated(w, ok, "creating")
                                /\ ok => \A p \in q.periods : Clean(q.resource, p, q.by, {})
      <4> DEFINE g == /\ WithinMax(q.resource, q.by)
                      /\ \A p \in q.periods : Clean(q.resource, p, q.by, {})
      <4>1. Validated(w, g, "creating") /\ g \in BOOLEAN
        BY <2>1 DEF PostValidate
      <4> QED
        BY <4>1
    <3> QED
      BY <3>1, <3>2 DEF Clean
  <2>2. CASE PutValidate(w)
    <3> DEFINE g == \A p \in q.periods : Clean(q.resource, p, q.by, q.target)
    <3>1. Validated(w, g, "validated") /\ g \in BOOLEAN
      BY <2>2 DEF PutValidate
    <3>2. g => \A p \in q.periods : CollisionFree(q.resource, p[1], p[2], q.target)
      BY DEF Clean
    <3> HIDE DEF g
    <3> QED
      BY <3>1, <3>2
  <2> QED
    BY <2>1, <2>2
<1>3. CASE ~ok
  BY <1>1, <1>2, <1>3, EndQuiet, QuietStep, TypeProceed DEF Validated, Proceed
<1>4. CASE ok
  <2>1. Become(w, l, q)
    BY <1>2, <1>4 DEF Validated
  <2>2. /\ \A v \in Worker : req'[v] = req[v]
        /\ \A v \in Worker \ {w} : Critical(v)' = Critical(v)
    BY <2>1 DEF Become, Critical, TypeOK
  <2>3. \A v \in Worker : Critical(v) => req[v].resource # q.resource
    BY <1>1 DEF LockFree, Holds, Critical
  <2>4. OneCritical'
    BY <2>2, <2>3 DEF MutualExclusion, OneCritical
  <2>5. StillClear'
    <3> SUFFICES ASSUME NEW v \in Worker, Critical(v)', NEW p \in req[v].periods,
                        NEW i \in Rid \ req[v].target, InTheWay(i, req[v].resource)
                 PROVE  ~Meets(res[i], p[1], p[2])
      BY <1>1, <2>2 DEF StillClear, InTheWay, Active, Meets, Current
    <3>1. CASE v = w
      BY <1>2, <1>4, <3>1 DEF CollisionFree, InTheWay
    <3>2. CASE v # w
      BY <2>2, <3>2 DEF MutualExclusion, StillClear
    <3> QED
      BY <3>1, <3>2
  <2>6. NoDoubleBooking'
    BY <1>1 DEF MutualExclusion, NoDoubleBooking, Rivals, Active, Current, Overlap
  <2> QED
    BY <2>4, <2>5, <2>6 DEF MutualExclusion
<1> QED
  BY <1>3, <1>4

\* Reading the row again under the lock changes nothing that matters here
LEMMA ReloadQuiet ==
    ASSUME TypeOK, NEW w \in Worker, PutReload(w)
    PROVE  Quiet
<1>1. UNCHANGED <<now, res, checked>> /\ pc[w] = "validated"
  BY DEF PutReload
<1>2. PICK i \in req[w].target :
        \/ Become(w, "reloaded", [req[w] EXCEPT !.old = Reread(req[w], i).state])
        \/ End(w)
  BY DEF PutReload
<1>3. CASE Become(w, "reloaded", [req[w] EXCEPT !.old = Reread(req[w], i).state])
  <2>1. /\ req'[w].by = req[w].by
        /\ req'[w].resource = req[w].resource
        /\ req'[w].periods = req[w].periods
        /\ req'[w].target = req[w].target
    BY <1>3 DEF Become, TypeOK, Request
  <2>2. \A v \in Worker \ {w} : req'[v] = req[v] /\ pc'[v] = pc[v]
    BY <1>3 DEF Become, TypeOK
  <2> QED
    BY <1>1, <2>1, <2>2 DEF Quiet, Critical, TypeOK
<1>4. CASE End(w)
  BY <1>1, <1>4, EndQuiet
<1> QED
  BY <1>2, <1>3, <1>4

\* The row a request writes: the only checked write of its step, in the resource
\* whose lock it holds, with a period that was found clear and still is
Writes(w, i, p) ==
    /\ Critical(w) /\ End(w) /\ now' = now
    /\ p \in req[w].periods /\ req[w].target \subseteq {i}
    /\ res'[i].resource = req[w].resource
    /\ res'[i].begin = p[1] /\ res'[i].end = p[2]
    /\ checked'[i] = ChecksPassed(req[w].resource, req[w].by)
    /\ \A j \in Rid \ {i} : res'[j] = res[j] /\ checked'[j] = checked[j]

\* A creation and an update write one row in that way
LEMMA CommitWrites ==
    ASSUME TypeOK, Targets, NEW w \in Worker, PostCommit(w) \/ PutCommit(w)
    PROVE  \E i \in Rid, p \in Period : Writes(w, i, p)
<1> DEFINE q == req[w]
<1>q. q \in Request
  BY DEF TypeOK
<1>1. CASE PostCommit(w)
  <2>1. PICK i \in FreeRids, p \in q.periods :
           /\ res' = [res EXCEPT ![i] =
                [resource |-> q.resource, user |-> q.user, begin |-> p[1], end |-> p[2],
                 state |-> NewState(q.resource, q.by)]]
           /\ checked' = [checked EXCEPT ![i] = ChecksPassed(q.resource, q.by)]
    BY <1>1 DEF PostCommit
  <2>2. q.target = {} /\ Critical(w) /\ End(w) /\ now' = now
    BY <1>1 DEF PostCommit, Targets, Critical
  <2>3. i \in Rid /\ p \in Period
    BY <1>q DEF Request, FreeRids
  <2>4. /\ res'[i].resource = q.resource /\ res'[i].begin = p[1] /\ res'[i].end = p[2]
        /\ checked'[i] = ChecksPassed(q.resource, q.by)
        /\ \A j \in Rid \ {i} : res'[j] = res[j] /\ checked'[j] = checked[j]
    BY <2>1, <2>3 DEF TypeOK
  <2> QED
    BY <2>2, <2>3, <2>4 DEF Writes
<1>2. CASE PutCommit(w)
  <2>1. PICK i \in q.target, p \in q.periods :
           /\ res' = [res EXCEPT ![i] =
                [q.copy[i] EXCEPT !.resource = q.resource, !.user = q.user,
                                  !.begin = p[1], !.end = p[2], !.state = FinalState(q)]]
           /\ checked' = [checked EXCEPT ![i] = ChecksPassed(q.resource, q.by)]
    BY <1>2 DEF PutCommit
  <2>2. q.target = {i} /\ Critical(w) /\ End(w) /\ now' = now
    BY <1>2 DEF PutCommit, Targets, Critical
  <2>3. i \in Rid /\ p \in Period /\ q.copy[i] \in Row
    BY <1>q DEF Request
  <2>4. /\ res'[i].resource = q.resource /\ res'[i].begin = p[1] /\ res'[i].end = p[2]
        /\ checked'[i] = ChecksPassed(q.resource, q.by)
        /\ \A j \in Rid \ {i} : res'[j] = res[j] /\ checked'[j] = checked[j]
    BY <2>1, <2>3 DEF TypeOK, Row
  <2> QED
    BY <2>2, <2>3, <2>4 DEF Writes
<1> QED
  BY <1>1, <1>2

\* Such a write keeps the exclusion
LEMMA WriteStep ==
    ASSUME TypeOK, TypeOK', MutualExclusion, NEW w \in Worker,
           NEW i \in Rid, NEW p \in Period, Writes(w, i, p)
    PROVE  MutualExclusion'
<1> DEFINE q == req[w]
<1>1. \A v \in Worker : Critical(v)' => Critical(v) /\ v # w /\ req'[v] = req[v]
  BY DEF Writes, End, Critical, TypeOK
<1>2. OneCritical'
  BY <1>1 DEF MutualExclusion, OneCritical
<1>3. StillClear'
  <2> SUFFICES ASSUME NEW v \in Worker, Critical(v)', NEW o \in req[v].periods,
                      NEW j \in Rid \ req[v].target,
                      res'[j].resource = req[v].resource,
                      Active(res[j])', "collision" \in checked'[j]
               PROVE  ~Meets(res'[j], o[1], o[2])
    BY <1>1 DEF StillClear, InTheWay, Meets
  <2>1. req[v].resource # q.resource
    BY <1>1 DEF Writes, MutualExclusion, OneCritical
  <2>2. j # i
    BY <2>1 DEF Writes
  <2>3. res'[j] = res[j] /\ checked'[j] = checked[j] /\ now' = now
    BY <2>2 DEF Writes
  <2>4. InTheWay(j, req[v].resource)
    BY <2>3 DEF InTheWay, Active, Current
  <2> QED
    BY <1>1, <2>3, <2>4 DEF MutualExclusion, StillClear
<1>4. NoDoubleBooking'
  <2>1. ASSUME NEW j \in Rid \ {i}, res'[j].resource = res'[i].resource,
               Active(res[j])', "collision" \in checked'[j]
        PROVE  ~Overlap(res'[i], res'[j]) /\ ~Overlap(res'[j], res'[i])
    <3>1. res'[j] = res[j] /\ checked'[j] = checked[j] /\ now' = now
      BY DEF Writes
    <3>2. InTheWay(j, q.resource) /\ j \notin q.target
      BY <2>1, <3>1 DEF InTheWay, Active, Current, Writes
    <3>3. ~Meets(res[j], p[1], p[2])
      BY <3>2 DEF MutualExclusion, StillClear, Writes
    <3> QED
      BY <3>1, <3>3 DEF Meets, Overlap, Writes
  <2> SUFFICES ASSUME NEW j \in Rid, NEW k \in Rid, Rivals(j, k)',
                      "collision" \in checked'[j] \cap checked'[k]
               PROVE  ~Overlap(res'[j], res'[k])
    BY DEF NoDoubleBooking, Overlap
  <2>2. CASE j = i
    BY <2>1, <2>2 DEF Rivals
  <2>3. CASE k = i
    BY <2>1, <2>3 DEF Rivals
  <2>4. CASE j # i /\ k # i
    <3>1. /\ res'[j] = res[j] /\ checked'[j] = checked[j]
          /\ res'[k] = res[k] /\ checked'[k] = checked[k] /\ now' = now
      BY <2>4 DEF Writes
    <3>2. Rivals(j, k)
      BY <3>1 DEF Rivals, Active, Current
    <3> QED
      BY <3>1, <3>2 DEF MutualExclusion, NoDoubleBooking
  <2> QED
    BY <2>2, <2>3, <2>4
<1> QED
  BY <1>2, <1>3, <1>4 DEF MutualExclusion

-----------------------------------------------------------------------------
(* Targets                                                                 *)

\* What Targets says of one request at the step l
Aimed(l, q) ==
    /\ l \in {"to_create", "creating"} => q.target = {}
    /\ l \in {"to_update", "validated", "reloaded"} => \E i \in Rid : q.target = {i}

LEMMA BecomeTargets ==
    ASSUME TypeOK, Targets, NEW w \in Worker, NEW l, NEW q, Become(w, l, q), Aimed(l, q)
    PROVE  Targets'
BY DEF TypeOK, Targets, Become, Aimed

LEMMA EndTargets ==
    ASSUME TypeOK, Targets, NEW w \in Worker, End(w)
    PROVE  Targets'
BY DEF TypeOK, Targets, End

\* The requests that arrive aim at no row, or at the one row they found
LEMMA ArriveTargets ==
    ASSUME TypeOK, Targets, NEW w \in Worker, Arrive(w)
    PROVE  Targets'
<1>0. ASSUME NEW op, NEW l, NEW q, Start(w, op, l, q), Aimed(l, q)
      PROVE  Targets'
  BY <1>0, BecomeTargets DEF Start
<1>1. ASSUME NEW u \in User, NEW r \in Resource, NEW p \in Period, NEW o \in User,
             PostBegin(w, u, r, p, o)
      PROVE  Targets'
  <2> DEFINE q == [NoRequest EXCEPT !.by = u, !.resource = r, !.periods = {p}, !.user = o]
  <2>1. q.target = {}
    BY DEF NoRequest
  <2>2. Aimed("to_create", q)
    BY <2>1 DEF Aimed
  <2> QED
    BY <1>0, <1>1, <2>2 DEF PostBegin
<1>2. ASSUME NEW u \in User, NEW i \in Rid, NEW r \in Resource, NEW p \in Period,
             NEW o \in User \cup {NoUser}, NEW s \in AskedStates \cup {Keep},
             PutBegin(w, u, i, r, p, o, s)
      PROVE  Targets'
  <2> DEFINE q == [NoRequest EXCEPT !.by = u, !.resource = r, !.periods = {p}, !.user = o,
                                    !.target = {i}, !.state = s, !.copy[i] = res[i]]
  <2>1. q.target = {i}
    BY DEF NoRequest
  <2>2. Aimed("to_update", q)
    BY <2>1 DEF Aimed
  <2> QED
    BY <1>0, <1>2, <2>2 DEF PutBegin
<1>3. \A l \in {"to_cancel", "to_bulk", "to_sync"} : \A q : Aimed(l, q)
  BY DEF Aimed
<1>4. ASSUME NEW u \in User, NEW i \in Rid, DeleteBegin(w, u, i)
      PROVE  Targets'
  BY <1>0, <1>3, <1>4 DEF DeleteBegin
<1>5. ASSUME NEW u \in User, NEW r \in Resource, NEW p \in Period,
             CancelRangeBegin(w, u, r, p)
      PROVE  Targets'
  BY <1>0, <1>3, <1>5 DEF CancelRangeBegin
<1>6. ASSUME NEW u \in User, NEW r \in Resource, NEW ps \in SUBSET Period,
             BulkBegin(w, u, r, ps)
      PROVE  Targets'
  BY <1>0, <1>3, <1>6 DEF BulkBegin
<1>7. ASSUME NEW i \in Rid, NEW p \in Period, SyncBegin(w, i, p)
      PROVE  Targets'
  BY <1>0, <1>3, <1>7 DEF SyncBegin
<1> QED
  BY <1>1, <1>2, <1>4, <1>5, <1>6, <1>7 DEF Arrive

\* No step of a request changes what it aims at
LEMMA ProceedTargets ==
    ASSUME TypeOK, Targets, NEW w \in Worker, Proceed(w)
    PROVE  Targets'
<1>1. CASE PostValidate(w) \/ PutValidate(w)
  <2>1. PICK l : /\ Become(w, l, req[w]) \/ End(w)
                 /\ \/ pc[w] = "to_create" /\ l = "creating"
                    \/ pc[w] = "to_update" /\ l = "validated"
    BY <1>1 DEF PostValidate, PutValidate, Validated
  <2>2. Aimed(l, req[w])
    BY <2>1 DEF Aimed, Targets
  <2> QED
    BY <2>1, <2>2, BecomeTargets, EndTargets
<1>2. CASE PutReload(w)
  <2>1. PICK i \in req[w].target :
          \/ Become(w, "reloaded", [req[w] EXCEPT !.old = Reread(req[w], i).state])
          \/ End(w)
    BY <1>2 DEF PutReload
  <2>2. [req[w] EXCEPT !.old = Reread(req[w], i).state].target = req[w].target
    BY DEF TypeOK, Request
  <2>3. Aimed("reloaded", [req[w] EXCEPT !.old = Reread(req[w], i).state])
    BY <1>2, <2>2 DEF Aimed, Targets, PutReload
  <2> QED
    BY <2>1, <2>3, BecomeTargets, EndTargets
<1>3. CASE PostCommit(w) \/ PutCommit(w) \/ CancelCommit(w) \/ BulkCommit(w)
           \/ SyncSet(w) \/ SyncRemove(w)
  BY <1>3, EndTargets DEF PostCommit, PutCommit, CancelCommit, BulkCommit, SyncSet, SyncRemove
<1> QED
  BY <1>1, <1>2, <1>3 DEF Proceed

-----------------------------------------------------------------------------
(* The theorems                                                            *)

\* At the start there is neither a reservation nor a request
LEMMA InvInit == Init => BookingInv
<1> SUFFICES ASSUME Init PROVE BookingInv
  OBVIOUS
<1>1. TypeOK
  BY TypeInit
<1>2. \A w \in Worker : pc[w] = "idle"
  BY DEF Init
<1>3. \A i \in Rid : checked[i] = {}
  BY DEF Init
<1> QED
  BY <1>1, <1>2, <1>3 DEF BookingInv, OneCritical, Targets, StillClear, NoDoubleBooking, Critical

\* Every step keeps the invariant
LEMMA InvStep == BookingInv /\ [Next]_vars => BookingInv'
<1> SUFFICES ASSUME BookingInv, [Next]_vars
             PROVE  BookingInv'
  OBVIOUS
<1>1. TypeOK /\ Targets /\ MutualExclusion /\ TypeOK'
  BY TypeStep DEF BookingInv, MutualExclusion
<1>2. CASE Tick
  <2>1. Quiet
    BY <1>1, <1>2 DEF Tick, Quiet, Critical, TypeOK
  <2>2. Targets'
    BY <1>1, <1>2 DEF Tick, Targets
  <2> QED
    BY <1>1, <2>1, <2>2, QuietStep DEF BookingInv, MutualExclusion
<1>3. ASSUME NEW i \in Rid, NEW r \in Resource, NEW p \in Period, SyncCreate(i, r, p)
      PROVE  BookingInv'
  <2>1. \A j \in Rid : checked'[j] = {} \/ (res'[j] = res[j] /\ checked'[j] = checked[j])
    BY <1>1, <1>3 DEF SyncCreate, TypeOK
  <2>2. Quiet
    BY <1>1, <1>3, <2>1 DEF SyncCreate, Quiet, Critical, TypeOK
  <2>3. Targets'
    BY <1>1, <1>3 DEF SyncCreate, Targets
  <2> QED
    BY <1>1, <2>2, <2>3, QuietStep DEF BookingInv, MutualExclusion
<1>4. ASSUME NEW w \in Worker, Arrive(w)
      PROVE  BookingInv'
  BY <1>1, <1>4, ArriveQuiet, ArriveTargets, QuietStep DEF BookingInv, MutualExclusion
<1>5. ASSUME NEW w \in Worker, Proceed(w)
      PROVE  BookingInv'
  <2>1. Targets'
    BY <1>1, <1>5, ProceedTargets
  <2>2. CASE PostValidate(w) \/ PutValidate(w)
    BY <1>1, <2>1, <2>2, ValidateStep DEF BookingInv, MutualExclusion
  <2>3. CASE PutReload(w)
    BY <1>1, <2>1, <2>3, ReloadQuiet, QuietStep DEF BookingInv, MutualExclusion
  <2>4. CASE PostCommit(w) \/ PutCommit(w)
    BY <1>1, <2>1, <2>4, CommitWrites, WriteStep DEF BookingInv, MutualExclusion
  <2>5. CASE CancelCommit(w) \/ BulkCommit(w) \/ SyncSet(w) \/ SyncRemove(w)
    BY <1>1, <2>1, <2>5, UncheckedQuiet, QuietStep DEF BookingInv, MutualExclusion
  <2> QED
    BY <1>5, <2>2, <2>3, <2>4, <2>5 DEF Proceed
<1>6. CASE UNCHANGED vars
  <2>1. Quiet /\ Targets'
    BY <1>1, <1>6 DEF vars, Quiet, Critical, Targets, TypeOK
  <2> QED
    BY <1>1, <2>1, QuietStep DEF BookingInv, MutualExclusion
<1> QED
  BY <1>2, <1>3, <1>4, <1>5, <1>6 DEF Next

\* From its validation to its commit no request loses the period it has found clear:
\* the critical section of ReservationSerializer.validate, for every number of
\* resources, users, rows and workers
THEOREM BookingInvariant == Spec => []BookingInv
BY InvInit, InvStep, PTL DEF Spec

\* No resource is booked twice by POST and PUT requests, whatever cancellations, bulk
\* requests and synchronisation do besides
THEOREM NothingBookedTwice == Spec => []NoDoubleBooking
<1>1. BookingInv => NoDoubleBooking
  BY DEF BookingInv
<1> QED
  BY <1>1, BookingInvariant, PTL

-----------------------------------------------------------------------------
(***************************************************************************)
(* Between reservations whose users the cooldown binds there is at least   *)
(* the cooldown of the resource, for any number of resources, users, rows  *)
(* and workers: Spec => []CooldownKept.                                    *)
(***************************************************************************)
\* The request of worker w has to keep the cooldown
Bound(w) == CooldownApplies(req[w].resource, req[w].by)

\* What such a request found far enough from its period when it validated is still so
StillSpaced ==
    \A w \in Worker : Critical(w) /\ Bound(w) =>
        \A p \in req[w].periods : \A i \in Rid \ req[w].target :
            InTheWay(i, req[w].resource) =>
                ~CooldownMeets(res[i], p[1], p[2], Cooldown[req[w].resource])

\* Whatever a period was checked for, it was checked for collisions
CollisionFirst == \A i \in Rid : checked[i] # {} => "collision" \in checked[i]

Spacing == StillSpaced /\ CooldownKept

SpacingInv == BookingInv /\ CollisionFirst /\ Spacing

-----------------------------------------------------------------------------
\* The query for the cooldown does not see a reservation that begins and ends exactly one
\* cooldown outside the period; together with the one for collisions it misses none
LEMMA FarApart ==
    ASSUME NEW x \in Nat, NEW y \in Nat, NEW b \in Nat, NEW e \in Nat, NEW c \in Nat,
           NEW row, row.begin = x, row.end = y,
           b < e, c > 0, ~Meets(row, b, e), ~CooldownMeets(row, b, e, c)
    PROVE  y + c <= b \/ e + c <= x
<1>1. y <= b \/ x >= e
  BY DEF Meets
<1>2. y <= b => y <= b - c
  BY DEF CooldownMeets
<1>3. x >= e => x >= e + c
  BY DEF CooldownMeets
<1> QED
  BY <1>1, <1>2, <1>3

LEMMA PassedCollision ==
    ASSUME NEW r, NEW u
    PROVE  /\ "collision" \in ChecksPassed(r, u)
           /\ "cooldown" \in ChecksPassed(r, u) => CooldownApplies(r, u)
BY DEF ChecksPassed, Check

-----------------------------------------------------------------------------
(* Three kinds of steps                                                    *)

LEMMA StepKinds ==
    ASSUME BookingInv, [Next]_vars
    PROVE  \/ Quiet
           \/ \E w \in Worker : PostValidate(w) \/ PutValidate(w)
           \/ \E w \in Worker, i \in Rid, p \in Period : Writes(w, i, p)
<1>1. TypeOK /\ Targets
  BY DEF BookingInv
<1>2. CASE Tick
  BY <1>1, <1>2 DEF Tick, Quiet, Critical, TypeOK
<1>3. ASSUME NEW i \in Rid, NEW r \in Resource, NEW p \in Period, SyncCreate(i, r, p)
      PROVE  Quiet
  <2>1. \A j \in Rid : checked'[j] = {} \/ (res'[j] = res[j] /\ checked'[j] = checked[j])
    BY <1>1, <1>3 DEF SyncCreate, TypeOK
  <2> QED
    BY <1>1, <1>3, <2>1 DEF SyncCreate, Quiet, Critical, TypeOK
<1>4. ASSUME NEW w \in Worker, Arrive(w)
      PROVE  Quiet
  BY <1>1, <1>4, ArriveQuiet
<1>5. ASSUME NEW w \in Worker, Proceed(w)
      PROVE  \/ Quiet
             \/ PostValidate(w) \/ PutValidate(w)
             \/ \E i \in Rid, p \in Period : Writes(w, i, p)
  BY <1>1, <1>5, ReloadQuiet, CommitWrites, UncheckedQuiet DEF Proceed
<1>6. CASE UNCHANGED vars
  BY <1>1, <1>6 DEF vars, Quiet, Critical, TypeOK
<1> QED
  BY <1>2, <1>3, <1>4, <1>5, <1>6 DEF Next

\* What a step writes, it has checked for collisions or for nothing
LEMMA CheckedStep ==
    ASSUME BookingInv, CollisionFirst, [Next]_vars
    PROVE  CollisionFirst'
<1>1. ASSUME \A i \in Rid : \/ checked'[i] \in {checked[i], {}}
                            \/ "collision" \in checked'[i]
      PROVE  CollisionFirst'
  BY <1>1 DEF CollisionFirst
<1>2. checked \in [Rid -> SUBSET Check]
  BY DEF BookingInv, TypeOK
<1>3. CASE UNCHANGED checked
  BY <1>1, <1>3
<1>4. ASSUME NEW i \in Rid, NEW r \in Resource, NEW p \in Period, SyncCreate(i, r, p)
      PROVE  CollisionFirst'
  BY <1>1, <1>2, <1>4 DEF SyncCreate
<1>5. ASSUME NEW w \in Worker, PostCommit(w) \/ PutCommit(w)
      PROVE  CollisionFirst'
  <2>1. PICK i \in Rid, p \in Period : Writes(w, i, p)
    BY <1>5, CommitWrites DEF BookingInv
  <2> QED
    BY <1>1, <2>1, PassedCollision DEF Writes
<1>6. ASSUME NEW w \in Worker, BulkCommit(w) \/ SyncSet(w)
      PROVE  CollisionFirst'
  <2>1. CASE BulkCommit(w)
    <3> DEFINE q == req[w]
    <3>1. PICK key :
          /\ \A i \in Rid : (~ \E p \in q.periods : key[p] = i) => res'[i] = res[i]
          /\ checked' = [i \in Rid |-> IF \E p \in q.periods : key[p] = i
                                       THEN {} ELSE checked[i]]
      BY <2>1 DEF BulkCommit
    <3>2. \A j \in Rid : checked'[j] \in {checked[j], {}}
      BY <3>1
    <3> QED
      BY <1>1, <3>2
  <2>2. CASE SyncSet(w)
    <3>1. PICK i : checked' = [checked EXCEPT ![i] = {}]
      BY <2>2 DEF SyncSet
    <3>2. \A j \in Rid : checked'[j] \in {checked[j], {}}
      BY <1>2, <3>1
    <3> QED
      BY <1>1, <3>2
  <2> QED
    BY <1>6, <2>1, <2>2
<1>7. ASSUME NEW w \in Worker, Arrive(w)
      PROVE  UNCHANGED checked
  <2>1. ASSUME NEW op, NEW l, NEW q, Start(w, op, l, q)
        PROVE  UNCHANGED checked
    BY <2>1 DEF Start
  <2>2. ASSUME NEW u \in User, NEW r \in Resource, NEW p \in Period, NEW o \in User,
               PostBegin(w, u, r, p, o)
        PROVE  UNCHANGED checked
    BY <2>1, <2>2 DEF PostBegin
  <2>3. ASSUME NEW u \in User, NEW i \in Rid, NEW r \in Resource, NEW p \in Period,
               NEW o \in User \cup {NoUser}, NEW s \in AskedStates \cup {Keep},
               PutBegin(w, u, i, r, p, o, s)
        PROVE  UNCHANGED checked
    BY <2>1, <2>3 DEF PutBegin
  <2>4. ASSUME NEW u \in User, NEW i \in Rid, DeleteBegin(w, u, i)
        PROVE  UNCHANGED checked
    BY <2>1, <2>4 DEF DeleteBegin
  <2>5. ASSUME NEW u \in User, NEW r \in Resource, NEW p \in Period,
               CancelRangeBegin(w, u, r, p)
        PROVE  UNCHANGED checked
    BY <2>1, <2>5 DEF CancelRangeBegin
  <2>6. ASSUME NEW u \in User, NEW r \in Resource, NEW ps \in SUBSET Period,
               BulkBegin(w, u, r, ps)
        PROVE  UNCHANGED checked
    BY <2>1, <2>6 DEF BulkBegin
  <2>7. ASSUME NEW i \in Rid, NEW p \in Period, SyncBegin(w, i, p)
        PROVE  UNCHANGED checked
    BY <2>1, <2>7 DEF SyncBegin
  <2> QED
    BY <1>7, <2>2, <2>3, <2>4, <2>5, <2>6, <2>7 DEF Arrive
<1>8. ASSUME NEW w \in Worker, Proceed(w)
      PROVE  CollisionFirst'
  <2>1. CASE PostValidate(w) \/ PutValidate(w) \/ PutReload(w) \/ CancelCommit(w) \/ SyncRemove(w)
    BY <1>3, <2>1 DEF PostValidate, PutValidate, PutReload, CancelCommit, SyncRemove
  <2> QED
    BY <1>5, <1>6, <1>8, <2>1 DEF Proceed
<1>9. CASE Tick \/ UNCHANGED vars
  BY <1>3, <1>9 DEF Tick, vars
<1> QED
  BY <1>3, <1>4, <1>7, <1>8, <1>9 DEF Next

-----------------------------------------------------------------------------
(* Each kind keeps the distance                                            *)

LEMMA QuietSpaced ==
    ASSUME BookingInv, TypeOK', Quiet, CollisionFirst', Spacing
    PROVE  Spacing'
<1>0. TypeOK
  BY DEF BookingInv
<1>1. StillSpaced'
  <2> SUFFICES ASSUME NEW w \in Worker, Critical(w)', Bound(w)', NEW p \in req'[w].periods,
                      NEW i \in Rid \ req'[w].target, InTheWay(i, req[w].resource)'
               PROVE  ~CooldownMeets(res'[i], p[1], p[2], Cooldown[req'[w].resource])
    BY DEF StillSpaced, CooldownMeets
  <2>1. /\ Critical(w) /\ req'[w].periods = req[w].periods /\ req'[w].target = req[w].target
        /\ req'[w].resource = req[w].resource /\ req'[w].by = req[w].by
    BY DEF Quiet
  <2>2. Bound(w)
    BY <2>1 DEF Bound, CooldownApplies
  <2>3. InTheWay(i, req[w].resource) /\ res'[i] = res[i]
    BY <1>0, <2>1, StillInForce DEF InTheWay
  <2> QED
    BY <2>1, <2>2, <2>3 DEF Spacing, StillSpaced
<1>2. CooldownKept'
  <2> SUFFICES ASSUME NEW i \in Rid, NEW j \in Rid, Rivals(i, j)',
                      "cooldown" \in checked'[i] \cap checked'[j]
               PROVE  \/ res'[i].end + Cooldown[res'[i].resource] <= res'[j].begin
                      \/ res'[j].end + Cooldown[res'[i].resource] <= res'[i].begin
    BY DEF CooldownKept
  <2>1. /\ Active(res[i]) /\ res'[i] = res[i] /\ checked'[i] = checked[i]
        /\ Active(res[j]) /\ res'[j] = res[j] /\ checked'[j] = checked[j]
    BY <1>0, StillInForce DEF Rivals, CollisionFirst
  <2>2. Rivals(i, j)
    BY <2>1 DEF Rivals
  <2> QED
    BY <2>1, <2>2 DEF Spacing, CooldownKept
<1> QED
  BY <1>1, <1>2 DEF Spacing

\* A request passes its validation as it is, and only if its periods are clean
LEMMA ValidatedRequest ==
    ASSUME BookingInv, NEW w \in Worker, PostValidate(w) \/ PutValidate(w)
    PROVE  /\ \A v \in Worker \ {w} : req'[v] = req[v] /\ Critical(v)' = Critical(v)
           /\ Critical(w)' =>
                 /\ req'[w] = req[w]
                 /\ \A p \in req[w].periods :
                       Clean(req[w].resource, p, req[w].by, req[w].target)
<1> DEFINE q == req[w]
<1>0. TypeOK /\ Targets
  BY DEF BookingInv
<1>2. PICK ok \in BOOLEAN, l \in {"creating", "validated"} :
         /\ Validated(w, ok, l)
         /\ ok => \A p \in q.periods : Clean(q.resource, p, q.by, q.target)
  <2>1. CASE PostValidate(w)
    <3>1. q.target = {}
      BY <1>0, <2>1 DEF Targets, PostValidate
    <3> DEFINE g == /\ WithinMax(q.resource, q.by)
                    /\ \A p \in q.periods : Clean(q.resource, p, q.by, {})
    <3>2. Validated(w, g, "creating") /\ g \in BOOLEAN
      BY <2>1 DEF PostValidate
    <3> QED
      BY <3>1, <3>2
  <2>2. CASE PutValidate(w)
    <3> DEFINE g == \A p \in q.periods : Clean(q.resource, p, q.by, q.target)
    <3>1. Validated(w, g, "validated") /\ g \in BOOLEAN
      BY <2>2 DEF PutValidate
    <3> QED
      BY <3>1
  <2> QED
    BY <2>1, <2>2
<1>3. /\ \A v \in Worker \ {w} : req'[v] = req[v] /\ Critical(v)' = Critical(v)
      /\ Critical(w)' => ok /\ req'[w] = q
  <2>1. CASE ok
    BY <1>0, <1>2, <2>1 DEF Validated, Become, Critical, TypeOK
  <2>2. CASE ~ok
    BY <1>0, <1>2, <2>2 DEF Validated, End, Critical, TypeOK
  <2> QED
    BY <2>1, <2>2
<1> QED
  BY <1>2, <1>3

\* A validation compares the period with every reservation in force
LEMMA ValidateSpaced ==
    ASSUME BookingInv, Spacing, NEW w \in Worker, PostValidate(w) \/ PutValidate(w)
    PROVE  Spacing'
<1> DEFINE q == req[w]
<1>1. UNCHANGED <<now, res, checked>>
  BY DEF PostValidate, PutValidate
<1>3. /\ \A v \in Worker \ {w} : req'[v] = req[v] /\ Critical(v)' = Critical(v)
      /\ Critical(w)' => /\ req'[w] = q
                         /\ \A p \in q.periods : Clean(q.resource, p, q.by, q.target)
  BY ValidatedRequest
<1>4. StillSpaced'
  <2> SUFFICES ASSUME NEW v \in Worker, Critical(v)', Bound(v)', NEW p \in req'[v].periods,
                      NEW i \in Rid \ req'[v].target, InTheWay(i, req[v].resource)'
               PROVE  ~CooldownMeets(res[i], p[1], p[2], Cooldown[req'[v].resource])
    BY <1>1 DEF StillSpaced, CooldownMeets
  <2>1. req'[v] = req[v]
    BY <1>3
  <2>2. Bound(v) /\ InTheWay(i, req[v].resource)
    BY <1>1, <2>1 DEF Bound, CooldownApplies, InTheWay, Active, Current
  <2>3. CASE v = w
    <3>1. p \in q.periods /\ i \in Rid \ q.target
      BY <2>1, <2>3
    <3>2. CooldownFree(q.resource, p[1], p[2], q.target)
      BY <1>3, <2>2, <2>3, <3>1 DEF Clean, Bound
    <3> QED
      BY <2>1, <2>2, <2>3, <3>1, <3>2 DEF CooldownFree, InTheWay
  <2>4. CASE v # w
    BY <1>3, <2>1, <2>2, <2>4 DEF Spacing, StillSpaced
  <2> QED
    BY <2>3, <2>4
<1>5. CooldownKept'
  BY <1>1 DEF Spacing, CooldownKept, Rivals, Active, Current
<1> QED
  BY <1>4, <1>5 DEF Spacing

\* A write keeps its distance from what was there, and no other request of the resource
\* is past its validation
LEMMA WriteSpaced ==
    ASSUME BookingInv, TypeOK', CollisionFirst', Spacing, NEW w \in Worker,
           NEW i \in Rid, NEW p \in Period, Writes(w, i, p)
    PROVE  Spacing'
<1> DEFINE q == req[w]
<1>0. TypeOK
  BY DEF BookingInv
<1>1. \A v \in Worker : Critical(v)' => Critical(v) /\ v # w /\ req'[v] = req[v]
  BY <1>0 DEF Writes, End, Critical, TypeOK
<1>2. StillSpaced'
  <2> SUFFICES ASSUME NEW v \in Worker, Critical(v)', Bound(v)', NEW o \in req[v].periods,
                      NEW j \in Rid \ req[v].target,
                      res'[j].resource = req[v].resource,
                      Active(res[j])', "collision" \in checked'[j]
               PROVE  ~CooldownMeets(res'[j], o[1], o[2], Cooldown[req[v].resource])
    BY <1>1 DEF StillSpaced, InTheWay, CooldownMeets
  <2>1. Bound(v)
    BY <1>1 DEF Bound, CooldownApplies
  <2>2. req[v].resource # q.resource
    BY <1>1 DEF Writes, BookingInv, OneCritical
  <2>3. res'[j] = res[j] /\ checked'[j] = checked[j] /\ now' = now
    BY <2>2 DEF Writes
  <2>4. InTheWay(j, req[v].resource)
    BY <2>3 DEF InTheWay, Active, Current
  <2> QED
    BY <1>1, <2>1, <2>3, <2>4 DEF Spacing, StillSpaced
<1>3. CooldownKept'
  <2>1. ASSUME NEW j \in Rid \ {i}, res'[j].resource = res'[i].resource,
               Active(res[j])', "cooldown" \in checked'[i] \cap checked'[j]
        PROVE  \/ res'[i].end + Cooldown[res'[i].resource] <= res'[j].begin
               \/ res'[j].end + Cooldown[res'[i].resource] <= res'[i].begin
    <3>1. res'[j] = res[j] /\ checked'[j] = checked[j] /\ now' = now
      BY DEF Writes
    <3>2. /\ InTheWay(j, q.resource) /\ j \notin q.target
          /\ Critical(w) /\ p \in q.periods
      BY <2>1, <3>1 DEF InTheWay, Active, Current, Writes, CollisionFirst
    <3>3. Bound(w)
      BY <2>1, PassedCollision DEF Bound, Writes
    <3>4. ~Meets(res[j], p[1], p[2])
      BY <3>2 DEF BookingInv, StillClear
    <3>5. ~CooldownMeets(res[j], p[1], p[2], Cooldown[q.resource])
      BY <3>2, <3>3 DEF Spacing, StillSpaced
    <3>6. res[j].begin \in Nat /\ res[j].end \in Nat
      BY <1>0 DEF TypeOK, Row
    <3> p[1] \in Nat /\ p[2] \in Nat /\ p[1] < p[2]
      BY BookingAssumption
    <3> q.resource \in Resource
      BY <1>0 DEF TypeOK, Request
    <3> Cooldown[q.resource] \in Nat /\ Cooldown[q.resource] > 0
      BY <3>3, BookingAssumption DEF Bound, CooldownApplies
    <3>7. \/ res[j].end + Cooldown[q.resource] <= p[1]
          \/ p[2] + Cooldown[q.resource] <= res[j].begin
      BY <3>4, <3>5, <3>6, FarApart
    <3> QED
      BY <3>1, <3>7 DEF Writes
  <2> SUFFICES ASSUME NEW j \in Rid, NEW k \in Rid, Rivals(j, k)',
                      "cooldown" \in checked'[j] \cap checked'[k]
               PROVE  \/ res'[j].end + Cooldown[res'[j].resource] <= res'[k].begin
                      \/ res'[k].end + Cooldown[res'[j].resource] <= res'[j].begin
    BY DEF CooldownKept
  <2>2. CASE j = i
    BY <2>1, <2>2 DEF Rivals
  <2>3. CASE k = i
    BY <2>1, <2>3 DEF Rivals
  <2>4. CASE j # i /\ k # i
    <3>1. /\ res'[j] = res[j] /\ checked'[j] = checked[j]
          /\ res'[k] = res[k] /\ checked'[k] = checked[k] /\ now' = now
      BY <2>4 DEF Writes
    <3>2. Rivals(j, k)
      BY <3>1 DEF Rivals, Active, Current
    <3> QED
      BY <3>1, <3>2 DEF Spacing, CooldownKept
  <2> QED
    BY <2>2, <2>3, <2>4
<1> QED
  BY <1>2, <1>3 DEF Spacing

-----------------------------------------------------------------------------
(* The theorem                                                             *)

LEMMA SpacingInit == Init => SpacingInv
<1> SUFFICES ASSUME Init PROVE SpacingInv
  OBVIOUS
<1>1. BookingInv
  BY InvInit
<1>2. (\A i \in Rid : checked[i] = {}) /\ \A w \in Worker : pc[w] = "idle"
  BY DEF Init
<1> QED
  BY <1>1, <1>2 DEF SpacingInv, CollisionFirst, Spacing, StillSpaced, CooldownKept, Critical

LEMMA SpacingStep == SpacingInv /\ [Next]_vars => SpacingInv'
<1> SUFFICES ASSUME SpacingInv, [Next]_vars PROVE SpacingInv'
  OBVIOUS
<1>1. BookingInv /\ BookingInv' /\ CollisionFirst' /\ Spacing /\ TypeOK'
  <2>1. BookingInv /\ BookingInv' /\ CollisionFirst' /\ Spacing
    BY InvStep, CheckedStep DEF SpacingInv
  <2> QED
    BY <2>1 DEF BookingInv
<1>2. Spacing'
  BY <1>1, StepKinds, QuietSpaced, ValidateSpaced, WriteSpaced
<1> QED
  BY <1>1, <1>2 DEF SpacingInv

\* The cooldown is kept whatever requests overlap, whoever else writes rows, and however
\* often a reservation is moved, although the query of check_cooldown_collision alone
\* overlooks some conflicts.
THEOREM CooldownAlwaysKept == Spec => []CooldownKept
<1>1. SpacingInv => CooldownKept
  BY DEF SpacingInv, Spacing
<1> QED
  BY <1>1, SpacingInit, SpacingStep, PTL DEF Spec

-----------------------------------------------------------------------------
(***************************************************************************)
(* The rule about overlaps in a unit: kept by one process, for any number  *)
(* of resources, units, users and rows.  (The run booking_unit shows two   *)
(* workers that break it.)                                                 *)
(***************************************************************************)
OneAtATime == \A v, w \in Worker : v = w

\* The request of worker w has to keep to itself in its unit, whoever it is for
Ruled(w) ==
    /\ UnitRuleApplies(req[w].resource, req[w].by)
    /\ UnitOf[req[w].resource] \notin PerUser

\* Row i stands in the way of such requests in the unit n
InUnit(i, n) == UnitOf[res[i].resource] = n /\ Active(res[i]) /\ "unit" \in checked[i]

\* What such a request found clear of its period, in all resources of the unit, still is
StillAlone ==
    \A w \in Worker : Critical(w) /\ Ruled(w) =>
        \A p \in req[w].periods : \A i \in Rid \ req[w].target :
            InUnit(i, UnitOf[req[w].resource]) => ~Meets(res[i], p[1], p[2])

UnitRule == StillAlone /\ NoOverlapInUnit

UnitInv == BookingInv /\ CollisionFirst /\ UnitRule

-----------------------------------------------------------------------------
\* The four alternatives of the unit-wide query are the two comparisons of the resource's
LEMMA FourAlternatives ==
    ASSUME NEW x \in Nat, NEW y \in Nat, NEW b \in Nat, NEW e \in Nat,
           NEW row, row.begin = x, row.end = y, b < e
    PROVE  /\ Meets(row, b, e) => UnitMeets(row, b, e)
           /\ x < y => (UnitMeets(row, b, e) => Meets(row, b, e))
BY DEF Meets, UnitMeets

LEMMA PassedUnit ==
    ASSUME NEW r, NEW u, "unit" \in ChecksPassed(r, u)
    PROVE  UnitRuleApplies(r, u)
BY DEF ChecksPassed, Check

-----------------------------------------------------------------------------
(* Each kind of step keeps the rule                                        *)

LEMMA QuietUnit ==
    ASSUME BookingInv, TypeOK', Quiet, CollisionFirst', UnitRule
    PROVE  UnitRule'
<1>0. TypeOK
  BY DEF BookingInv
<1>1. ASSUME NEW i \in Rid, Active(res[i])', "unit" \in checked'[i]
      PROVE  Active(res[i]) /\ res'[i] = res[i] /\ checked'[i] = checked[i]
  BY <1>0, <1>1, StillInForce DEF CollisionFirst
<1>2. StillAlone'
  <2> SUFFICES ASSUME NEW w \in Worker, Critical(w)', Ruled(w)', NEW p \in req'[w].periods,
                      NEW i \in Rid \ req'[w].target, InUnit(i, UnitOf[req[w].resource])'
               PROVE  ~Meets(res'[i], p[1], p[2])
    BY DEF StillAlone, Meets
  <2>1. /\ Critical(w) /\ req'[w].periods = req[w].periods /\ req'[w].target = req[w].target
        /\ req'[w].resource = req[w].resource /\ req'[w].by = req[w].by
    BY DEF Quiet
  <2>2. Ruled(w)
    BY <2>1 DEF Ruled, UnitRuleApplies
  <2>3. InUnit(i, UnitOf[req[w].resource]) /\ res'[i] = res[i]
    BY <1>1, <2>1 DEF InUnit
  <2> QED
    BY <2>1, <2>2, <2>3 DEF UnitRule, StillAlone
<1>3. NoOverlapInUnit'
  <2> SUFFICES ASSUME NEW i \in Rid, NEW j \in Rid, i # j, Active(res[i])', Active(res[j])',
                      UnitOf[res'[i].resource] = UnitOf[res'[j].resource],
                      UnitOf[res'[i].resource] \in Exclusive \ PerUser,
                      "unit" \in checked'[i] \cap checked'[j]
               PROVE  ~Overlap(res'[i], res'[j])
    BY DEF NoOverlapInUnit, Overlap
  <2>1. /\ Active(res[i]) /\ res'[i] = res[i] /\ checked'[i] = checked[i]
        /\ Active(res[j]) /\ res'[j] = res[j] /\ checked'[j] = checked[j]
    BY <1>1
  <2> QED
    BY <2>1 DEF UnitRule, NoOverlapInUnit
<1> QED
  BY <1>2, <1>3 DEF UnitRule

\* A validation compares the period with every reservation in the unit
LEMMA ValidateUnit ==
    ASSUME BookingInv, UnitRule, NEW w \in Worker, PostValidate(w) \/ PutValidate(w)
    PROVE  UnitRule'
<1> DEFINE q == req[w]
<1>0. TypeOK
  BY DEF BookingInv
<1>1. UNCHANGED <<now, res, checked>>
  BY DEF PostValidate, PutValidate
<1>2. /\ \A v \in Worker \ {w} : req'[v] = req[v] /\ Critical(v)' = Critical(v)
      /\ Critical(w)' => /\ req'[w] = q
                         /\ \A p \in q.periods : Clean(q.resource, p, q.by, q.target)
  BY ValidatedRequest
<1>3. StillAlone'
  <2> SUFFICES ASSUME NEW v \in Worker, Critical(v)', Ruled(v)', NEW p \in req'[v].periods,
                      NEW i \in Rid \ req'[v].target, InUnit(i, UnitOf[req[v].resource])'
               PROVE  ~Meets(res[i], p[1], p[2])
    BY <1>1 DEF StillAlone, Meets
  <2>1. req'[v] = req[v]
    BY <1>2
  <2>2. Ruled(v) /\ InUnit(i, UnitOf[req[v].resource])
    BY <1>1, <2>1 DEF Ruled, UnitRuleApplies, InUnit, Active, Current
  <2>3. CASE v = w
    <3>1. p \in q.periods /\ i \in Rid \ q.target
      BY <2>1, <2>3
    <3>2. UnitFree(q.resource, p[1], p[2], q.by, q.target)
      BY <1>2, <2>3, <3>1 DEF Clean
    <3>3. ~UnitMeets(res[i], p[1], p[2])
      BY <2>2, <2>3, <3>1, <3>2 DEF UnitFree, Ruled, InUnit, Active, Current
    <3>4. res[i].begin \in Nat /\ res[i].end \in Nat /\ p \in Period
      BY <1>0, <3>1 DEF TypeOK, Row, Request
    <3>5. p[1] \in Nat /\ p[2] \in Nat /\ p[1] < p[2]
      BY <3>4, BookingAssumption
    <3> QED
      BY <3>3, <3>4, <3>5, FourAlternatives
  <2>4. CASE v # w
    BY <1>2, <2>1, <2>2, <2>4 DEF UnitRule, StillAlone
  <2> QED
    BY <2>3, <2>4
<1>4. NoOverlapInUnit'
  BY <1>1 DEF UnitRule, NoOverlapInUnit, Active, Current
<1> QED
  BY <1>3, <1>4 DEF UnitRule

\* A write keeps clear of what was in the unit; there is no other request to care about it
LEMMA WriteUnit ==
    ASSUME OneAtATime, BookingInv, TypeOK', CollisionFirst', UnitRule, NEW w \in Worker,
           NEW i \in Rid, NEW p \in Period, Writes(w, i, p)
    PROVE  UnitRule'
<1> DEFINE q == req[w]
<1>0. TypeOK
  BY DEF BookingInv
<1>1. \A v \in Worker : ~Critical(v)'
  BY <1>0 DEF Writes, End, Critical, TypeOK, OneAtATime
<1>2. StillAlone'
  BY <1>1 DEF StillAlone
<1>3. ASSUME NEW j \in Rid \ {i}, Active(res[j])',
             UnitOf[res'[j].resource] = UnitOf[res'[i].resource],
             UnitOf[res'[i].resource] \in Exclusive \ PerUser,
             "unit" \in checked'[i] \cap checked'[j]
      PROVE  ~Overlap(res'[i], res'[j]) /\ ~Overlap(res'[j], res'[i])
  <2>1. res'[j] = res[j] /\ checked'[j] = checked[j] /\ now' = now
    BY DEF Writes
  <2>2. Critical(w) /\ p \in q.periods /\ j \in Rid \ q.target
    BY DEF Writes
  <2>3. UnitRuleApplies(q.resource, q.by)
    BY <1>3, PassedUnit DEF Writes
  <2>4. Ruled(w) /\ InUnit(j, UnitOf[q.resource])
    BY <1>3, <2>1, <2>3 DEF Writes, Ruled, InUnit, Active, Current
  <2>5. ~Meets(res[j], p[1], p[2])
    BY <2>2, <2>4 DEF UnitRule, StillAlone
  <2> QED
    BY <2>1, <2>5 DEF Meets, Overlap, Writes
<1>4. NoOverlapInUnit'
  <2> SUFFICES ASSUME NEW j \in Rid, NEW k \in Rid, j # k, Active(res[j])', Active(res[k])',
                      UnitOf[res'[j].resource] = UnitOf[res'[k].resource],
                      UnitOf[res'[j].resource] \in Exclusive \ PerUser,
                      "unit" \in checked'[j] \cap checked'[k]
               PROVE  ~Overlap(res'[j], res'[k])
    BY DEF NoOverlapInUnit, Overlap
  <2>1. CASE j = i
    BY <1>3, <2>1
  <2>2. CASE k = i
    BY <1>3, <2>2
  <2>3. CASE j # i /\ k # i
    <3>1. /\ res'[j] = res[j] /\ checked'[j] = checked[j]
          /\ res'[k] = res[k] /\ checked'[k] = checked[k] /\ now' = now
      BY <2>3 DEF Writes
    <3>2. Active(res[j]) /\ Active(res[k])
      BY <3>1 DEF Active, Current
    <3> QED
      BY <3>1, <3>2 DEF UnitRule, NoOverlapInUnit
  <2> QED
    BY <2>1, <2>2, <2>3
<1> QED
  BY <1>2, <1>4 DEF UnitRule

-----------------------------------------------------------------------------
LEMMA UnitInit == Init => UnitInv
<1> SUFFICES ASSUME Init PROVE UnitInv
  OBVIOUS
<1>1. BookingInv
  BY InvInit
<1>2. (\A i \in Rid : checked[i] = {}) /\ \A w \in Worker : pc[w] = "idle"
  BY DEF Init
<1> QED
  BY <1>1, <1>2 DEF UnitInv, CollisionFirst, UnitRule, StillAlone, NoOverlapInUnit, Critical

LEMMA UnitStep == OneAtATime /\ UnitInv /\ [Next]_vars => UnitInv'
<1> SUFFICES ASSUME OneAtATime, UnitInv, [Next]_vars PROVE UnitInv'
  OBVIOUS
<1>1. BookingInv /\ BookingInv' /\ CollisionFirst' /\ UnitRule /\ TypeOK'
  <2>1. BookingInv /\ BookingInv' /\ CollisionFirst' /\ UnitRule
    BY InvStep, CheckedStep DEF UnitInv
  <2> QED
    BY <2>1 DEF BookingInv
<1>2. UnitRule'
  BY <1>1, StepKinds, QuietUnit, ValidateUnit, WriteUnit
<1> QED
  BY <1>1, <1>2 DEF UnitInv

\* One process keeps the rule of disallow_overlapping_reservations in all resources of a
\* unit, whatever is moved from one to another and whatever is written without a check: the
\* query of Reservation.clean misses no reservation in force.  So what breaks it is that
\* requests for other resources of the unit do not wait.
THEOREM UnitRuleKeptSerially == OneAtATime => (Spec => []NoOverlapInUnit)
<1> SUFFICES ASSUME OneAtATime PROVE Spec => []NoOverlapInUnit
  OBVIOUS
<1>1. UnitInv /\ [Next]_vars => UnitInv'
  BY UnitStep
<1>2. UnitInv => NoOverlapInUnit
  BY DEF UnitInv, UnitRule
<1> QED
  BY <1>1, <1>2, UnitInit, PTL DEF Spec


-----------------------------------------------------------------------------
(***************************************************************************)
(* What requests rely on between their steps: decisions that an update     *)
(* leaves alone, and the place that a creation has found under the limit.  *)
(***************************************************************************)

\* No worker holds a row for the calendar synchronisation
NobodySyncs == \A w \in Worker : pc[w] # "to_sync"

\* Requests work on rows that are there
RowsThere == \A w \in Worker : \A i \in req[w].target : res[i].state # Absent

\* An update that has read its row again finds it in that state when it commits, or
\* cancelled, or in another resource
Settled(w, i) ==
    pc[w] = "reloaded" /\ i \in req[w].target /\ res[i].resource = req[w].resource =>
        \/ res[i].state = CANCELLED
        \/ /\ res[i].state = req[w].old
           /\ (res[i].resource \in NeedManual /\ res[i].state = CONFIRMED)
                => Can(req[w].by, "approve")

\* Synchronisation writes rows without the lock, from copies of any age
Decided ==
    "sync" \notin Ops =>
        NobodySyncs /\ RowsThere /\ \A w \in Worker, i \in Rid : Settled(w, i)

DecisionInv == BookingInv /\ Decided

\* The reservations that count against the limit and were made under it
Counted(r, u) == {i \in ActiveOf(r, u) : checked[i] # {}}

\* A creation past its validation still has a place
PlaceLeft ==
    \A w \in Worker : pc[w] = "creating" /\ ~Can(req[w].by, "ignore_max") =>
        Cardinality(Counted(req[w].resource, req[w].by)) < MaxReservations[req[w].resource]

PlaceInv == BookingInv /\ CollisionFirst /\ PlaceLeft

-----------------------------------------------------------------------------
(* What a step does to one request                                         *)

\* The request of w is left alone, ends, passes its validation, reads its row again or arrives
Moves(w) ==
    \/ pc'[w] = pc[w] /\ req'[w] = req[w]
    \/ pc'[w] = "idle" /\ req'[w].target = {} /\ (pc[w] = "reloaded" => PutCommit(w))
    \/ /\ pc'[w] \in {"creating", "validated"} /\ req'[w] = req[w]
       /\ pc'[w] = "creating" => PostValidate(w)
    \/ /\ PutReload(w) /\ pc'[w] = "reloaded" /\ UNCHANGED res
       /\ \E i \in req[w].target : /\ MayModify(i, req[w].by)
                                   /\ req'[w] = [req[w] EXCEPT !.old = res[i].state]
    \/ /\ pc'[w] \in {"to_create", "to_update", "to_cancel", "to_bulk", "to_sync"}
       /\ pc'[w] = "to_sync" => "sync" \in Ops
       /\ UNCHANGED res
       /\ \A i \in req'[w].target : res[i].state # Absent

LEMMA NoTarget == NoRequest.target = {}
BY DEF NoRequest

LEMMA OthersStay ==
    ASSUME TypeOK, NEW v \in Worker, NEW w \in Worker, v # w, NEW l, NEW q,
           Become(v, l, q) \/ End(v)
    PROVE  pc'[w] = pc[w] /\ req'[w] = req[w]
BY DEF TypeOK, Become, End

LEMMA ArriveMoves ==
    ASSUME TypeOK, NEW w \in Worker, Arrive(w)
    PROVE  Moves(w) /\ \A v \in Worker \ {w} : Moves(v)
<1>1. ASSUME NEW op, NEW l, NEW q, Start(w, op, l, q),
             l \in {"to_create", "to_update", "to_cancel", "to_bulk", "to_sync"},
             l = "to_sync" => op = "sync",
             \A i \in q.target : res[i].state # Absent
      PROVE  Moves(w) /\ \A v \in Worker \ {w} : Moves(v)
  <2>1. Become(w, l, q) /\ op \in Ops /\ UNCHANGED res
    BY <1>1 DEF Start
  <2>2. pc'[w] = l /\ req'[w] = q
    BY <2>1 DEF Become, TypeOK
  <2>3. \A v \in Worker \ {w} : pc'[v] = pc[v] /\ req'[v] = req[v]
    BY <2>1, OthersStay
  <2> QED
    BY <1>1, <2>1, <2>2, <2>3 DEF Moves
<1>2. \A i \in Rid : \A u : MayModify(i, u) => res[i].state # Absent
  BY DEF MayModify, Visible, CONFIRMED, REQUESTED, WAITING_FOR_PAYMENT, Absent
<1>3. ASSUME NEW u \in User, NEW r \in Resource, NEW p \in Period, NEW o \in User,
             PostBegin(w, u, r, p, o)
      PROVE  Moves(w) /\ \A v \in Worker \ {w} : Moves(v)
  <2> DEFINE q == [NoRequest EXCEPT !.by = u, !.resource = r, !.periods = {p}, !.user = o]
  <2>1. Start(w, "post", "to_create", q)
    BY <1>3 DEF PostBegin
  <2>2. q.target = {}
    BY DEF NoRequest
  <2> HIDE DEF q
  <2> QED
    BY <1>1, <2>1, <2>2
<1>4. ASSUME NEW u \in User, NEW i \in Rid, NEW r \in Resource, NEW p \in Period,
             NEW o \in User \cup {NoUser}, NEW s \in AskedStates \cup {Keep},
             PutBegin(w, u, i, r, p, o, s)
      PROVE  Moves(w) /\ \A v \in Worker \ {w} : Moves(v)
  <2> DEFINE q == [NoRequest EXCEPT !.by = u, !.resource = r, !.periods = {p}, !.user = o,
                                    !.target = {i}, !.state = s, !.copy[i] = res[i]]
  <2>1. Start(w, "put", "to_update", q) /\ MayModify(i, u)
    BY <1>4 DEF PutBegin
  <2>2. q.target = {i}
    BY DEF NoRequest
  <2> HIDE DEF q
  <2> QED
    BY <1>1, <1>2, <2>1, <2>2
<1>5. ASSUME NEW u \in User, NEW i \in Rid, DeleteBegin(w, u, i)
      PROVE  Moves(w) /\ \A v \in Worker \ {w} : Moves(v)
  <2> DEFINE q == [NoRequest EXCEPT !.by = u, !.target = {i}, !.copy[i] = res[i]]
  <2>1. Start(w, "cancel", "to_cancel", q) /\ MayModify(i, u)
    BY <1>5 DEF DeleteBegin
  <2>2. q.target = {i}
    BY DEF NoRequest
  <2> HIDE DEF q
  <2> QED
    BY <1>1, <1>2, <2>1, <2>2
<1>6. ASSUME NEW u \in User, NEW r \in Resource, NEW p \in Period,
             CancelRangeBegin(w, u, r, p)
      PROVE  Moves(w) /\ \A v \in Worker \ {w} : Moves(v)
  <2> DEFINE found == {i \in Rid : /\ res[i].resource = r
                                   /\ res[i].begin >= p[1] /\ res[i].end <= p[2]
                                   /\ res[i].state \notin {Absent, CANCELLED}}
             q == [NoRequest EXCEPT !.by = u, !.target = found,
                       !.copy = [i \in Rid |-> IF i \in found THEN res[i] ELSE NoRow]]
  <2>1. Start(w, "cancel", "to_cancel", q)
    BY <1>6 DEF CancelRangeBegin
  <2>2. q.target = found
    BY DEF NoRequest
  <2>3. \A i \in q.target : res[i].state # Absent
    BY <2>2
  <2> HIDE DEF q
  <2> QED
    BY <1>1, <2>1, <2>3
<1>7. ASSUME NEW u \in User, NEW r \in Resource, NEW ps \in SUBSET Period,
             BulkBegin(w, u, r, ps)
      PROVE  Moves(w) /\ \A v \in Worker \ {w} : Moves(v)
  <2> DEFINE q == [NoRequest EXCEPT !.by = u, !.resource = r, !.periods = ps, !.user = u]
  <2>1. Start(w, "bulk", "to_bulk", q)
    BY <1>7 DEF BulkBegin
  <2>2. q.target = {}
    BY DEF NoRequest
  <2> HIDE DEF q
  <2> QED
    BY <1>1, <2>1, <2>2
<1>8. ASSUME NEW i \in Rid, NEW p \in Period, SyncBegin(w, i, p)
      PROVE  Moves(w) /\ \A v \in Worker \ {w} : Moves(v)
  <2> DEFINE q == [NoRequest EXCEPT !.target = {i}, !.periods = {p}, !.copy[i] = res[i]]
  <2>1. Start(w, "sync", "to_sync", q) /\ res[i].state # Absent
    BY <1>8 DEF SyncBegin
  <2>2. q.target = {i}
    BY DEF NoRequest
  <2> HIDE DEF q
  <2> QED
    BY <1>1, <2>1, <2>2
<1> QED
  BY <1>3, <1>4, <1>5, <1>6, <1>7, <1>8 DEF Arrive

LEMMA ProceedMoves ==
    ASSUME TypeOK, NEW w \in Worker, Proceed(w)
    PROVE  Moves(w) /\ \A v \in Worker \ {w} : Moves(v)
<1>1. ASSUME End(w), pc[w] = "reloaded" => PutCommit(w)
      PROVE  Moves(w) /\ \A v \in Worker \ {w} : Moves(v)
  <2>1. pc'[w] = "idle" /\ req'[w].target = {}
    BY <1>1, NoTarget DEF End, TypeOK
  <2>2. \A v \in Worker \ {w} : pc'[v] = pc[v] /\ req'[v] = req[v]
    BY <1>1, OthersStay
  <2> QED
    BY <1>1, <2>1, <2>2 DEF Moves
<1>2. CASE PostValidate(w) \/ PutValidate(w)
  <2>1. PICK l \in {"creating", "validated"} :
           /\ Become(w, l, req[w]) \/ End(w)
           /\ l = "creating" => PostValidate(w)
    BY <1>2 DEF PostValidate, PutValidate, Validated
  <2>2. CASE End(w)
    BY <1>1, <1>2, <2>2 DEF PostValidate, PutValidate
  <2>3. CASE Become(w, l, req[w])
    <3>1. pc'[w] = l /\ req'[w] = req[w]
      BY <2>3 DEF Become, TypeOK
    <3>2. \A v \in Worker \ {w} : pc'[v] = pc[v] /\ req'[v] = req[v]
      BY <2>3, OthersStay
    <3> QED
      BY <2>1, <3>1, <3>2 DEF Moves
  <2> QED
    BY <2>1, <2>2, <2>3
<1>3. CASE PutReload(w)
  <2>1. PICK i \in req[w].target :
           IF MayModify(i, req[w].by)
           THEN Become(w, "reloaded", [req[w] EXCEPT !.old = Reread(req[w], i).state])
           ELSE End(w)
    BY <1>3 DEF PutReload
  <2>2. CASE ~MayModify(i, req[w].by)
    BY <1>1, <1>3, <2>1, <2>2 DEF PutReload
  <2>3. CASE MayModify(i, req[w].by)
    <3>1. Become(w, "reloaded", [req[w] EXCEPT !.old = res[i].state])
      BY <2>1, <2>3 DEF Reread
    <3>2. pc'[w] = "reloaded" /\ req'[w] = [req[w] EXCEPT !.old = res[i].state]
      BY <3>1 DEF Become, TypeOK
    <3>3. \A v \in Worker \ {w} : pc'[v] = pc[v] /\ req'[v] = req[v]
      BY <3>1, OthersStay
    <3>4. UNCHANGED res
      BY <1>3 DEF PutReload
    <3> QED
      BY <1>3, <2>3, <3>2, <3>3, <3>4 DEF Moves
  <2> QED
    BY <2>2, <2>3
<1>4. CASE PostCommit(w) \/ PutCommit(w) \/ CancelCommit(w) \/ BulkCommit(w)
           \/ SyncSet(w) \/ SyncRemove(w)
  <2>1. End(w) /\ (pc[w] = "reloaded" => PutCommit(w))
    BY <1>4 DEF PostCommit, PutCommit, CancelCommit, BulkCommit, SyncSet, SyncRemove
  <2> QED
    BY <1>1, <2>1
<1> QED
  BY <1>2, <1>3, <1>4 DEF Proceed

\* Every step does one of these five things to a request
LEMMA StepMoves ==
    ASSUME TypeOK, [Next]_vars, NEW w \in Worker
    PROVE  Moves(w)
<1>1. CASE UNCHANGED <<pc, req>>
  BY <1>1 DEF Moves
<1>2. CASE \E v \in Worker : Arrive(v) \/ Proceed(v)
  BY <1>2, ArriveMoves, ProceedMoves
<1> QED
  BY <1>1, <1>2 DEF Next, Tick, SyncCreate, vars

-----------------------------------------------------------------------------
(* What a step does to one row, if nothing is synchronised                 *)

\* Row i is left alone, cancelled, inserted, or updated under the lock of its new resource
Changes(i) ==
    /\ res'[i].state = Absent => res[i].state = Absent
    /\ \/ res'[i] = res[i]
       \/ res'[i].state = CANCELLED
       \/ res[i].state = Absent
       \/ \E v \in Worker : PutCommit(v) /\ res'[i].resource = req[v].resource

LEMMA StateNames ==
    ASSUME NEW s \in State
    PROVE  s # Absent /\ CANCELLED # Absent /\ CONFIRMED # Absent /\ REQUESTED # Absent
           /\ CANCELLED # CONFIRMED
BY DEF State, Absent, CONFIRMED, REQUESTED, DENIED, CANCELLED, WAITING_FOR_PAYMENT

LEMMA CommitChanges ==
    ASSUME TypeOK, NobodySyncs, NEW w \in Worker,
           \/ PostCommit(w) \/ PutCommit(w) \/ CancelCommit(w) \/ BulkCommit(w)
           \/ SyncSet(w) \/ SyncRemove(w),
           NEW i \in Rid
    PROVE  Changes(i)
<1> DEFINE q == req[w]
<1>q. /\ q.target \subseteq Rid /\ q.copy \in [Rid -> Row] /\ q.old \in State
      /\ q.state \in State \cup {Keep}
  BY DEF TypeOK, Request
<1>r. DOMAIN res = Rid
  BY DEF TypeOK
<1>0. CASE res'[i] = res[i]
  BY <1>0 DEF Changes
<1>1. CASE PostCommit(w)
  <2>1. PICK k \in FreeRids, p \in q.periods :
           res' = [res EXCEPT ![k] =
             [resource |-> q.resource, user |-> q.user, begin |-> p[1], end |-> p[2],
              state |-> NewState(q.resource, q.by)]]
    BY <1>1 DEF PostCommit
  <2>2. CASE i = k
    <3>1. res[i].state = Absent /\ res'[i].state = NewState(q.resource, q.by)
      BY <1>r, <2>1, <2>2 DEF FreeRids
    <3> QED
      BY <3>1, StateNames DEF Changes
  <2>3. CASE i # k
    BY <1>0, <1>r, <2>1, <2>3
  <2> QED
    BY <2>2, <2>3
<1>2. CASE PutCommit(w)
  <2>1. PICK k \in q.target, p \in q.periods :
           res' = [res EXCEPT ![k] =
             [q.copy[k] EXCEPT !.resource = q.resource, !.user = q.user,
                               !.begin = p[1], !.end = p[2], !.state = FinalState(q)]]
    BY <1>2 DEF PutCommit
  <2>2. CASE i = k
    <3>1. q.copy[i] \in Row
      BY <1>q
    <3>2. res'[i].state = FinalState(q) /\ res'[i].resource = q.resource
      BY <1>r, <2>1, <2>2, <3>1 DEF Row
    <3>3. FinalState(q) \in State
      BY <1>q DEF FinalState
    <3>4. res'[i].state # Absent
      BY <3>2, <3>3, StateNames
    <3> QED
      BY <1>2, <3>2, <3>4 DEF Changes
  <2>3. CASE i # k
    BY <1>0, <1>r, <2>1, <2>3
  <2> QED
    BY <2>2, <2>3
<1>3. CASE CancelCommit(w)
  <2>1. CASE i \in q.target
    <3>1. q.copy[i] \in Row
      BY <1>q
    <3>2. res'[i] = [q.copy[i] EXCEPT !.state = CANCELLED]
      BY <1>3, <2>1 DEF CancelCommit
    <3>3. res'[i].state = CANCELLED
      BY <3>1, <3>2 DEF Row
    <3> QED
      BY <3>3, StateNames DEF Changes, State
  <2>2. CASE i \notin q.target
    BY <1>0, <1>3, <2>2 DEF CancelCommit
  <2> QED
    BY <2>1, <2>2
<1>4. CASE BulkCommit(w)
  <2>1. PICK key \in [q.periods -> FreeRids] :
           res' = [j \in Rid |->
             IF \E p \in q.periods : key[p] = j
             THEN LET p == CHOOSE p \in q.periods : key[p] = j
                  IN  [resource |-> q.resource, user |-> q.user,
                       begin |-> p[1], end |-> p[2], state |-> CONFIRMED]
             ELSE res[j]]
    BY <1>4 DEF BulkCommit
  <2>2. CASE \E p \in q.periods : key[p] = i
    <3>1. res[i].state = Absent
      BY <2>1, <2>2 DEF FreeRids
    <3>2. res'[i].state = CONFIRMED
      BY <2>1, <2>2
    <3> QED
      BY <3>1, <3>2 DEF Changes
  <2>3. CASE ~ \E p \in q.periods : key[p] = i
    BY <1>0, <2>1, <2>3
  <2> QED
    BY <2>2, <2>3
<1>5. CASE SyncSet(w) \/ SyncRemove(w)
  BY <1>5 DEF SyncSet, SyncRemove, NobodySyncs
<1> QED
  BY <1>1, <1>2, <1>3, <1>4, <1>5

LEMMA StepChanges ==
    ASSUME TypeOK, "sync" \notin Ops, NobodySyncs, [Next]_vars, NEW i \in Rid
    PROVE  Changes(i)
<1>0. CASE UNCHANGED res
  BY <1>0 DEF Changes
<1>1. CASE Tick \/ UNCHANGED vars
  BY <1>0, <1>1 DEF Tick, vars
<1>2. ASSUME NEW j \in Rid, NEW r \in Resource, NEW p \in Period, SyncCreate(j, r, p)
      PROVE  FALSE
  BY <1>2 DEF SyncCreate
<1>3. ASSUME NEW w \in Worker, Arrive(w)
      PROVE  UNCHANGED res
  <2>1. ASSUME NEW op, NEW l, NEW q, Start(w, op, l, q)
        PROVE  UNCHANGED res
    BY <2>1 DEF Start
  <2>2. ASSUME NEW u \in User, NEW r \in Resource, NEW p \in Period, NEW o \in User,
               PostBegin(w, u, r, p, o)
        PROVE  UNCHANGED res
    BY <2>1, <2>2 DEF PostBegin
  <2>3. ASSUME NEW u \in User, NEW j \in Rid, NEW r \in Resource, NEW p \in Period,
               NEW o \in User \cup {NoUser}, NEW s \in AskedStates \cup {Keep},
               PutBegin(w, u, j, r, p, o, s)
        PROVE  UNCHANGED res
    BY <2>1, <2>3 DEF PutBegin
  <2>4. ASSUME NEW u \in User, NEW j \in Rid, DeleteBegin(w, u, j)
        PROVE  UNCHANGED res
    BY <2>1, <2>4 DEF DeleteBegin
  <2>5. ASSUME NEW u \in User, NEW r \in Resource, NEW p \in Period,
               CancelRangeBegin(w, u, r, p)
        PROVE  UNCHANGED res
    BY <2>1, <2>5 DEF CancelRangeBegin
  <2>6. ASSUME NEW u \in User, NEW r \in Resource, NEW ps \in SUBSET Period,
               BulkBegin(w, u, r, ps)
        PROVE  UNCHANGED res
    BY <2>1, <2>6 DEF BulkBegin
  <2>7. ASSUME NEW j \in Rid, NEW p \in Period, SyncBegin(w, j, p)
        PROVE  UNCHANGED res
    BY <2>1, <2>7 DEF SyncBegin
  <2> QED
    BY <1>3, <2>2, <2>3, <2>4, <2>5, <2>6, <2>7 DEF Arrive
<1>4. ASSUME NEW w \in Worker, Proceed(w)
      PROVE  Changes(i)
  <2>1. CASE PostValidate(w) \/ PutValidate(w) \/ PutReload(w)
    BY <1>0, <2>1 DEF PostValidate, PutValidate, PutReload
  <2> QED
    BY <1>4, <2>1, CommitChanges DEF Proceed
<1> QED
  BY <1>0, <1>1, <1>2, <1>3, <1>4 DEF Next

-----------------------------------------------------------------------------
(* Decisions                                                               *)

LEMMA DecidedStep ==
    ASSUME BookingInv, BookingInv', "sync" \notin Ops, Decided, [Next]_vars
    PROVE  Decided'
<1>1. TypeOK /\ OneCritical /\ Targets /\ NobodySyncs /\ RowsThere
  BY DEF BookingInv, Decided
<1>2. \A w \in Worker : Moves(w)
  BY <1>1, StepMoves
<1>3. \A i \in Rid : Changes(i)
  BY <1>1, StepChanges
<1>4. NobodySyncs'
  BY <1>1, <1>2 DEF NobodySyncs, Moves
<1>5. RowsThere'
  <2> SUFFICES ASSUME NEW w \in Worker, NEW i \in req'[w].target
               PROVE  res'[i].state # Absent
    BY DEF RowsThere
  <2>1. i \in Rid
    BY DEF BookingInv, TypeOK, Request
  <2>2. \A j \in req[w].target : [req[w] EXCEPT !.old = res[j].state].target = req[w].target
    BY <1>1 DEF TypeOK, Request
  <2>3. res[i].state # Absent
    BY <1>1, <1>2, <2>2 DEF Moves, RowsThere
  <2> QED
    BY <1>3, <2>1, <2>3 DEF Changes
<1>6. ASSUME NEW w \in Worker, NEW i \in Rid
      PROVE  Settled(w, i)'
  <2> SUFFICES ASSUME pc'[w] = "reloaded", i \in req'[w].target,
                      res'[i].resource = req'[w].resource, res'[i].state # CANCELLED
               PROVE  /\ res'[i].state = req'[w].old
                      /\ (res'[i].resource \in NeedManual /\ res'[i].state = CONFIRMED)
                           => Can(req'[w].by, "approve")
    BY DEF Settled
  <2>1. CASE pc[w] = "reloaded" /\ req'[w] = req[w]
    <3>1. res[i].state # Absent
      BY <1>1, <2>1 DEF RowsThere
    <3>2. ASSUME NEW v \in Worker, PutCommit(v), res'[i].resource = req[v].resource
          PROVE  FALSE
      <4>1. Critical(v) /\ Critical(w) /\ req[v].resource = req[w].resource
        BY <2>1, <3>2 DEF PutCommit, Critical
      <4>2. v = w
        BY <1>1, <4>1 DEF OneCritical
      <4>3. pc'[v] = "idle"
        BY <1>1, <3>2 DEF PutCommit, End, TypeOK
      <4> QED
        BY <4>2, <4>3
    <3>3. res'[i] = res[i]
      BY <1>3, <3>1, <3>2 DEF Changes
    <3> QED
      BY <2>1, <3>3 DEF Decided, Settled
  <2>2. CASE PutReload(w) /\ UNCHANGED res
    <3>1. PICK j \in req[w].target : /\ MayModify(j, req[w].by)
                                     /\ req'[w] = [req[w] EXCEPT !.old = res[j].state]
      BY <1>2, <2>2 DEF Moves, PutReload
    <3>2. /\ req'[w].target = req[w].target /\ req'[w].by = req[w].by
          /\ req'[w].old = res[j].state
      BY <1>1, <3>1 DEF TypeOK, Request
    <3>3. i = j
      BY <1>1, <2>2, <3>2 DEF Targets, PutReload
    <3> QED
      BY <2>2, <3>1, <3>2, <3>3 DEF MayModify, CanModify
  <2> QED
    BY <1>2, <2>1, <2>2 DEF Moves
<1> QED
  BY <1>4, <1>5, <1>6 DEF Decided

LEMMA DecisionInvariant == Spec => []DecisionInv
<1>1. Init => DecisionInv
  <2>1. Init => Decided
    BY NoTarget DEF Init, Decided, NobodySyncs, RowsThere, Settled
  <2> QED
    BY <2>1, InvInit DEF DecisionInv
<1>2. DecisionInv /\ [Next]_vars => DecisionInv'
  <2> SUFFICES ASSUME DecisionInv, [Next]_vars PROVE DecisionInv'
    OBVIOUS
  <2>1. BookingInv /\ BookingInv' /\ Decided
    BY InvStep DEF DecisionInv
  <2>2. Decided'
    BY <2>1, DecidedStep DEF Decided
  <2> QED
    BY <2>1, <2>2 DEF DecisionInv
<1> QED
  BY <1>1, <1>2, PTL DEF Spec

\* An update that asks for no state and stays in its resource does not undo what an approver
\* has decided since it began, however many updates and approvers there are.
THEOREM DecisionsAreKept == Spec => DecisionKept
<1> DEFINE A == \A w \in Worker, i \in Rid :
                  (/\ "sync" \notin Ops
                   /\ Updates(w, i) /\ req[w].state = Keep
                   /\ req[w].resource = res[i].resource
                   /\ res[i].state # CANCELLED)
                    => res'[i].state = res[i].state
<1>1. DecisionInv /\ [Next]_vars => A
  <2> SUFFICES ASSUME DecisionInv, [Next]_vars, "sync" \notin Ops,
                      NEW w \in Worker, NEW i \in Rid,
                      Updates(w, i), req[w].state = Keep,
                      req[w].resource = res[i].resource, res[i].state # CANCELLED
               PROVE  res'[i].state = res[i].state
    OBVIOUS
  <2>1. TypeOK /\ Targets /\ Settled(w, i)
    BY DEF DecisionInv, BookingInv, Decided
  <2>2. PutCommit(w)
    BY <2>1, StepMoves DEF Moves, Updates
  <2>3. res[i].state = req[w].old
    BY <2>1 DEF Settled, Updates
  <2>4. PICK k \in req[w].target, p \in req[w].periods :
           res' = [res EXCEPT ![k] =
             [req[w].copy[k] EXCEPT !.resource = req[w].resource, !.user = req[w].user,
                    !.begin = p[1], !.end = p[2], !.state = FinalState(req[w])]]
    BY <2>2 DEF PutCommit
  <2>5. k = i /\ req[w].copy[k] \in Row
    BY <2>1 DEF Targets, Updates, TypeOK, Request
  <2>6. res'[i].state = FinalState(req[w])
    BY <2>1, <2>4, <2>5 DEF TypeOK, Row
  <2> QED
    BY <2>3, <2>6 DEF FinalState
<1>2. [][A]_vars => DecisionKept
  BY DEF DecisionKept
<1> QED
  BY <1>1, <1>2, DecisionInvariant, PTL DEF Spec

\* Nobody without the permission to approve changes a reservation that has been confirmed
\* since its update began, in a resource whose reservations are confirmed by hand.
THEOREM ConfirmedStaysAsItIs == Spec => ConfirmedStaysPut
<1> DEFINE A == \A w \in Worker, i \in Rid :
                  (/\ "sync" \notin Ops
                   /\ Updates(w, i)
                   /\ req[w].resource = res[i].resource
                   /\ res[i].resource \in NeedManual
                   /\ ~Can(req[w].by, "approve"))
                    => res[i].state # CONFIRMED
<1>1. DecisionInv => A
  BY StateNames DEF DecisionInv, Decided, Settled, Updates, CANCELLED, CONFIRMED
<1>2. [][A]_vars => ConfirmedStaysPut
  BY DEF ConfirmedStaysPut
<1> QED
  BY <1>1, <1>2, DecisionInvariant, PTL

-----------------------------------------------------------------------------
(* The limit                                                               *)

LEMMA FewerRows ==
    ASSUME NEW S \in SUBSET Rid, NEW T \in SUBSET S, NEW n \in Nat, Cardinality(S) < n
    PROVE  Cardinality(T) < n
<1>1. IsFiniteSet(S)
  BY FS_Subset
<1>2. IsFiniteSet(T) /\ Cardinality(T) <= Cardinality(S)
  BY <1>1, FS_Subset
<1>3. Cardinality(S) \in Nat /\ Cardinality(T) \in Nat
  BY <1>1, <1>2, FS_CardinalityType
<1> QED
  BY <1>2, <1>3

\* Between the validation of a creation and its commit no reservation comes to count
LEMMA PlaceStep ==
    ASSUME BookingInv, BookingInv', CollisionFirst', PlaceLeft, [Next]_vars
    PROVE  PlaceLeft'
<1> SUFFICES ASSUME NEW w \in Worker, pc'[w] = "creating",
                    ~Can(req'[w].by, "ignore_max")
             PROVE  Cardinality(Counted(req[w].resource, req[w].by))'
                        < MaxReservations[req'[w].resource]
  BY DEF PlaceLeft
<1> DEFINE r == req[w].resource
           u == req[w].by
           T == {i \in Rid : /\ res'[i].resource = r /\ res'[i].user = u
                             /\ Active(res[i])' /\ checked'[i] # {}}
<1>1. TypeOK /\ TypeOK' /\ OneCritical
  BY DEF BookingInv
<1>2. req'[w] = req[w] /\ (pc[w] = "creating" \/ PostValidate(w))
  BY <1>1, StepMoves DEF Moves
<1>3. Counted(req[w].resource, req[w].by)' = T
  BY <1>2 DEF Counted, ActiveOf
<1>4. MaxReservations[r] \in Nat
  BY <1>1 DEF TypeOK, Request
<1>5. CASE pc[w] = "creating"
  <2>1. ASSUME NEW i \in T PROVE i \in Counted(r, u)
    <3>1. Active(res[i])' /\ checked'[i] # {} /\ "collision" \in checked'[i] /\ i \in Rid
      BY DEF CollisionFirst
    <3>2. CASE Quiet
      BY <1>1, <3>1, <3>2, StillInForce DEF Counted, ActiveOf
    <3>3. CASE UNCHANGED <<now, res, checked>>
      BY <3>1, <3>3 DEF Counted, ActiveOf, Active, Current
    <3>4. ASSUME NEW v \in Worker, NEW k \in Rid, NEW p \in Period, Writes(v, k, p)
          PROVE  i \in Counted(r, u)
      <4>1. Critical(v) /\ Critical(w) /\ pc'[v] = "idle"
        BY <1>1, <1>5, <3>4 DEF Writes, Critical, End, TypeOK
      <4>2. req[v].resource # r
        BY <1>1, <4>1 DEF OneCritical
      <4>3. res'[i] = res[i] /\ checked'[i] = checked[i] /\ now' = now
        BY <3>1, <3>4, <4>2 DEF Writes
      <4> QED
        BY <3>1, <4>3 DEF Counted, ActiveOf, Active, Current
    <3> QED
      BY <3>2, <3>3, <3>4, StepKinds DEF PostValidate, PutValidate
  <2>2. Cardinality(Counted(r, u)) < MaxReservations[r]
    BY <1>2, <1>5 DEF PlaceLeft
  <2>3. Counted(r, u) \in SUBSET Rid
    BY DEF Counted, ActiveOf
  <2>4. Cardinality(T) < MaxReservations[r]
    BY <1>4, <2>1, <2>2, <2>3, FewerRows
  <2> QED
    BY <1>2, <1>3, <2>4
<1>6. CASE PostValidate(w)
  <2>1. UNCHANGED <<now, res, checked>>
    BY <1>6 DEF PostValidate
  <2>2. WithinMax(r, u)
    BY <1>1, <1>6 DEF PostValidate, Validated, End, TypeOK
  <2>3. Cardinality(ActiveOf(r, u)) < MaxReservations[r]
    BY <1>2, <2>2 DEF WithinMax
  <2>4. ActiveOf(r, u) \in SUBSET Rid
    BY DEF ActiveOf
  <2>5. T \in SUBSET ActiveOf(r, u)
    BY <2>1 DEF ActiveOf, Active, Current
  <2>6. Cardinality(T) < MaxReservations[r]
    BY <1>4, <2>3, <2>4, <2>5, FewerRows
  <2> QED
    BY <1>2, <1>3, <2>6
<1> QED
  BY <1>2, <1>5, <1>6

LEMMA PlaceInvariant == Spec => []PlaceInv
<1>1. Init => PlaceInv
  <2>1. Init => CollisionFirst /\ PlaceLeft
    BY DEF Init, CollisionFirst, PlaceLeft
  <2> QED
    BY <2>1, InvInit DEF PlaceInv
<1>2. PlaceInv /\ [Next]_vars => PlaceInv'
  <2> SUFFICES ASSUME PlaceInv, [Next]_vars PROVE PlaceInv'
    OBVIOUS
  <2>1. BookingInv /\ BookingInv' /\ CollisionFirst' /\ PlaceLeft
    BY InvStep, CheckedStep DEF PlaceInv
  <2>2. PlaceLeft'
    BY <2>1, PlaceStep
  <2> QED
    BY <2>1, <2>2 DEF PlaceInv
<1> QED
  BY <1>1, <1>2, PTL DEF Spec

\* When a creation commits, its user still has a place under the limit of the resource that no
\* concurrent creation or update has taken.
THEOREM LimitIsKept == Spec => CreateWithinLimit
<1> DEFINE A == \A w \in Worker :
                  (pc[w] = "creating" /\ pc'[w] = "idle" /\ ~Can(req[w].by, "ignore_max"))
                    => Cardinality({i \in ActiveOf(req[w].resource, req[w].by) :
                                      checked[i] # {}})
                         < MaxReservations[req[w].resource]
<1>1. PlaceInv => A
  BY DEF PlaceInv, PlaceLeft, Counted
<1>2. [][A]_vars => CreateWithinLimit
  BY DEF CreateWithinLimit
<1> QED
  BY <1>1, <1>2, PlaceInvariant, PTL
=============================================================================
