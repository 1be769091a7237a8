--------------------------- MODULE OrderPayments ---------------------------
(***************************************************************************)
(* Paid reservations: the order that belongs to a reservation, the state   *)
(* of both, and everything that changes them: the requests of customer and *)
(* staff, the callbacks of the payment service, the cron job that expires  *)
(* unpaid orders and the cancellation of an order in Django's admin.       *)
(*                                                                         *)
(* A worker runs one of these at a time in one READ COMMITTED transaction. *)
(* It holds copies of the rows it has read, keeps its writes to itself     *)
(* until it commits, and holds the lock of every row it has written, or    *)
(* selected for update, until then.  An ordinary write waits for the lock  *)
(* of its row; Order.set_state asks for it with NOWAIT and, if it is not   *)
(* free, silently does nothing.                                            *)
(*                                                                         *)
(* An order and its reservation have one name here.  What Booking models   *)
(* (periods, collisions, limits) is left out: the requests are those that  *)
(* pass these checks.  The payment service is external.                    *)
(***************************************************************************)
EXTENDS Integers, FiniteSets

CONSTANTS
    Order,       \* the orders, each with its reservation
    Worker,      \* web workers
    Cron,        \* processes that run the expiry command
    Nobody,      \* holds a lock that is free
    Manual,      \* the values of need_manual_confirmation among the resources
    StaffPerm,   \* the permissions of staff
    Ops,         \* kinds of request that arrive, besides creations
    AskedStates  \* states an update may ask for, besides none

\* Order.STATE_CHOICES and the states of Reservation.set_state
WAITING == "waiting"
CONFIRMED == "confirmed"
REJECTED == "rejected"
EXPIRED == "expired"
CANCELLED == "cancelled"
OrderState == {WAITING, CONFIRMED, REJECTED, EXPIRED, CANCELLED}

REQUESTED == "requested"
DENIED == "denied"
WAITING_FOR_PAYMENT == "waiting_for_payment"
READY_FOR_PAYMENT == "ready_for_payment"
WAITING_FOR_CASH_PAYMENT == "waiting_for_cash_payment"
ReservationState == {REQUESTED, CONFIRMED, DENIED, CANCELLED, WAITING_FOR_PAYMENT,
                     READY_FOR_PAYMENT, WAITING_FOR_CASH_PAYMENT}

CASH == "cash"
ONLINE == "online"
Absent == "absent"   \* no such row
Keep == "keep"       \* the update asks for no state
Unsaved == "unsaved" \* the transaction has not written this row

\* The customer owns what he orders; staff may order too
By == {"customer", "staff"}

ASSUME OrderAssumption ==
    /\ Order # {}
    /\ Nobody \notin Worker \cup Cron
    /\ Manual \subseteq BOOLEAN
    /\ StaffPerm \subseteq {"staff", "bypass", "approve", "edit_paid"}
    /\ Ops \subseteq {"put", "delete", "range", "callback", "admin"}
    /\ AskedStates \subseteq ReservationState

Process == Worker \cup Cron

VARIABLES
    order,   \* the committed order rows
    resv,    \* the committed states of the reservations
    olock,   \* who holds the row lock of each order
    rlock,   \* who holds the row lock of each reservation
    due,     \* the waiting times that have run out for each order
    initiated, \* whether the payment service has been asked to take a payment
    answers, \* what the payment service may call back about each order
    at,      \* the step of each process
    tx       \* its transaction

vars == <<order, resv, olock, rlock, due, initiated, answers, at, tx>>
rows == <<order, resv, due>>
locks == <<olock, rlock>>
service == <<initiated, answers>>

NoOrder == [state |-> Absent, manual |-> FALSE, requested |-> FALSE, method |-> ONLINE,
            free |-> FALSE, by |-> "staff"]

\* op: the request; o: its order; by: who asks; old, copy: the states of the order
\* and the reservation as the process has them in memory; fresh: the reservation as
\* read again; ask, pay: what an update asks; goal, sync, then: the arguments of
\* set_state and the step after it; class, todo: the query the job works through;
\* orders, resvs: the uncommitted writes; restart: a waiting time they restart
NoTx == [op |-> "none", o |-> CHOOSE o \in Order : TRUE, by |-> "staff",
         old |-> WAITING, copy |-> CANCELLED, fresh |-> CANCELLED,
         ask |-> Keep, pay |-> FALSE, goal |-> WAITING, sync |-> TRUE, then |-> "commit",
         class |-> 1, todo |-> {}, restart |-> {},
         orders |-> [o \in Order |-> Unsaved], resvs |-> [o \in Order |-> Unsaved]]

-----------------------------------------------------------------------------
(* What the code computes                                                  *)

Can(u, p) == u = "staff" /\ p \in StaffPerm
Own(u, o) == order[o].by = u

\* What a process reads: its own write, or the committed row
SeenOrder(p, o) == IF tx[p].orders[o] = Unsaved THEN order[o].state ELSE tx[p].orders[o]
SeenResv(p, o) == IF tx[p].resvs[o] = Unsaved THEN resv[o] ELSE tx[p].resvs[o]

Mine(lock, p) == lock \in {p, Nobody}

\* Order.set_state: where each state may go
ValidStates(old) == CASE old = WAITING -> {CONFIRMED, REJECTED, EXPIRED, CANCELLED}
                      [] old = CONFIRMED -> {CANCELLED}
                      [] OTHER -> {}

\* Reservation.can_modify of a reservation with an order
CanModify(rs, o, u) ==
    /\ rs # WAITING_FOR_PAYMENT
    /\ \/ Can(u, "edit_paid")
       \/ Own(u, o) /\ rs \in {READY_FOR_PAYMENT, REQUESTED}

\* (mutant) only the state asked for is looked at
MutStateChangeAllowed(rs, s, u) ==
    \/ s = rs
    \/ Can(u, "approve") /\ s \in {REQUESTED, CONFIRMED, DENIED, WAITING_FOR_PAYMENT,
                                  WAITING_FOR_CASH_PAYMENT}
    \/ s = WAITING_FOR_PAYMENT

\* ReservationSerializer.validate_state
StateChangeAllowed(rs, s, u) ==
    \/ s = rs
    \/ /\ Can(u, "approve")
       /\ {rs, s} \subseteq {REQUESTED, CONFIRMED, DENIED, WAITING_FOR_PAYMENT,
                             WAITING_FOR_CASH_PAYMENT}
    \/ s = WAITING_FOR_PAYMENT

\* perform_create: the first state of the reservation
FirstState(u, row) ==
    IF row.manual /\ ~Can(u, "bypass") THEN REQUESTED
    ELSE IF row.state # CONFIRMED /\ ~Can(u, "bypass") THEN WAITING_FOR_PAYMENT
    ELSE IF row.state = WAITING /\ row.method = CASH THEN WAITING_FOR_CASH_PAYMENT
         ELSE CONFIRMED

\* (mutant) an update that asks for no state leaves none
MutNextState(ask, rs, os, method, u) ==
    IF ask = CONFIRMED /\ os = WAITING /\ rs = REQUESTED
    THEN IF method = CASH THEN WAITING_FOR_CASH_PAYMENT ELSE READY_FOR_PAYMENT
    ELSE ask

\* perform_update: the state to set, from the rows as they are read again
NextState(ask, rs, os, method, u) ==
    LET s == IF ask = Keep THEN rs ELSE ask
        t == IF s = READY_FOR_PAYMENT /\ os = WAITING /\ ~Can(u, "edit_paid")
             THEN WAITING_FOR_PAYMENT ELSE s
    IN  IF t = CONFIRMED /\ os = WAITING /\ rs = REQUESTED
        THEN IF method = CASH THEN WAITING_FOR_CASH_PAYMENT ELSE READY_FOR_PAYMENT
        ELSE t

\* (mutant) whoever confirms the reservation confirms its order
MutCashPaid(fresh, ask) == ask = CONFIRMED

\* perform_update: staff confirms what waited for a cash payment
CashPaid(fresh, ask) == fresh = WAITING_FOR_CASH_PAYMENT /\ ask = CONFIRMED

\* (mutant) nothing changes a reservation once it is confirmed or requested
MutSettled(new, state) == state \in {CONFIRMED, REQUESTED}

\* Reservation.set_state: the call that changes and saves nothing
Settled(new, state) == new = state /\ state \in {CONFIRMED, REQUESTED}

\* (mutant) the first query too looks at the state of the reservation
MutExpirable(p, class, o) ==
    /\ SeenOrder(p, o) = WAITING
    /\ CASE class = 1 -> /\ ~order[o].requested /\ order[o].method = ONLINE
                         /\ "created" \in due[o] /\ SeenResv(p, o) = WAITING_FOR_PAYMENT
         [] class = 2 -> /\ order[o].requested /\ SeenResv(p, o) = READY_FOR_PAYMENT
                         /\ "staff" \in due[o]
         [] class = 3 -> /\ order[o].requested /\ SeenResv(p, o) = WAITING_FOR_PAYMENT
                         /\ "modified" \in due[o]

\* OrderQuerySet.update_expired: the three queries of the job
Expirable(p, class, o) ==
    /\ SeenOrder(p, o) = WAITING
    /\ CASE class = 1 -> /\ ~order[o].requested /\ order[o].method = ONLINE
                         /\ "created" \in due[o]
         [] class = 2 -> /\ order[o].requested /\ SeenResv(p, o) = READY_FOR_PAYMENT
                         /\ "staff" \in due[o]
         [] class = 3 -> /\ order[o].requested /\ SeenResv(p, o) = WAITING_FOR_PAYMENT
                         /\ "modified" \in due[o]

Step(p, l, t) == /\ at' = [at EXCEPT ![p] = l]
                 /\ tx' = [tx EXCEPT ![p] = t]

Start(p, l, t) == at[p] = "idle" /\ Step(p, l, t) /\ UNCHANGED <<rows, locks, service>>

\* The end of a transaction that commits nothing: its locks are released
Rollback(p) ==
    /\ Step(p, "idle", NoTx)
    /\ olock' = [o \in Order |-> IF olock[o] = p THEN Nobody ELSE olock[o]]
    /\ rlock' = [o \in Order |-> IF rlock[o] = p THEN Nobody ELSE rlock[o]]
    /\ UNCHANGED <<rows, service>>

-----------------------------------------------------------------------------
(* POST /reservation/ with an order, one transaction nobody can look into  *)

\* The payment is initiated with it, but for a customer's manually confirmed order
\* and for cash that staff takes; a free order needs none and is confirmed at once.
\* Cash is for resources that need manual confirmation.
Create(o, u, manual, method, free) ==
    LET deferred == manual /\ IF Can(u, "staff") THEN method = CASH ELSE ~free
        row == [state |-> IF free THEN CONFIRMED ELSE WAITING,
                manual |-> manual, requested |-> manual /\ ~Can(u, "bypass"),
                method |-> method, free |-> free, by |-> u]
    IN  /\ order[o].state = Absent
        /\ method = CASH => manual
        /\ order' = [order EXCEPT ![o] = row]
        /\ resv' = [resv EXCEPT ![o] = FirstState(u, row)]
        /\ initiated' = [initiated EXCEPT ![o] = ~free /\ ~deferred]
        /\ UNCHANGED <<due, answers, locks, at, tx>>

-----------------------------------------------------------------------------
(* Order.set_state(goal), entered with the state `old` in memory, followed *)
(* by the step `then`                                                      *)

\* (mutant) every transition is valid
MutValid(t, seen) == TRUE

\* The transition is judged by the state in memory, not by the row just locked
Valid(t, seen) == t.goal \in ValidStates(t.old)

\* (mutant) a request waits until the transition is valid
MutRaise(p) == tx[p].op = "callback" /\ Step(p, "commit", tx[p])
               /\ UNCHANGED <<rows, locks, service>>

\* It raises OrderStateTransitionError: the callbacks catch it, a request fails
Raise(p) == IF tx[p].op = "callback"
            THEN Step(p, "commit", tx[p]) /\ UNCHANGED <<rows, locks, service>>
            ELSE Rollback(p)

\* Nothing to do, or the row is locked by another (DatabaseError, swallowed)
SetStateSkips(p) ==
    LET t == tx[p] IN
    /\ at[p] = "set_state"
    /\ t.old = t.goal \/ ~Mine(olock[t.o], p)
    /\ Step(p, t.then, t)
    /\ UNCHANGED <<rows, locks, service>>

\* The row is locked: it already has the state, or the change is refused, or made
SetState(p) ==
    LET t == tx[p]
        lock == olock' = [olock EXCEPT ![t.o] = p] /\ UNCHANGED <<rows, rlock, service>>
        made == [t EXCEPT !.old = t.goal]
    IN
    /\ at[p] = "set_state"
    /\ t.old # t.goal /\ Mine(olock[t.o], p)
    /\ \/ SeenOrder(p, t.o) = t.goal /\ Step(p, t.then, t) /\ lock
       \/ SeenOrder(p, t.o) # t.goal /\ ~Valid(t, SeenOrder(p, t.o)) /\ Raise(p)
       \/ /\ SeenOrder(p, t.o) # t.goal /\ Valid(t, SeenOrder(p, t.o))
          /\ IF t.sync THEN Step(p, "read_resv", made)
                       ELSE Step(p, t.then, [made EXCEPT !.orders[t.o] = t.goal])
          /\ lock

\* The reservation's state in memory: where the order was fetched alone, it is read now
ReadReservation(p) ==
    LET t == tx[p]
        copy == IF t.op \in {"callback", "job", "admin"} THEN SeenResv(p, t.o) ELSE t.copy
    IN
    /\ at[p] = "read_resv"
    /\ IF Settled(IF t.goal = CONFIRMED THEN CONFIRMED ELSE CANCELLED, copy)
       THEN Step(p, t.then, [t EXCEPT !.orders[t.o] = t.goal])
       ELSE Step(p, "save_resv", t)
    /\ UNCHANGED <<rows, locks, service>>

\* Reservation.set_state saves the reservation, then the order is saved
SaveReservation(p) ==
    LET t == tx[p] IN
    /\ at[p] = "save_resv"
    /\ Mine(rlock[t.o], p)
    /\ rlock' = [rlock EXCEPT ![t.o] = p]
    /\ Step(p, t.then, [t EXCEPT !.orders[t.o] = t.goal, !.restart = {"modified"},
                          !.resvs[t.o] = IF t.goal = CONFIRMED THEN CONFIRMED ELSE CANCELLED])
    /\ UNCHANGED <<rows, olock, service>>

Commit(p) ==
    LET t == tx[p] IN
    /\ at[p] = "commit"
    /\ order' = [o \in Order |-> [order[o] EXCEPT !.state = SeenOrder(p, o)]]
    /\ resv' = [o \in Order |-> SeenResv(p, o)]
    /\ due' = [due EXCEPT ![t.o] = @ \ t.restart]
    /\ Step(p, "idle", NoTx)
    /\ olock' = [o \in Order |-> IF olock[o] = p THEN Nobody ELSE olock[o]]
    /\ rlock' = [o \in Order |-> IF rlock[o] = p THEN Nobody ELSE rlock[o]]
    /\ UNCHANGED service

-----------------------------------------------------------------------------
(* The payment service, the cron job and Django's admin                    *)

\* A success, failure or notification callback: as often and as late as it likes
Callback(w, o, answer) ==
    /\ "callback" \in Ops
    /\ answer \in answers[o]
    /\ Start(w, "set_state", [NoTx EXCEPT !.op = "callback", !.o = o, !.goal = answer,
                                          !.old = order[o].state])

\* expire_too_old_unpaid_orders, one transaction for all orders of the three queries
JobBegin(c) == Start(c, "query", [NoTx EXCEPT !.op = "job", !.goal = EXPIRED, !.then = "next"])

JobQuery(c) ==
    /\ at[c] = "query"
    /\ Step(c, "next", [tx[c] EXCEPT !.todo = {o \in Order : Expirable(c, tx[c].class, o)}])
    /\ UNCHANGED <<rows, locks, service>>

JobNext(c) ==
    LET t == tx[c] IN
    /\ at[c] = "next"
    /\ \/ \E o \in t.todo : Step(c, "set_state", [t EXCEPT !.o = o, !.todo = t.todo \ {o},
                                                           !.old = WAITING])
       \/ t.todo = {} /\ t.class < 3 /\ Step(c, "query", [t EXCEPT !.class = t.class + 1])
       \/ t.todo = {} /\ t.class = 3 /\ Step(c, "commit", t)
    /\ UNCHANGED <<rows, locks, service>>

\* OrderAdmin.delete_model: offered for confirmed orders
AdminBegin(w, o) ==
    /\ "admin" \in Ops
    /\ order[o].state = CONFIRMED
    /\ Start(w, "set_state", [NoTx EXCEPT !.op = "admin", !.o = o, !.goal = CANCELLED,
                                          !.old = CONFIRMED])

-----------------------------------------------------------------------------
(* DELETE /reservation/i/ and DELETE /resource/r/cancel_reservations/      *)

DeleteBegin(w, u, o) ==
    /\ "delete" \in Ops
    /\ order[o].state # Absent
    /\ CanModify(resv[o], o, u)
    /\ Start(w, "cancel", [NoTx EXCEPT !.op = "delete", !.o = o, !.by = u, !.goal = CANCELLED,
                                       !.old = order[o].state])

CancelRangeBegin(w, o) ==
    /\ "range" \in Ops
    /\ order[o].state # Absent /\ resv[o] # CANCELLED
    /\ Start(w, "cancel", [NoTx EXCEPT !.op = "range", !.o = o, !.goal = CANCELLED])

\* The reservation is saved first; only then the range cancellation reads the order
CancelReservation(w) ==
    LET t == tx[w] IN
    /\ at[w] = "cancel"
    /\ Mine(rlock[t.o], w)
    /\ rlock' = [rlock EXCEPT ![t.o] = w]
    /\ Step(w, "set_state", [t EXCEPT !.resvs[t.o] = CANCELLED, !.copy = CANCELLED,
                               !.old = IF t.op = "range" THEN order[t.o].state ELSE t.old])
    /\ UNCHANGED <<rows, olock, service>>

-----------------------------------------------------------------------------
(* PUT /reservation/i/                                                     *)

\* get_object reads reservation and order; an update may bring order data (pay)
PutBegin(w, u, o, s, pay) ==
    /\ "put" \in Ops
    /\ order[o].state # Absent
    /\ CanModify(resv[o], o, u)
    /\ s # Keep => StateChangeAllowed(resv[o], s, u)
    /\ Start(w, "validate", [NoTx EXCEPT !.op = "put", !.o = o, !.by = u, !.ask = s, !.pay = pay,
                                         !.old = order[o].state, !.copy = resv[o]])

\* The Resource row is locked from here to the end
PutValidate(w) ==
    /\ at[w] = "validate"
    /\ \A v \in Worker : ~(tx[v].op = "put" /\ tx[v].o = tx[w].o /\ at[v] # "validate")
    /\ Step(w, "reload", tx[w])
    /\ UNCHANGED <<rows, locks, service>>

\* perform_update reads both rows again and decides the state to set
PutReload(w) ==
    LET t == tx[w]
        next == NextState(t.ask, resv[t.o], order[t.o].state, order[t.o].method, t.by)
    IN
    /\ at[w] = "reload"
    /\ IF ~CanModify(resv[t.o], t.o, t.by) \/ (t.pay /\ order[t.o].manual /\ ~Own(t.by, t.o))
       THEN Rollback(w)
       ELSE /\ Step(w, IF t.pay /\ order[t.o].manual THEN "pay" ELSE "save",
                    [t EXCEPT !.fresh = resv[t.o], !.ask = next])
            /\ UNCHANGED <<rows, locks, service>>

\* The order serializer saves its first copy of the order and initiates a payment
PutPay(w) ==
    LET t == tx[w]
        free == order[t.o].free
    IN
    /\ at[w] = "pay"
    /\ Mine(olock[t.o], w)
    /\ olock' = [olock EXCEPT ![t.o] = w]
    /\ initiated' = [initiated EXCEPT ![t.o] = @ \/ ~free]
    /\ Step(w, IF free THEN "set_state" ELSE "save",
            [t EXCEPT !.orders[t.o] = t.old, !.goal = CONFIRMED, !.sync = FALSE, !.then = "save"])
    /\ UNCHANGED <<rows, rlock, answers>>

\* The serializer saves its first copy of the reservation and logs the change
PutSave(w) ==
    LET t == tx[w] IN
    /\ at[w] = "save"
    /\ Mine(rlock[t.o], w)
    /\ rlock' = [rlock EXCEPT ![t.o] = w]
    /\ Step(w, "state", [t EXCEPT !.resvs[t.o] = t.copy, !.restart = {"modified"}])
    /\ UNCHANGED <<rows, olock, service>>

\* Reservation.set_state(ask): confirmed and requested stay without a save.  Ready for
\* payment makes the notification save the order; a cash payment confirms it.
PutState(w) ==
    LET t == tx[w]
        saved == [t EXCEPT !.resvs[t.o] = t.ask, !.copy = t.ask]
        paid == CashPaid(t.fresh, t.ask)
        last == [saved EXCEPT !.goal = CONFIRMED, !.sync = TRUE, !.then = "log"]
    IN
    /\ at[w] = "state"
    /\ Step(w, CASE t.ask = READY_FOR_PAYMENT -> "notify"
                 [] paid -> "set_state"
                 [] OTHER -> "log",
            IF paid THEN last ELSE saved)
    /\ UNCHANGED <<rows, locks, service>>

\* Order.set_confirmed_by_staff saves the first copy of the order
PutNotify(w) ==
    LET t == tx[w] IN
    /\ at[w] = "notify"
    /\ Mine(olock[t.o], w)
    /\ olock' = [olock EXCEPT ![t.o] = w]
    /\ Step(w, "log", [t EXCEPT !.orders[t.o] = t.old, !.restart = {"modified", "staff"}])
    /\ UNCHANGED <<rows, rlock, service>>

\* The log entry of PutSave refers to the order: the deferred check of this reference
\* comes with the commit and shares the lock of the order's row
PutLog(w) ==
    /\ at[w] = "log"
    /\ Mine(olock[tx[w].o], w)
    /\ olock' = [olock EXCEPT ![tx[w].o] = w]
    /\ Step(w, "commit", tx[w])
    /\ UNCHANGED <<rows, rlock, service>>

-----------------------------------------------------------------------------
(* Waiting for row locks                                                   *)

WaitsFor(p, q) ==
    /\ p # q
    /\ \/ at[p] \in {"save_resv", "cancel", "save"} /\ rlock[tx[p].o] = q
       \/ at[p] \in {"pay", "notify", "log"} /\ olock[tx[p].o] = q

\* The database fails one of the transactions that wait in a circle.  In set_state
\* that is an error of its savepoint, swallowed like a lock that is not free.
Deadlock(p) ==
    LET t == tx[p] IN
    /\ \E Circle \in SUBSET Process :
         /\ p \in Circle
         /\ \A q \in Circle : \E r \in Circle : WaitsFor(q, r)
         /\ \A r \in Circle : \E q \in Circle : WaitsFor(q, r)
    /\ IF at[p] = "save_resv"
       THEN /\ Step(p, t.then, t)
            /\ olock' = [olock EXCEPT ![t.o] = Nobody]
            /\ UNCHANGED <<rows, rlock, service>>
       ELSE Rollback(p)

-----------------------------------------------------------------------------
(* The customer at the payment service, and time                           *)

\* A payment fails or succeeds; one that has failed may be tried again
Answer(o, answer) ==
    /\ initiated[o]
    /\ answers' = [answers EXCEPT ![o] = @ \cup {answer}]
    /\ UNCHANGED <<rows, locks, initiated, at, tx>>

\* The waiting time since creation, staff confirmation or the last log entry runs out
\* (of these, the ones a query looks at for such an order)
RunOut(o, d) ==
    /\ order[o].state # Absent
    /\ order[o].requested <=> d # "created"
    /\ d \notin due[o]
    /\ due' = [due EXCEPT ![o] = @ \cup {d}]
    /\ UNCHANGED <<order, resv, locks, service, at, tx>>

Init == /\ order = [o \in Order |-> NoOrder]
        /\ resv = [o \in Order |-> Absent]
        /\ olock = [o \in Order |-> Nobody]
        /\ rlock = [o \in Order |-> Nobody]
        /\ due = [o \in Order |-> {}]
        /\ initiated = [o \in Order |-> FALSE]
        /\ answers = [o \in Order |-> {}]
        /\ at = [p \in Process |-> "idle"]
        /\ tx = [p \in Process |-> NoTx]

Arrive(w) ==
    \/ \E o \in Order, a \in {CONFIRMED, REJECTED} : Callback(w, o, a)
    \/ \E o \in Order : AdminBegin(w, o)
    \/ \E u \in By, o \in Order : DeleteBegin(w, u, o)
    \/ \E o \in Order : CancelRangeBegin(w, o)
    \/ \E u \in By, o \in Order, s \in AskedStates \cup {Keep}, pay \in BOOLEAN :
            PutBegin(w, u, o, s, pay)

Proceed(p) ==
    \/ SetStateSkips(p) \/ SetState(p) \/ ReadReservation(p) \/ SaveReservation(p)
    \/ JobQuery(p) \/ JobNext(p)
    \/ CancelReservation(p)
    \/ PutValidate(p) \/ PutReload(p) \/ PutPay(p) \/ PutSave(p) \/ PutState(p) \/ PutNotify(p)
    \/ PutLog(p)
    \/ Commit(p) \/ Deadlock(p)

Next ==
    \/ \E o \in Order, u \in By, manual \in Manual, m \in {CASH, ONLINE}, free \in BOOLEAN :
            Create(o, u, manual, m, free)
    \/ \E o \in Order, a \in {CONFIRMED, REJECTED} : Answer(o, a)
    \/ \E o \in Order, d \in {"created", "staff", "modified"} : RunOut(o, d)
    \/ \E w \in Worker : Arrive(w)
    \/ \E c \in Cron : JobBegin(c)
    \/ \E p \in Process : Proceed(p)

Spec == Init /\ [][Next]_vars

FairSpec == Spec /\ \A p \in Process : SF_vars(Proceed(p))
                 /\ \A c \in Cron : WF_vars(JobBegin(c))
                 /\ \A o \in Order, d \in {"created"} : WF_vars(RunOut(o, d))

-----------------------------------------------------------------------------
(* Properties                                                              *)

Steps == {"idle", "set_state", "read_resv", "save_resv", "commit", "query", "next", "cancel",
          "validate", "reload", "pay", "save", "state", "notify", "log"}

\* What a transaction may be; it never means to write a state that is none
Transaction ==
    [op : {"none", "callback", "job", "admin", "delete", "range", "put"}, o : Order, by : By,
     old : OrderState, copy : ReservationState, fresh : ReservationState,
     ask : ReservationState \cup {Keep}, pay : BOOLEAN, goal : OrderState, sync : BOOLEAN,
     then : {"commit", "next", "save", "log"}, class : 1..3, todo : SUBSET Order,
     restart : SUBSET {"modified", "staff"}, orders : [Order -> OrderState \cup {Unsaved}],
     resvs : [Order -> ReservationState \cup {Unsaved}]]

\* Every variable has its type; no transaction writes a state that is none
TypeOK ==
    /\ order \in [Order -> [state : OrderState \cup {Absent}, manual : BOOLEAN, requested : BOOLEAN,
                            method : {CASH, ONLINE}, free : BOOLEAN, by : By]]
    /\ resv \in [Order -> ReservationState \cup {Absent}]
    /\ olock \in [Order -> Process \cup {Nobody}] /\ rlock \in [Order -> Process \cup {Nobody}]
    /\ due \in [Order -> SUBSET {"created", "staff", "modified"}]
    /\ initiated \in [Order -> BOOLEAN]
    /\ answers \in [Order -> SUBSET {CONFIRMED, REJECTED}]
    /\ at \in [Process -> Steps]
    /\ tx \in [Process -> Transaction]

\* Order and reservation say the same
OrderAndReservationAgree ==
    \A o \in Order :
        /\ order[o].state = CONFIRMED /\ ~order[o].free => resv[o] = CONFIRMED
        /\ order[o].state \in {REJECTED, EXPIRED, CANCELLED} => resv[o] = CANCELLED

\* A confirmed order is free, or has been paid
ConfirmedIsPaid ==
    \A o \in Order :
        order[o].state = CONFIRMED =>
            order[o].free \/ order[o].method = CASH \/ CONFIRMED \in answers[o]

DocumentedChanges == {WAITING} \X {CONFIRMED, REJECTED, EXPIRED, CANCELLED}
                     \cup {<<CONFIRMED, CANCELLED>>}

\* Orders change their states only as documented
OnlyDocumentedChanges ==
    [][\A o \in Order :
         order[o].state \notin {Absent, order'[o].state}
           => <<order[o].state, order'[o].state>> \in DocumentedChanges]_vars

\* Every transaction ends
RequestEnds == \A p \in Process : at[p] # "idle" ~> at[p] = "idle"

\* An order to be paid online at once does not wait forever
UnpaidOrderEnds ==
    \A o \in Order :
        (order[o].state = WAITING /\ ~order[o].requested /\ order[o].method = ONLINE)
            ~> order[o].state # WAITING

-----------------------------------------------------------------------------
(* The invariant of the proofs                                             *)

Present(o) == order[o].state # Absent
Paid(o) == order[o].free \/ order[o].method = CASH \/ CONFIRMED \in answers[o]

\* A process at step l with transaction t works on orders that exist, and what it
\* still has to do is set by the kind of its request
ControlOK(l, t) ==
    /\ l \notin {"idle", "query", "next", "commit"} => Present(t.o)
    /\ \A o \in t.todo : Present(o)
    /\ \A o \in Order : (t.orders[o] # Unsaved \/ t.resvs[o] # Unsaved) => Present(o)
    /\ l \in {"validate", "reload", "pay", "save", "state"} \/ t.then \in {"save", "log"}
          => t.op = "put"
    /\ l \in {"query", "next"} => t.then = "next"
    /\ t.then = "next" => t.op = "job" /\ t.goal = EXPIRED
    /\ l = "cancel" => t.goal = CANCELLED
    /\ l \in {"pay", "save", "state"} \/ t.then = "save" => t.ask # Keep

\* What it means to confirm is paid, and what it takes for a cash payment is one
PaidOK(l, t) ==
    /\ \A o \in Order : t.orders[o] = CONFIRMED => Paid(o)
    /\ t.old = CONFIRMED => Paid(t.o)
    /\ l \in {"set_state", "read_resv", "save_resv"} /\ t.goal = CONFIRMED => Paid(t.o)
    /\ \A o \in Order : t.resvs[o] = WAITING_FOR_CASH_PAYMENT => order[o].method = CASH
    /\ WAITING_FOR_CASH_PAYMENT \in {t.copy, t.fresh, t.ask}
          => t.op = "put" /\ order[t.o].method = CASH

RowsOK ==
    \A o \in Order :
        /\ ~Present(o) => order[o] = NoOrder /\ ~initiated[o]
        /\ Present(o) => resv[o] # Absent
        /\ answers[o] # {} => initiated[o]

\* Staff may move any reservation to waiting_for_cash_payment, whatever its order says;
\* nothing is claimed of payments if an update does
RowsPaid ==
    \A o \in Order :
        /\ order[o].state = CONFIRMED => Paid(o)
        /\ resv[o] = WAITING_FOR_CASH_PAYMENT => order[o].method = CASH

\* The transactions under way will confirm no order that is not paid
OrderInv ==
    /\ TypeOK
    /\ RowsOK
    /\ \A p \in Process : ControlOK(at[p], tx[p])
    /\ WAITING_FOR_CASH_PAYMENT \notin AskedStates =>
          RowsPaid /\ \A p \in Process : PaidOK(at[p], tx[p])

=============================================================================
