------------------------ MODULE OrderPaymentsProofs ------------------------
(***************************************************************************)
(* For any number of orders and processes, whatever they do at once: types *)
(* are kept, and no order is confirmed that is neither free nor paid, by   *)
(* the inductive invariant OrderInv of OrderPayments.  With callbacks,     *)
(* jobs and the admin alone, order and reservation agree; with one         *)
(* process, orders change only as documented, and order and reservation    *)
(* agree whatever it does, unless staff denies what has been paid.         *)
(***************************************************************************)
EXTENDS OrderPayments, TLAPS

USE OrderAssumption

\* The names of states differ where they should
LEMMA States ==
    /\ {WAITING, CONFIRMED, REJECTED, EXPIRED, CANCELLED} \subseteq OrderState
    /\ {REQUESTED, CONFIRMED, DENIED, CANCELLED, WAITING_FOR_PAYMENT, READY_FOR_PAYMENT,
        WAITING_FOR_CASH_PAYMENT} \subseteq ReservationState
    /\ Absent \notin OrderState /\ Absent \notin ReservationState
    /\ Unsaved \notin OrderState /\ Unsaved \notin ReservationState
    /\ Keep \notin ReservationState
    /\ CONFIRMED \notin {WAITING, REJECTED, EXPIRED, CANCELLED, Absent, Unsaved}
    /\ WAITING_FOR_CASH_PAYMENT \notin {REQUESTED, CONFIRMED, DENIED, CANCELLED, Keep, Unsaved,
                                       WAITING_FOR_PAYMENT, READY_FOR_PAYMENT, Absent}
    /\ Cron \subseteq Process /\ Worker \subseteq Process
BY DEF OrderState, ReservationState, WAITING, CONFIRMED, REJECTED, EXPIRED,
    CANCELLED, REQUESTED, DENIED, WAITING_FOR_PAYMENT, READY_FOR_PAYMENT,
    WAITING_FOR_CASH_PAYMENT, Absent, Keep, Unsaved, Process

-----------------------------------------------------------------------------
(* What every step keeps                                                   *)

\* The rows' part of the invariant
RowTypes ==
    /\ order \in [Order -> [state : OrderState \cup {Absent}, manual : BOOLEAN, requested : BOOLEAN,
                            method : {CASH, ONLINE}, free : BOOLEAN, by : By]]
    /\ resv \in [Order -> ReservationState \cup {Absent}]
    /\ due \in [Order -> SUBSET {"created", "staff", "modified"}]
    /\ initiated \in [Order -> BOOLEAN]
    /\ answers \in [Order -> SUBSET {CONFIRMED, REJECTED}]

LockTypes ==
    /\ olock \in [Order -> Process \cup {Nobody}]
    /\ rlock \in [Order -> Process \cup {Nobody}]

Honest == WAITING_FOR_CASH_PAYMENT \notin AskedStates

\* A step of a process is fit for the invariant
Fit(l, t) == /\ l \in Steps
             /\ t \in Transaction
             /\ ControlOK(l, t)
             /\ Honest => PaidOK(l, t)

\* Rows only come to exist, and payments to be made
Grows ==
    \A o \in Order : /\ Present(o) => Present(o)'
                     /\ Paid(o) => Paid(o)'
                     /\ order[o].method = CASH => order'[o].method = CASH

Rows == RowTypes /\ RowsOK /\ (Honest => RowsPaid)

LEMMA InvParts == OrderInv <=> /\ Rows /\ LockTypes
                               /\ at \in [Process -> Steps] /\ tx \in [Process -> Transaction]
                               /\ \A p \in Process : Fit(at[p], tx[p])
BY DEF OrderInv, TypeOK, Rows, RowTypes, LockTypes, Fit, Honest

\* What a transaction needs of the rows stays true while they grow
LEMMA FitKept ==
    ASSUME NEW l, NEW t, Fit(l, t), Grows
    PROVE  Fit(l, t)'
<1>1. t.o \in Order /\ t.todo \subseteq Order
  BY DEF Fit, Transaction
<1>2. ControlOK(l, t)'
  BY <1>1 DEF Fit, ControlOK, Grows
<1>3. Honest => PaidOK(l, t)'
  BY <1>1 DEF Fit, PaidOK, Grows
<1> QED
  BY <1>2, <1>3 DEF Fit, Honest

\* A process takes a step that is fit; the others stay as they are
LEMMA StepKept ==
    ASSUME OrderInv, NEW p \in Process, NEW l, NEW t, Step(p, l, t), Fit(l, t),
           Grows, Rows', LockTypes'
    PROVE  OrderInv'
<1>1. /\ at \in [Process -> Steps] /\ tx \in [Process -> Transaction]
      /\ \A q \in Process : Fit(at[q], tx[q])
  BY InvParts
<1>2. l \in Steps /\ t \in Transaction /\ Fit(l, t)'
  BY FitKept DEF Fit
<1>3. at' \in [Process -> Steps] /\ tx' \in [Process -> Transaction]
  BY <1>1, <1>2 DEF Step
<1>4. \A q \in Process : Fit(at[q], tx[q])'
  <2> TAKE q \in Process
  <2>1. CASE q = p
    <3>1. at'[q] = l /\ tx'[q] = t
      BY <1>1, <2>1 DEF Step
    <3> QED
      BY <1>2, <3>1 DEF Fit, ControlOK, PaidOK
  <2>2. CASE q # p
    <3>1. at'[q] = at[q] /\ tx'[q] = tx[q]
      BY <1>1, <2>2 DEF Step
    <3>2. Fit(at[q], tx[q])
      BY <1>1
    <3>3. \A k, u : Fit(k, u) => Fit(k, u)'
      BY FitKept
    <3> QED
      BY <3>1, <3>2, <3>3 DEF Fit, ControlOK, PaidOK
  <2> QED
    BY <2>1, <2>2
<1> QED
  BY <1>3, <1>4, InvParts DEF Rows, RowTypes, LockTypes, RowsOK, RowsPaid, Honest, Fit, OrderInv, TypeOK

\* The same for the steps that commit nothing
LEMMA QuietKept ==
    ASSUME OrderInv, NEW p \in Process, NEW l, NEW t, Step(p, l, t), Fit(l, t),
           UNCHANGED <<order, resv, due, initiated, answers>>, LockTypes'
    PROVE  OrderInv'
<1>1. Grows
  BY DEF Grows, Present, Paid
<1>2. Rows'
  BY InvParts DEF Rows, RowTypes, RowsOK, RowsPaid, Present, Paid, Honest
<1> QED
  BY <1>1, <1>2, StepKept

\* A process that waits, and one that has rolled back
LEMMA NoTxFits == NoTx \in Transaction /\ Fit("idle", NoTx)
<1>1. (CHOOSE o \in Order : TRUE) \in Order
  OBVIOUS
<1>2. "staff" \in By /\ 1 \in 1..3
  BY DEF By
<1>3. [o \in Order |-> Unsaved] \in [Order -> OrderState \cup {Unsaved}]
      /\ [o \in Order |-> Unsaved] \in [Order -> ReservationState \cup {Unsaved}]
  OBVIOUS
<1>4. NoTx \in Transaction
  BY <1>1, <1>2, <1>3, States, Zenon DEF NoTx, Transaction
<1> QED
  BY <1>4, States DEF NoTx, Fit, ControlOK, PaidOK, Steps

LEMMA RollbackKept ==
    ASSUME OrderInv, NEW p \in Process, Rollback(p)
    PROVE  OrderInv'
<1>1. LockTypes'
  BY InvParts DEF Rollback, LockTypes
<1> QED
  BY <1>1, NoTxFits, QuietKept DEF Rollback, rows, service

\* A request that arrives
LEMMA StartKept ==
    ASSUME OrderInv, NEW p \in Process, NEW l, NEW t, Start(p, l, t), Fit(l, t)
    PROVE  OrderInv'
<1>1. LockTypes'
  BY InvParts DEF Start, LockTypes, locks
<1> QED
  BY <1>1, QuietKept DEF Start, rows, service, locks

\* A step that neither commits nor takes a lock
LEMMA LocalKept ==
    ASSUME OrderInv, NEW p \in Process, NEW l, NEW t, Step(p, l, t), Fit(l, t),
           UNCHANGED <<rows, locks, service>>
    PROVE  OrderInv'
<1>1. LockTypes'
  BY InvParts DEF LockTypes, locks
<1> QED
  BY <1>1, QuietKept DEF rows, service

\* What is known of a process and of an order
LEMMA OwnFit ==
    ASSUME OrderInv, NEW p \in Process
    PROVE  /\ tx[p] \in Transaction /\ tx[p].o \in Order
           /\ ControlOK(at[p], tx[p]) /\ (Honest => PaidOK(at[p], tx[p]))
BY InvParts DEF Fit, Transaction

LEMMA RowFit ==
    ASSUME OrderInv, NEW o \in Order
    PROVE  /\ order[o].state \in OrderState \cup {Absent} /\ resv[o] \in ReservationState \cup {Absent}
           /\ order[o].method \in {CASH, ONLINE} /\ answers[o] \subseteq {CONFIRMED, REJECTED}
           /\ Present(o) => order[o].state \in OrderState /\ resv[o] \in ReservationState
           /\ answers[o] # {} => Present(o)
<1>1. Rows
  BY InvParts
<1>2. order[o] \in [state : OrderState \cup {Absent}, manual : BOOLEAN, requested : BOOLEAN,
                     method : {CASH, ONLINE}, free : BOOLEAN, by : By]
  BY <1>1 DEF Rows, RowTypes
<1> QED
  BY <1>1, <1>2 DEF Rows, RowTypes, RowsOK, RowsPaid, Present

LEMMA PaidRow ==
    ASSUME OrderInv, NEW o \in Order, Honest
    PROVE  /\ order[o].state = CONFIRMED => Paid(o)
           /\ resv[o] = WAITING_FOR_CASH_PAYMENT => order[o].method = CASH
BY DEF OrderInv, RowsPaid, Honest

-----------------------------------------------------------------------------
(* Requests, callbacks and the job arrive                                  *)

LEMMA CallbackKept ==
    ASSUME OrderInv, NEW w \in Process, NEW o \in Order, NEW a \in {CONFIRMED, REJECTED},
           Callback(w, o, a)
    PROVE  OrderInv'
<1> DEFINE t == [NoTx EXCEPT !.op = "callback", !.o = o, !.goal = a, !.old = order[o].state]
<1>1. Present(o) /\ (a = CONFIRMED => Paid(o))
  BY RowFit DEF Callback, Paid
<1>2. t \in Transaction
  BY <1>1, RowFit, NoTxFits, States, ZenonT(30) DEF Transaction
<1>3. ControlOK("set_state", t)
  BY <1>1, States DEF ControlOK, NoTx
<1>4. Honest => PaidOK("set_state", t)
  BY <1>1, PaidRow, States DEF PaidOK, NoTx
<1>5. Fit("set_state", t)
  BY <1>2, <1>3, <1>4 DEF Fit, Steps
<1> QED
  BY <1>5, StartKept DEF Callback

LEMMA JobBeginKept ==
    ASSUME OrderInv, NEW c \in Process, JobBegin(c)
    PROVE  OrderInv'
<1> DEFINE t == [NoTx EXCEPT !.op = "job", !.goal = EXPIRED, !.then = "next"]
<1>1. t \in Transaction
  BY NoTxFits, States, ZenonT(30) DEF Transaction
<1>2. Fit("query", t)
  BY <1>1, States DEF Fit, ControlOK, PaidOK, NoTx, Steps
<1> QED
  BY <1>2, StartKept DEF JobBegin

LEMMA AdminBeginKept ==
    ASSUME OrderInv, NEW w \in Process, NEW o \in Order, AdminBegin(w, o)
    PROVE  OrderInv'
<1> DEFINE t == [NoTx EXCEPT !.op = "admin", !.o = o, !.goal = CANCELLED, !.old = CONFIRMED]
<1>1. Present(o) /\ (Honest => Paid(o))
  BY PaidRow, States DEF AdminBegin, Present
<1>2. t \in Transaction
  BY NoTxFits, States, ZenonT(30) DEF Transaction
<1>3. Fit("set_state", t)
  BY <1>1, <1>2, States DEF Fit, ControlOK, PaidOK, NoTx, Steps
<1> QED
  BY <1>3, StartKept DEF AdminBegin

LEMMA DeleteBeginKept ==
    ASSUME OrderInv, NEW w \in Process, NEW u \in By, NEW o \in Order, DeleteBegin(w, u, o)
    PROVE  OrderInv'
<1> DEFINE t == [NoTx EXCEPT !.op = "delete", !.o = o, !.by = u, !.goal = CANCELLED,
                             !.old = order[o].state]
<1>1. Present(o)
  BY DEF DeleteBegin, Present
<1>2. t \in Transaction
  BY <1>1, RowFit, NoTxFits, States, ZenonT(30) DEF Transaction
<1>3. ControlOK("cancel", t)
  BY <1>1, States DEF ControlOK, NoTx
<1>4. Honest => PaidOK("cancel", t)
  BY <1>1, PaidRow, States DEF PaidOK, NoTx
<1>5. Fit("cancel", t)
  BY <1>2, <1>3, <1>4 DEF Fit, Steps
<1> QED
  BY <1>5, StartKept DEF DeleteBegin

LEMMA CancelRangeBeginKept ==
    ASSUME OrderInv, NEW w \in Process, NEW o \in Order, CancelRangeBegin(w, o)
    PROVE  OrderInv'
<1> DEFINE t == [NoTx EXCEPT !.op = "range", !.o = o, !.goal = CANCELLED]
<1>1. Present(o)
  BY DEF CancelRangeBegin, Present
<1>2. t \in Transaction
  BY NoTxFits, States, ZenonT(30) DEF Transaction
<1>3. Fit("cancel", t)
  BY <1>1, <1>2, States DEF Fit, ControlOK, PaidOK, NoTx, Steps
<1> QED
  BY <1>3, StartKept DEF CancelRangeBegin

LEMMA PutBeginKept ==
    ASSUME OrderInv, NEW w \in Process, NEW u \in By, NEW o \in Order,
           NEW s \in AskedStates \cup {Keep}, NEW pay \in BOOLEAN, PutBegin(w, u, o, s, pay)
    PROVE  OrderInv'
<1> DEFINE t == [NoTx EXCEPT !.op = "put", !.o = o, !.by = u, !.ask = s, !.pay = pay,
                             !.old = order[o].state, !.copy = resv[o]]
<1>1. Present(o)
  BY DEF PutBegin, Present
<1>2. t \in Transaction
  BY <1>1, RowFit, NoTxFits, States, ZenonT(30) DEF Transaction
<1>3. ControlOK("validate", t)
  BY <1>1, States DEF ControlOK, NoTx
<1>4. Honest => PaidOK("validate", t)
  BY <1>1, PaidRow, States DEF PaidOK, NoTx, Honest
<1>5. Fit("validate", t)
  BY <1>2, <1>3, <1>4 DEF Fit, Steps
<1> QED
  BY <1>5, StartKept DEF PutBegin

-----------------------------------------------------------------------------
(* Order.set_state                                                         *)

SetStateSteps == {"set_state", "read_resv", "save_resv"}

\* The step after set_state
LEMMA ThenFits ==
    ASSUME OrderInv, NEW p \in Process, at[p] \in SetStateSteps
    PROVE  Fit(tx[p].then, tx[p]) /\ Fit("read_resv", tx[p]) /\ Fit("save_resv", tx[p])
<1> DEFINE t == tx[p]
<1>1. /\ t \in Transaction /\ t.then \in {"commit", "next", "save", "log"}
      /\ ControlOK(at[p], t) /\ (Honest => PaidOK(at[p], t))
  BY OwnFit DEF Transaction
<1>2. ControlOK(t.then, t) /\ ControlOK("read_resv", t) /\ ControlOK("save_resv", t)
  BY <1>1 DEF ControlOK, SetStateSteps
<1>3. ASSUME Honest PROVE PaidOK("read_resv", t) /\ PaidOK("save_resv", t) /\ PaidOK(t.then, t)
  BY <1>1, <1>3 DEF PaidOK, SetStateSteps
<1> QED
  BY <1>1, <1>2, <1>3 DEF Fit, Steps

\* Its order, and that it may be confirmed
LEMMA GoalFits ==
    ASSUME OrderInv, NEW p \in Process, at[p] \in SetStateSteps
    PROVE  /\ Present(tx[p].o)
           /\ tx[p].goal = CONFIRMED /\ Honest => Paid(tx[p].o)
BY OwnFit DEF ControlOK, PaidOK, SetStateSteps

\* The order in memory gets the new state
LEMMA MadeFits ==
    ASSUME NEW l, NEW t, Fit(l, t), t.goal = CONFIRMED /\ Honest => Paid(t.o)
    PROVE  Fit(l, [t EXCEPT !.old = t.goal])
<1> DEFINE u == [t EXCEPT !.old = t.goal]
<1>1. t \in Transaction
  BY DEF Fit
<1>2. u \in Transaction
  BY <1>1, Zenon DEF Transaction
<1>3. /\ u.o = t.o /\ u.todo = t.todo /\ u.orders = t.orders /\ u.resvs = t.resvs /\ u.then = t.then
      /\ u.op = t.op /\ u.goal = t.goal /\ u.ask = t.ask /\ u.copy = t.copy /\ u.fresh = t.fresh
      /\ u.old = t.goal
  BY <1>1 DEF Transaction
<1>4. ControlOK(l, u)
  BY <1>3 DEF Fit, ControlOK
<1>5. Honest => PaidOK(l, u)
  BY <1>3 DEF Fit, PaidOK
<1> QED
  BY <1>2, <1>4, <1>5 DEF Fit

\* The order is written
LEMMA OrderWrittenFits ==
    ASSUME NEW l, NEW t, Fit(l, t), NEW s \in OrderState, Present(t.o),
           s = CONFIRMED /\ Honest => Paid(t.o)
    PROVE  Fit(l, [t EXCEPT !.orders[t.o] = s])
<1> DEFINE u == [t EXCEPT !.orders[t.o] = s]
<1>1. t \in Transaction /\ t.o \in Order /\ t.orders \in [Order -> OrderState \cup {Unsaved}]
  BY DEF Fit, Transaction
<1>2. u \in Transaction
  BY <1>1, Zenon DEF Transaction
<1>3. /\ u.o = t.o /\ u.todo = t.todo /\ u.resvs = t.resvs /\ u.then = t.then
      /\ u.op = t.op /\ u.goal = t.goal /\ u.ask = t.ask /\ u.copy = t.copy /\ u.fresh = t.fresh
      /\ u.old = t.old /\ u.orders = [t.orders EXCEPT ![t.o] = s]
  BY <1>1 DEF Transaction
<1>4. \A o \in Order : u.orders[o] = (IF o = t.o THEN s ELSE t.orders[o])
  BY <1>1, <1>3
<1>5. ControlOK(l, u)
  BY <1>3, <1>4 DEF Fit, ControlOK
<1>6. Honest => PaidOK(l, u)
  BY <1>3, <1>4 DEF Fit, PaidOK
<1> QED
  BY <1>2, <1>5, <1>6 DEF Fit

\* The reservation is written, and kept in memory or not
LEMMA ReservationWrittenFits ==
    ASSUME NEW l, NEW t, Fit(l, t), NEW s \in ReservationState, Present(t.o),
           s = WAITING_FOR_CASH_PAYMENT /\ Honest => order[t.o].method = CASH
    PROVE  Fit(l, [t EXCEPT !.resvs[t.o] = s])
<1> DEFINE u == [t EXCEPT !.resvs[t.o] = s]
<1>1. t \in Transaction /\ t.o \in Order /\ t.resvs \in [Order -> ReservationState \cup {Unsaved}]
  BY DEF Fit, Transaction
<1>2. u \in Transaction
  BY <1>1, Zenon DEF Transaction
<1>3. /\ u.o = t.o /\ u.todo = t.todo /\ u.orders = t.orders /\ u.then = t.then
      /\ u.op = t.op /\ u.goal = t.goal /\ u.ask = t.ask /\ u.copy = t.copy /\ u.fresh = t.fresh
      /\ u.old = t.old /\ u.resvs = [t.resvs EXCEPT ![t.o] = s]
  BY <1>1 DEF Transaction
<1>4. \A o \in Order : u.resvs[o] = (IF o = t.o THEN s ELSE t.resvs[o])
  BY <1>1, <1>3
<1>5. ControlOK(l, u)
  BY <1>3, <1>4 DEF Fit, ControlOK
<1>6. Honest => PaidOK(l, u)
  BY <1>3, <1>4 DEF Fit, PaidOK
<1> QED
  BY <1>2, <1>5, <1>6 DEF Fit

\* What restarts a waiting time does not matter here
LEMMA RestartFits ==
    ASSUME NEW l, NEW t, Fit(l, t), NEW r \in SUBSET {"modified", "staff"}
    PROVE  Fit(l, [t EXCEPT !.restart = r])
<1> DEFINE u == [t EXCEPT !.restart = r]
<1>1. t \in Transaction
  BY DEF Fit
<1>2. u \in Transaction
  BY <1>1, Zenon DEF Transaction
<1>3. /\ u.o = t.o /\ u.todo = t.todo /\ u.orders = t.orders /\ u.resvs = t.resvs /\ u.then = t.then
      /\ u.op = t.op /\ u.goal = t.goal /\ u.ask = t.ask /\ u.copy = t.copy /\ u.fresh = t.fresh
      /\ u.old = t.old
  BY <1>1 DEF Transaction
<1>4. ControlOK(l, u) /\ (Honest => PaidOK(l, u))
  BY <1>3 DEF Fit, ControlOK, PaidOK
<1> QED
  BY <1>2, <1>4 DEF Fit

LEMMA SetStateSkipsKept ==
    ASSUME OrderInv, NEW p \in Process, SetStateSkips(p)
    PROVE  OrderInv'
BY ThenFits, LocalKept DEF SetStateSkips, SetStateSteps

LEMMA RaiseKept ==
    ASSUME OrderInv, NEW p \in Process, at[p] = "set_state", Raise(p)
    PROVE  OrderInv'
<1>1. Fit("commit", tx[p])
  <2>1. tx[p] \in Transaction /\ ControlOK("set_state", tx[p]) /\ (Honest => PaidOK("set_state", tx[p]))
    BY OwnFit
  <2>2. ControlOK("commit", tx[p]) /\ (Honest => PaidOK("commit", tx[p]))
    BY <2>1 DEF ControlOK, PaidOK
  <2> QED
    BY <2>1, <2>2 DEF Fit, Steps
<1>2. CASE Rollback(p)
  BY <1>2, RollbackKept
<1>3. CASE Step(p, "commit", tx[p]) /\ UNCHANGED <<rows, locks, service>>
  BY <1>1, <1>3, LocalKept
<1> QED
  BY <1>2, <1>3 DEF Raise

LEMMA SetStateKept ==
    ASSUME OrderInv, NEW p \in Process, SetState(p)
    PROVE  OrderInv'
<1> DEFINE t == tx[p]
           made == [t EXCEPT !.old = t.goal]
           written == [made EXCEPT !.orders[t.o] = t.goal]
           lock == olock' = [olock EXCEPT ![t.o] = p] /\ UNCHANGED <<rows, rlock, service>>
<1>1. at[p] \in SetStateSteps /\ at[p] = "set_state" /\ t \in Transaction /\ t.o \in Order
  BY OwnFit DEF SetState, SetStateSteps
<1>2. lock => LockTypes' /\ UNCHANGED <<order, resv, due, initiated, answers>>
  BY <1>1, InvParts DEF LockTypes, rows, service
<1>3. CASE Step(p, t.then, t) /\ lock
  BY <1>1, <1>2, <1>3, ThenFits, QuietKept
<1>4. CASE Raise(p)
  BY <1>1, <1>4, RaiseKept
<1>5. Fit("read_resv", made) /\ Fit(t.then, made)
  BY <1>1, ThenFits, GoalFits, MadeFits
<1>6. CASE Step(p, "read_resv", made) /\ lock
  BY <1>2, <1>5, <1>6, QuietKept
<1>7. Fit(t.then, written)
  <2>1. made.o = t.o /\ t.goal \in OrderState
    BY <1>1 DEF Transaction
  <2>2. Present(t.o) /\ (t.goal = CONFIRMED /\ Honest => Paid(t.o))
    BY <1>1, GoalFits
  <2>3. Fit(t.then, [made EXCEPT !.orders[made.o] = t.goal])
    BY <1>5, <2>1, <2>2, OrderWrittenFits
  <2> QED
    BY <2>1, <2>3
<1>8. CASE Step(p, t.then, written) /\ lock
  BY <1>2, <1>7, <1>8, QuietKept
<1> QED
  BY <1>3, <1>4, <1>6, <1>8 DEF SetState

LEMMA ReadReservationKept ==
    ASSUME OrderInv, NEW p \in Process, ReadReservation(p)
    PROVE  OrderInv'
<1> DEFINE t == tx[p]
<1>1. at[p] \in SetStateSteps /\ t.goal \in OrderState
  BY OwnFit DEF ReadReservation, SetStateSteps, Transaction
<1>2. Fit(t.then, [t EXCEPT !.orders[t.o] = t.goal])
  BY <1>1, ThenFits, GoalFits, OrderWrittenFits
<1>3. Fit("save_resv", t)
  BY <1>1, ThenFits
<1> QED
  BY <1>2, <1>3, LocalKept DEF ReadReservation

LEMMA SaveReservationKept ==
    ASSUME OrderInv, NEW p \in Process, SaveReservation(p)
    PROVE  OrderInv'
<1> DEFINE t == tx[p]
           s == IF t.goal = CONFIRMED THEN CONFIRMED ELSE CANCELLED
           a == [t EXCEPT !.orders[t.o] = t.goal]
           b == [a EXCEPT !.restart = {"modified"}]
           c == [b EXCEPT !.resvs[t.o] = s]
           d == [t EXCEPT !.orders[t.o] = t.goal, !.restart = {"modified"}, !.resvs[t.o] = s]
<1>1. at[p] \in SetStateSteps /\ t \in Transaction /\ t.o \in Order /\ t.goal \in OrderState
  BY OwnFit DEF SaveReservation, SetStateSteps, Transaction
<1>2. Present(t.o)
  BY <1>1, GoalFits
<1>3. Fit(t.then, a)
  BY <1>1, ThenFits, GoalFits, OrderWrittenFits
<1>4. Fit(t.then, b) /\ b.o = t.o
  BY <1>1, <1>3, RestartFits DEF Transaction
<1>5. Fit(t.then, c)
  <2>1. s \in ReservationState /\ s # WAITING_FOR_CASH_PAYMENT
    BY States
  <2>2. Fit(t.then, [b EXCEPT !.resvs[b.o] = s])
    BY <1>2, <1>4, <2>1, ReservationWrittenFits
  <2> QED
    BY <1>4, <2>2
<1>6. c = d
  BY <1>1, Zenon DEF Transaction
<1>7. LockTypes' /\ UNCHANGED <<order, resv, due, initiated, answers>>
  BY <1>1, InvParts DEF SaveReservation, LockTypes, rows, service
<1> QED
  BY <1>5, <1>6, <1>7, QuietKept DEF SaveReservation

-----------------------------------------------------------------------------
(* The job                                                                 *)

LEMMA JobQueryKept ==
    ASSUME OrderInv, NEW p \in Process, JobQuery(p)
    PROVE  OrderInv'
<1> DEFINE t == tx[p]
           found == {o \in Order : Expirable(p, t.class, o)}
           u == [t EXCEPT !.todo = found]
<1>1. t \in Transaction /\ ControlOK("query", t) /\ (Honest => PaidOK("query", t))
  BY OwnFit DEF JobQuery
<1>2. \A o \in found : Present(o)
  BY <1>1, States DEF Expirable, SeenOrder, ControlOK, Present
<1>3. u \in Transaction
  BY <1>1, Zenon DEF Transaction
<1>4. /\ u.o = t.o /\ u.todo = found /\ u.orders = t.orders /\ u.resvs = t.resvs /\ u.then = t.then
      /\ u.op = t.op /\ u.goal = t.goal /\ u.ask = t.ask /\ u.copy = t.copy /\ u.fresh = t.fresh
      /\ u.old = t.old
  BY <1>1 DEF Transaction
<1>5. ControlOK("next", u) /\ (Honest => PaidOK("next", u))
  BY <1>1, <1>2, <1>4 DEF ControlOK, PaidOK
<1>6. Fit("next", u)
  BY <1>3, <1>5 DEF Fit, Steps
<1> QED
  BY <1>6, LocalKept DEF JobQuery

LEMMA JobNextKept ==
    ASSUME OrderInv, NEW p \in Process, JobNext(p)
    PROVE  OrderInv'
<1> DEFINE t == tx[p]
<1>1. t \in Transaction /\ ControlOK("next", t) /\ (Honest => PaidOK("next", t))
  BY OwnFit DEF JobNext
<1>2. ASSUME NEW o \in t.todo,
             Step(p, "set_state", [t EXCEPT !.o = o, !.todo = t.todo \ {o}, !.old = WAITING]),
             UNCHANGED <<rows, locks, service>>
      PROVE  OrderInv'
  <2> DEFINE u == [t EXCEPT !.o = o, !.todo = t.todo \ {o}, !.old = WAITING]
  <2>1. o \in Order /\ Present(o) /\ t.todo \ {o} \in SUBSET Order
    BY <1>1 DEF ControlOK, Transaction
  <2>2. u \in Transaction
    BY <1>1, <2>1, States, Zenon DEF Transaction
  <2>3. /\ u.o = o /\ u.todo = t.todo \ {o} /\ u.orders = t.orders /\ u.resvs = t.resvs
        /\ u.then = t.then /\ u.op = t.op /\ u.goal = t.goal /\ u.ask = t.ask /\ u.copy = t.copy
        /\ u.fresh = t.fresh /\ u.old = WAITING
    BY <1>1 DEF Transaction
  <2>4. ControlOK("set_state", u)
    BY <1>1, <2>1, <2>3 DEF ControlOK
  <2>5. Honest => PaidOK("set_state", u)
    BY <1>1, <2>3, States DEF ControlOK, PaidOK
  <2> QED
    BY <1>2, <2>2, <2>4, <2>5, LocalKept DEF Fit, Steps
<1>3. ASSUME t.class < 3, Step(p, "query", [t EXCEPT !.class = t.class + 1]),
             UNCHANGED <<rows, locks, service>>
      PROVE  OrderInv'
  <2> DEFINE u == [t EXCEPT !.class = t.class + 1]
  <2>1. t.class + 1 \in 1..3
    BY <1>1, <1>3 DEF Transaction
  <2>2. u \in Transaction
    BY <1>1, <2>1, Zenon DEF Transaction
  <2>3. /\ u.o = t.o /\ u.todo = t.todo /\ u.orders = t.orders /\ u.resvs = t.resvs
        /\ u.then = t.then /\ u.op = t.op /\ u.goal = t.goal /\ u.ask = t.ask /\ u.copy = t.copy
        /\ u.fresh = t.fresh /\ u.old = t.old
    BY <1>1 DEF Transaction
  <2>4. ControlOK("query", u) /\ (Honest => PaidOK("query", u))
    BY <1>1, <2>3 DEF ControlOK, PaidOK
  <2> QED
    BY <1>3, <2>2, <2>4, LocalKept DEF Fit, Steps
<1>4. ASSUME Step(p, "commit", t), UNCHANGED <<rows, locks, service>>
      PROVE  OrderInv'
  <2>1. ControlOK("commit", t) /\ (Honest => PaidOK("commit", t))
    BY <1>1 DEF ControlOK, PaidOK
  <2> QED
    BY <1>1, <1>4, <2>1, LocalKept DEF Fit, Steps
<1> QED
  BY <1>2, <1>3, <1>4 DEF JobNext

-----------------------------------------------------------------------------
(* Cancellations and updates                                               *)

LEMMA CancelReservationKept ==
    ASSUME OrderInv, NEW p \in Process, CancelReservation(p)
    PROVE  OrderInv'
<1> DEFINE t == tx[p]
           old == IF t.op = "range" THEN order[t.o].state ELSE t.old
           u == [t EXCEPT !.resvs[t.o] = CANCELLED, !.copy = CANCELLED, !.old = old]
<1>1. t \in Transaction /\ t.o \in Order /\ ControlOK("cancel", t) /\ (Honest => PaidOK("cancel", t))
  BY OwnFit DEF CancelReservation
<1>2. Present(t.o) /\ t.goal = CANCELLED
  BY <1>1 DEF ControlOK
<1>3. old \in OrderState /\ (old = CONFIRMED /\ Honest => Paid(t.o))
  BY <1>1, <1>2, RowFit, PaidRow DEF PaidOK, Transaction
<1>4. t.resvs \in [Order -> ReservationState \cup {Unsaved}]
  BY <1>1 DEF Transaction
<1>5. [t.resvs EXCEPT ![t.o] = CANCELLED] \in [Order -> ReservationState \cup {Unsaved}]
  BY <1>1, <1>4, States
<1>6. u \in Transaction
  BY <1>1, <1>3, <1>5, States, Zenon DEF Transaction
<1>7. /\ u.o = t.o /\ u.todo = t.todo /\ u.orders = t.orders /\ u.then = t.then /\ u.op = t.op
      /\ u.goal = t.goal /\ u.ask = t.ask /\ u.copy = CANCELLED /\ u.fresh = t.fresh /\ u.old = old
      /\ u.resvs = [t.resvs EXCEPT ![t.o] = CANCELLED]
  BY <1>1 DEF Transaction
<1>8. \A o \in Order : u.resvs[o] = (IF o = t.o THEN CANCELLED ELSE t.resvs[o])
  BY <1>1, <1>4, <1>7
<1>9. ControlOK("set_state", u)
  BY <1>1, <1>7, <1>8 DEF ControlOK
<1>10. Honest => PaidOK("set_state", u)
  BY <1>1, <1>2, <1>3, <1>7, <1>8, States DEF PaidOK
<1>11. Fit("set_state", u)
  BY <1>6, <1>9, <1>10 DEF Fit, Steps
<1>12. LockTypes' /\ UNCHANGED <<order, resv, due, initiated, answers>>
  BY <1>1, InvParts DEF CancelReservation, LockTypes, rows, service
<1> QED
  BY <1>11, <1>12, QuietKept DEF CancelReservation

LEMMA PutValidateKept ==
    ASSUME OrderInv, NEW p \in Process, PutValidate(p)
    PROVE  OrderInv'
<1>1. tx[p] \in Transaction /\ ControlOK("validate", tx[p]) /\ (Honest => PaidOK("validate", tx[p]))
  BY OwnFit DEF PutValidate
<1>2. Fit("reload", tx[p])
  BY <1>1 DEF Fit, Steps, ControlOK, PaidOK
<1> QED
  BY <1>2, LocalKept DEF PutValidate

\* The state to set is one, and waits for cash only where cash was chosen
LEMMA NextStateFits ==
    ASSUME NEW ask \in ReservationState \cup {Keep}, NEW rs \in ReservationState,
           NEW os, NEW method, NEW u
    PROVE  LET next == NextState(ask, rs, os, method, u)
           IN  /\ next \in ReservationState /\ next # Keep
               /\ next = WAITING_FOR_CASH_PAYMENT
                    => method = CASH \/ WAITING_FOR_CASH_PAYMENT \in {ask, rs}
BY States DEF NextState

LEMMA PutReloadKept ==
    ASSUME OrderInv, NEW p \in Process, PutReload(p)
    PROVE  OrderInv'
<1> DEFINE t == tx[p]
           next == NextState(t.ask, resv[t.o], order[t.o].state, order[t.o].method, t.by)
           u == [t EXCEPT !.fresh = resv[t.o], !.ask = next]
<1>1. /\ t \in Transaction /\ t.o \in Order /\ t.ask \in ReservationState \cup {Keep}
      /\ ControlOK("reload", t) /\ (Honest => PaidOK("reload", t))
  BY OwnFit DEF PutReload, Transaction
<1>2. Present(t.o) /\ t.op = "put" /\ resv[t.o] \in ReservationState
  BY <1>1, RowFit DEF ControlOK
<1>3. /\ next \in ReservationState /\ next # Keep
      /\ next = WAITING_FOR_CASH_PAYMENT
            => order[t.o].method = CASH \/ WAITING_FOR_CASH_PAYMENT \in {t.ask, resv[t.o]}
  BY <1>1, <1>2, NextStateFits
<1>4. Honest /\ WAITING_FOR_CASH_PAYMENT \in {next, resv[t.o]} => order[t.o].method = CASH
  BY <1>1, <1>3, PaidRow DEF PaidOK
<1>5. u \in Transaction
  BY <1>1, <1>2, <1>3, Zenon DEF Transaction
<1>6. /\ u.o = t.o /\ u.todo = t.todo /\ u.orders = t.orders /\ u.resvs = t.resvs /\ u.then = t.then
      /\ u.op = t.op /\ u.goal = t.goal /\ u.ask = next /\ u.copy = t.copy /\ u.fresh = resv[t.o]
      /\ u.old = t.old
  BY <1>1 DEF Transaction
<1>7. ControlOK("pay", u) /\ ControlOK("save", u)
  BY <1>1, <1>2, <1>3, <1>6 DEF ControlOK
<1>8. Honest => PaidOK("pay", u) /\ PaidOK("save", u)
  BY <1>1, <1>2, <1>4, <1>6 DEF PaidOK
<1>9. Fit("pay", u) /\ Fit("save", u)
  BY <1>5, <1>7, <1>8 DEF Fit, Steps
<1> QED
  BY <1>9, LocalKept, RollbackKept DEF PutReload

LEMMA PutPayKept ==
    ASSUME OrderInv, NEW p \in Process, PutPay(p)
    PROVE  OrderInv'
<1> DEFINE t == tx[p]
           u == [t EXCEPT !.orders[t.o] = t.old, !.goal = CONFIRMED, !.sync = FALSE, !.then = "save"]
<1>1. /\ t \in Transaction /\ t.o \in Order /\ t.old \in OrderState
      /\ t.orders \in [Order -> OrderState \cup {Unsaved}]
      /\ ControlOK("pay", t) /\ (Honest => PaidOK("pay", t))
  BY OwnFit DEF PutPay, Transaction
<1>2. Present(t.o) /\ t.op = "put" /\ t.ask # Keep
  BY <1>1 DEF ControlOK
<1>3. [t.orders EXCEPT ![t.o] = t.old] \in [Order -> OrderState \cup {Unsaved}]
  BY <1>1
<1>4. u \in Transaction
  BY <1>1, <1>3, States, Zenon DEF Transaction
<1>5. /\ u.o = t.o /\ u.todo = t.todo /\ u.resvs = t.resvs /\ u.then = "save" /\ u.op = t.op
      /\ u.goal = CONFIRMED /\ u.ask = t.ask /\ u.copy = t.copy /\ u.fresh = t.fresh
      /\ u.old = t.old /\ u.orders = [t.orders EXCEPT ![t.o] = t.old]
  BY <1>1 DEF Transaction
<1>6. \A o \in Order : u.orders[o] = (IF o = t.o THEN t.old ELSE t.orders[o])
  BY <1>1, <1>5
<1>7. ControlOK("set_state", u) /\ ControlOK("save", u)
  BY <1>1, <1>2, <1>5, <1>6 DEF ControlOK
<1>8. Honest => PaidOK("save", u) /\ (order[t.o].free => PaidOK("set_state", u))
  BY <1>1, <1>5, <1>6 DEF PaidOK, Paid
<1>9. Fit("save", u) /\ (order[t.o].free => Fit("set_state", u))
  BY <1>4, <1>7, <1>8 DEF Fit, Steps
<1>10. Grows
  BY DEF PutPay, Grows, Present, Paid, rows
<1>11. Rows'
  <2>1. initiated' \in [Order -> BOOLEAN] /\ \A o \in Order \ {t.o} : initiated'[o] = initiated[o]
    BY <1>1, InvParts DEF PutPay, Rows, RowTypes
  <2>2. initiated[t.o] => initiated'[t.o]
    BY <1>1, InvParts DEF PutPay, Rows, RowTypes
  <2> QED
    BY <1>2, <2>1, <2>2, InvParts DEF PutPay, Rows, RowTypes, RowsOK, RowsPaid, Present, Paid, Honest, rows
<1>12. LockTypes'
  BY <1>1, InvParts DEF PutPay, LockTypes
<1> QED
  BY <1>9, <1>10, <1>11, <1>12, StepKept DEF PutPay

LEMMA PutSaveKept ==
    ASSUME OrderInv, NEW p \in Process, PutSave(p)
    PROVE  OrderInv'
<1> DEFINE t == tx[p]
           a == [t EXCEPT !.resvs[t.o] = t.copy]
           d == [t EXCEPT !.resvs[t.o] = t.copy, !.restart = {"modified"}]
<1>1. /\ t \in Transaction /\ t.o \in Order /\ t.copy \in ReservationState
      /\ ControlOK("save", t) /\ (Honest => PaidOK("save", t))
  BY OwnFit DEF PutSave, Transaction
<1>2. Fit("state", t)
  BY <1>1 DEF Fit, Steps, ControlOK, PaidOK
<1>3. Present(t.o) /\ (t.copy = WAITING_FOR_CASH_PAYMENT /\ Honest => order[t.o].method = CASH)
  BY <1>1 DEF ControlOK, PaidOK
<1>4. Fit("state", a)
  BY <1>1, <1>2, <1>3, ReservationWrittenFits
<1>5. Fit("state", [a EXCEPT !.restart = {"modified"}])
  BY <1>4, RestartFits
<1>6. d = [a EXCEPT !.restart = {"modified"}]
  BY <1>1, Zenon DEF Transaction
<1>7. LockTypes' /\ UNCHANGED <<order, resv, due, initiated, answers>>
  BY <1>1, InvParts DEF PutSave, LockTypes, rows, service
<1> QED
  BY <1>5, <1>6, <1>7, QuietKept DEF PutSave

\* The reservation in its new state, saved and in memory
LEMMA SavedFits ==
    ASSUME OrderInv, NEW p \in Process, at[p] = "state"
    PROVE  LET t == tx[p] IN Fit("state", [t EXCEPT !.resvs[t.o] = t.ask, !.copy = t.ask])
<1> DEFINE t == tx[p]
           u == [t EXCEPT !.resvs[t.o] = t.ask, !.copy = t.ask]
<1>1. /\ t \in Transaction /\ t.o \in Order /\ t.ask \in ReservationState \cup {Keep}
      /\ t.resvs \in [Order -> ReservationState \cup {Unsaved}]
      /\ ControlOK("state", t) /\ (Honest => PaidOK("state", t))
  BY OwnFit DEF Transaction
<1>2. Present(t.o) /\ t.op = "put" /\ t.ask \in ReservationState
  BY <1>1 DEF ControlOK
<1>3. [t.resvs EXCEPT ![t.o] = t.ask] \in [Order -> ReservationState \cup {Unsaved}]
  BY <1>1, <1>2
<1>4. u \in Transaction
  BY <1>1, <1>2, <1>3, Zenon DEF Transaction
<1>5. /\ u.o = t.o /\ u.todo = t.todo /\ u.orders = t.orders /\ u.then = t.then /\ u.op = t.op
      /\ u.goal = t.goal /\ u.ask = t.ask /\ u.copy = t.ask /\ u.fresh = t.fresh
      /\ u.old = t.old /\ u.resvs = [t.resvs EXCEPT ![t.o] = t.ask]
  BY <1>1 DEF Transaction
<1>6. \A o \in Order : u.resvs[o] = (IF o = t.o THEN t.ask ELSE t.resvs[o])
  BY <1>1, <1>5
<1>7. ControlOK("state", u)
  BY <1>1, <1>2, <1>5, <1>6 DEF ControlOK
<1>8. Honest => PaidOK("state", u)
  BY <1>1, <1>5, <1>6 DEF PaidOK
<1> QED
  BY <1>4, <1>7, <1>8 DEF Fit, Steps

LEMMA PutStateKept ==
    ASSUME OrderInv, NEW p \in Process, PutState(p)
    PROVE  OrderInv'
<1> DEFINE t == tx[p]
           saved == [t EXCEPT !.resvs[t.o] = t.ask, !.copy = t.ask]
           paid == CashPaid(t.fresh, t.ask)
           last == [saved EXCEPT !.goal = CONFIRMED, !.sync = TRUE, !.then = "log"]
<1>1. /\ t \in Transaction /\ t.o \in Order /\ at[p] = "state"
      /\ ControlOK("state", t) /\ (Honest => PaidOK("state", t))
  BY OwnFit DEF PutState
<1>2. Fit("state", saved) /\ saved.o = t.o /\ saved.op = t.op /\ saved \in Transaction
  BY <1>1, SavedFits DEF Fit, Transaction
<1>3. Fit("notify", saved) /\ Fit("log", saved)
  BY <1>2 DEF Fit, Steps, ControlOK, PaidOK
<1>4. ASSUME paid PROVE Fit("set_state", last)
  <2>1. Present(t.o) /\ t.op = "put" /\ (Honest => Paid(t.o))
    BY <1>1, <1>4 DEF ControlOK, PaidOK, CashPaid, Paid
  <2>2. last \in Transaction
    BY <1>2, States, Zenon DEF Transaction
  <2>3. /\ last.o = t.o /\ last.todo = saved.todo /\ last.orders = saved.orders
        /\ last.resvs = saved.resvs /\ last.then = "log" /\ last.op = t.op
        /\ last.goal = CONFIRMED /\ last.ask = saved.ask /\ last.copy = saved.copy
        /\ last.fresh = saved.fresh /\ last.old = saved.old
    BY <1>2 DEF Transaction
  <2>4. ControlOK("set_state", last)
    BY <1>2, <2>1, <2>3 DEF Fit, ControlOK
  <2>5. Honest => PaidOK("set_state", last)
    BY <1>2, <2>1, <2>3 DEF Fit, PaidOK
  <2> QED
    BY <2>2, <2>4, <2>5 DEF Fit, Steps
<1>5. CASE t.ask = READY_FOR_PAYMENT
  <2>1. ~paid
    BY <1>5 DEF CashPaid, READY_FOR_PAYMENT, CONFIRMED
  <2>2. Step(p, "notify", saved) /\ UNCHANGED <<rows, locks, service>>
    BY <1>5, <2>1 DEF PutState
  <2> QED
    BY <1>3, <2>2, LocalKept
<1>6. CASE t.ask # READY_FOR_PAYMENT /\ paid
  <2>1. Step(p, "set_state", last) /\ UNCHANGED <<rows, locks, service>>
    BY <1>6 DEF PutState
  <2> QED
    BY <1>4, <1>6, <2>1, LocalKept
<1>7. CASE t.ask # READY_FOR_PAYMENT /\ ~paid
  <2>1. Step(p, "log", saved) /\ UNCHANGED <<rows, locks, service>>
    BY <1>7 DEF PutState
  <2> QED
    BY <1>3, <2>1, LocalKept
<1> QED
  BY <1>5, <1>6, <1>7

LEMMA PutNotifyKept ==
    ASSUME OrderInv, NEW p \in Process, PutNotify(p)
    PROVE  OrderInv'
<1> DEFINE t == tx[p]
           a == [t EXCEPT !.orders[t.o] = t.old]
           r == {"modified", "staff"}
           d == [t EXCEPT !.orders[t.o] = t.old, !.restart = r]
<1>1. /\ t \in Transaction /\ t.o \in Order /\ t.old \in OrderState
      /\ ControlOK("notify", t) /\ (Honest => PaidOK("notify", t))
  BY OwnFit DEF PutNotify, Transaction
<1>2. Fit("log", t)
  BY <1>1 DEF Fit, Steps, ControlOK, PaidOK
<1>3. Present(t.o) /\ (t.old = CONFIRMED /\ Honest => Paid(t.o))
  BY <1>1 DEF ControlOK, PaidOK
<1>4. Fit("log", a)
  BY <1>1, <1>2, <1>3, OrderWrittenFits
<1>5. Fit("log", [a EXCEPT !.restart = r])
  BY <1>4, RestartFits
<1>6. d = [a EXCEPT !.restart = r]
  BY <1>1, Zenon DEF Transaction
<1>7. LockTypes' /\ UNCHANGED <<order, resv, due, initiated, answers>>
  BY <1>1, InvParts DEF PutNotify, LockTypes, rows, service
<1> QED
  BY <1>5, <1>6, <1>7, QuietKept DEF PutNotify

LEMMA PutLogKept ==
    ASSUME OrderInv, NEW p \in Process, PutLog(p)
    PROVE  OrderInv'
<1>1. /\ tx[p] \in Transaction /\ tx[p].o \in Order
      /\ ControlOK("log", tx[p]) /\ (Honest => PaidOK("log", tx[p]))
  BY OwnFit DEF PutLog
<1>2. Fit("commit", tx[p])
  BY <1>1 DEF Fit, Steps, ControlOK, PaidOK
<1>3. LockTypes' /\ UNCHANGED <<order, resv, due, initiated, answers>>
  BY <1>1, InvParts DEF PutLog, LockTypes, rows, service
<1> QED
  BY <1>2, <1>3, QuietKept DEF PutLog

-----------------------------------------------------------------------------
(* The steps that change rows                                              *)

LEMMA CommitKept ==
    ASSUME OrderInv, NEW p \in Process, Commit(p)
    PROVE  OrderInv'
<1> DEFINE t == tx[p]
<1>1. /\ t \in Transaction /\ t.o \in Order
      /\ ControlOK("commit", t) /\ (Honest => PaidOK("commit", t))
      /\ t.orders \in [Order -> OrderState \cup {Unsaved}]
      /\ t.resvs \in [Order -> ReservationState \cup {Unsaved}]
  BY OwnFit DEF Commit, Transaction
<1>2. Rows
  BY InvParts
<1>3. \A o \in Order : /\ order'[o] = [order[o] EXCEPT !.state = SeenOrder(p, o)]
                       /\ resv'[o] = SeenResv(p, o)
                       /\ answers'[o] = answers[o] /\ initiated'[o] = initiated[o]
  BY DEF Commit, service
<1>4. ASSUME NEW o \in Order
      PROVE  /\ order'[o].state = SeenOrder(p, o)
             /\ order'[o].method = order[o].method /\ order'[o].free = order[o].free
             /\ order'[o] \in [state : OrderState \cup {Absent}, manual : BOOLEAN,
                               requested : BOOLEAN, method : {CASH, ONLINE}, free : BOOLEAN, by : By]
             /\ ~Present(o) => order'[o] = order[o] /\ resv'[o] = resv[o]
             /\ Present(o) => SeenOrder(p, o) \in OrderState /\ SeenResv(p, o) \in ReservationState
  <2>1. order[o] \in [state : OrderState \cup {Absent}, manual : BOOLEAN,
                      requested : BOOLEAN, method : {CASH, ONLINE}, free : BOOLEAN, by : By]
    BY <1>2 DEF Rows, RowTypes
  <2>2. SeenOrder(p, o) \in OrderState \cup {Absent} /\ SeenResv(p, o) \in ReservationState \cup {Absent}
    BY <1>1, RowFit DEF SeenOrder, SeenResv
  <2>3. ~Present(o) => SeenOrder(p, o) = order[o].state /\ SeenResv(p, o) = resv[o]
    BY <1>1 DEF ControlOK, SeenOrder, SeenResv
  <2>4. Present(o) => SeenOrder(p, o) \in OrderState /\ SeenResv(p, o) \in ReservationState
    BY <1>1, RowFit DEF SeenOrder, SeenResv
  <2>5. order'[o] = [order[o] EXCEPT !.state = SeenOrder(p, o)]
    BY <1>3
  <2>6. order'[o] \in [state : OrderState \cup {Absent}, manual : BOOLEAN,
                       requested : BOOLEAN, method : {CASH, ONLINE}, free : BOOLEAN, by : By]
    BY <2>1, <2>2, <2>5, Zenon
  <2>7. /\ order'[o].state = SeenOrder(p, o)
        /\ order'[o].method = order[o].method /\ order'[o].free = order[o].free
    BY <2>1, <2>5
  <2>8. ~Present(o) => order'[o] = order[o] /\ resv'[o] = resv[o]
    BY <1>3, <2>1, <2>3, <2>5
  <2> QED
    BY <2>4, <2>6, <2>7, <2>8
<1>5. \A o \in Order : (Present(o)' <=> Present(o)) /\ (Paid(o)' <=> Paid(o))
  <2> TAKE o \in Order
  <2>1. /\ order'[o].state = SeenOrder(p, o) /\ answers'[o] = answers[o]
        /\ order'[o].method = order[o].method /\ order'[o].free = order[o].free
        /\ ~Present(o) => order'[o] = order[o]
        /\ Present(o) => SeenOrder(p, o) \in OrderState
    BY <1>3, <1>4
  <2> QED
    BY <2>1, States DEF Present, Paid
<1>6. Grows
  BY <1>4, <1>5 DEF Grows
<1>7. RowTypes'
  <2>1. \A o \in Order : SeenResv(p, o) \in ReservationState \cup {Absent}
    BY <1>1, RowFit DEF SeenResv
  <2>2. due' \in [Order -> SUBSET {"created", "staff", "modified"}]
    BY <1>1, <1>2 DEF Commit, Rows, RowTypes
  <2>3. order' \in [Order -> [state : OrderState \cup {Absent}, manual : BOOLEAN,
                               requested : BOOLEAN, method : {CASH, ONLINE}, free : BOOLEAN, by : By]]
    <3>1. order' = [o \in Order |-> order'[o]]
      BY DEF Commit
    <3> QED
      BY <1>4, <3>1
  <2> QED
    BY <1>2, <2>1, <2>2, <2>3 DEF Commit, Rows, RowTypes, service
<1>8. RowsOK'
  <2>1. \A o \in Order : /\ ~Present(o) => order'[o] = order[o]
                         /\ Present(o) => resv'[o] \in ReservationState
    BY <1>3, <1>4
  <2> QED
    BY <1>2, <1>3, <1>5, <2>1, States DEF Rows, RowsOK, NoOrder
<1>9. ASSUME Honest PROVE RowsPaid'
  <2>1. \A o \in Order : SeenOrder(p, o) = CONFIRMED => Paid(o)
    BY <1>1, <1>9, PaidRow DEF PaidOK, SeenOrder
  <2>2. \A o \in Order : SeenResv(p, o) = WAITING_FOR_CASH_PAYMENT => order[o].method = CASH
    BY <1>1, <1>9, PaidRow DEF PaidOK, SeenResv
  <2> QED
    BY <1>3, <1>4, <1>5, <2>1, <2>2 DEF RowsPaid
<1>10. LockTypes'
  BY InvParts DEF Commit, LockTypes
<1>11. Rows'
  BY <1>7, <1>8, <1>9 DEF Rows, Honest
<1> QED
  BY <1>6, <1>10, <1>11, NoTxFits, StepKept DEF Commit

LEMMA DeadlockKept ==
    ASSUME OrderInv, NEW p \in Process, Deadlock(p)
    PROVE  OrderInv'
<1>1. CASE at[p] = "save_resv"
  <2>1. Fit(tx[p].then, tx[p])
    BY <1>1, ThenFits DEF SetStateSteps
  <2>2. LockTypes' /\ UNCHANGED <<order, resv, due, initiated, answers>>
    BY <1>1, OwnFit, InvParts DEF Deadlock, LockTypes, rows, service
  <2> QED
    BY <1>1, <2>1, <2>2, QuietKept DEF Deadlock
<1>2. CASE at[p] # "save_resv"
  BY <1>2, RollbackKept DEF Deadlock
<1> QED
  BY <1>1, <1>2

\* A change of the rows that comes from outside the transactions under way
LEMMA OutsideKept ==
    ASSUME OrderInv, UNCHANGED <<at, tx, olock, rlock>>, Grows, Rows'
    PROVE  OrderInv'
<1>1. \A q \in Process : Fit(at[q], tx[q])'
  <2> TAKE q \in Process
  <2>1. Fit(at[q], tx[q])
    BY InvParts
  <2>2. \A k, u : Fit(k, u) => Fit(k, u)'
    BY FitKept
  <2> QED
    BY <2>1, <2>2 DEF Fit, ControlOK, PaidOK
<1> QED
  BY <1>1, InvParts DEF Rows, RowTypes, LockTypes, RowsOK, RowsPaid, Honest, Fit, OrderInv, TypeOK

LEMMA CreateKept ==
    ASSUME OrderInv, NEW o \in Order, NEW u \in By, NEW manual \in Manual,
           NEW method \in {CASH, ONLINE}, NEW free \in BOOLEAN, Create(o, u, manual, method, free)
    PROVE  OrderInv'
<1> DEFINE row == [state |-> IF free THEN CONFIRMED ELSE WAITING,
                   manual |-> manual, requested |-> manual /\ ~Can(u, "bypass"),
                   method |-> method, free |-> free, by |-> u]
<1>1. Rows
  BY InvParts
<1>2. ~Present(o) /\ order[o] = NoOrder /\ answers[o] = {}
  BY <1>1 DEF Create, Rows, RowsOK, Present
<1>3. row \in [state : OrderState \cup {Absent}, manual : BOOLEAN, requested : BOOLEAN,
               method : {CASH, ONLINE}, free : BOOLEAN, by : By]
  <2>1. (IF free THEN CONFIRMED ELSE WAITING) \in OrderState \cup {Absent} /\ manual \in BOOLEAN
    BY States
  <2>2. (manual /\ ~Can(u, "bypass")) \in BOOLEAN
    OBVIOUS
  <2> QED
    BY <2>1, <2>2, Zenon
<1>4. /\ FirstState(u, row) \in ReservationState
      /\ FirstState(u, row) = WAITING_FOR_CASH_PAYMENT => method = CASH
  BY States DEF FirstState
<1>5. /\ order' = [order EXCEPT ![o] = row] /\ resv' = [resv EXCEPT ![o] = FirstState(u, row)]
      /\ order \in [Order -> [state : OrderState \cup {Absent}, manual : BOOLEAN, requested : BOOLEAN,
                              method : {CASH, ONLINE}, free : BOOLEAN, by : By]]
      /\ resv \in [Order -> ReservationState \cup {Absent}] /\ initiated \in [Order -> BOOLEAN]
  BY <1>1 DEF Create, Rows, RowTypes
<1>6. /\ order'[o] = row /\ resv'[o] = FirstState(u, row) /\ answers' = answers
      /\ \A x \in Order \ {o} : /\ order'[x] = order[x] /\ resv'[x] = resv[x]
                                /\ initiated'[x] = initiated[x]
  BY <1>5 DEF Create
<1>7. row.state # Absent /\ row.method = method /\ row.free = free /\ (row.state = CONFIRMED => free)
  BY States
<1>8. Grows
  <2>1. ~Paid(o) /\ order[o].method # CASH
    BY <1>2 DEF Paid, NoOrder, CASH, ONLINE
  <2> QED
    BY <1>2, <1>6, <2>1 DEF Grows, Present, Paid
<1>9. RowTypes'
  <2>1. initiated' \in [Order -> BOOLEAN]
    <3>1. \A b \in BOOLEAN : [initiated EXCEPT ![o] = b] \in [Order -> BOOLEAN]
      BY <1>5
    <3> QED
      BY <3>1 DEF Create
  <2>2. order' \in [Order -> [state : OrderState \cup {Absent}, manual : BOOLEAN, requested : BOOLEAN,
                              method : {CASH, ONLINE}, free : BOOLEAN, by : By]]
    BY <1>3, <1>5, Zenon
  <2>3. resv' \in [Order -> ReservationState \cup {Absent}]
    BY <1>4, <1>5
  <2> QED
    BY <1>1, <2>1, <2>2, <2>3 DEF Create, Rows, RowTypes
<1>10. RowsOK'
  <2>1. \A x \in Order \ {o} : /\ ~Present(x)' => order'[x] = NoOrder /\ ~initiated'[x]
                               /\ Present(x)' => resv'[x] # Absent
                               /\ answers'[x] # {} => initiated'[x]
    BY <1>1, <1>6 DEF Rows, RowsOK, Present
  <2>2. Present(o)' /\ resv'[o] # Absent /\ answers'[o] = {}
    BY <1>2, <1>4, <1>6, <1>7, States DEF Present
  <2> QED
    BY <2>1, <2>2 DEF RowsOK, NoOrder
<1>11. ASSUME Honest PROVE RowsPaid'
  <2>1. \A x \in Order \ {o} : /\ order'[x].state = CONFIRMED => Paid(x)'
                               /\ resv'[x] = WAITING_FOR_CASH_PAYMENT => order'[x].method = CASH
    BY <1>6, <1>11, PaidRow DEF Paid
  <2>2. /\ order'[o].state = CONFIRMED => Paid(o)'
        /\ resv'[o] = WAITING_FOR_CASH_PAYMENT => order'[o].method = CASH
    BY <1>4, <1>6, <1>7 DEF Paid
  <2> QED
    BY <2>1, <2>2 DEF RowsPaid
<1>12. Rows'
  BY <1>9, <1>10, <1>11 DEF Rows, Honest
<1> QED
  BY <1>8, <1>12, OutsideKept DEF Create, locks

LEMMA AnswerKept ==
    ASSUME OrderInv, NEW o \in Order, NEW a \in {CONFIRMED, REJECTED}, Answer(o, a)
    PROVE  OrderInv'
<1>1. Rows /\ answers \in [Order -> SUBSET {CONFIRMED, REJECTED}]
  BY InvParts DEF Rows, RowTypes
<1>2. \A x \in Order : answers[x] \subseteq answers'[x] /\ (x # o => answers'[x] = answers[x])
  BY <1>1 DEF Answer
<1>3. answers' \in [Order -> SUBSET {CONFIRMED, REJECTED}]
  BY <1>1 DEF Answer
<1>4. Grows
  BY <1>2 DEF Answer, Grows, Present, Paid, rows
<1>5. RowTypes'
  BY <1>1, <1>3 DEF Answer, Rows, RowTypes, rows
<1>6. RowsOK'
  BY <1>1, <1>2 DEF Answer, Rows, RowsOK, Present, rows, NoOrder
<1>7. Honest => RowsPaid'
  BY <1>1, <1>2 DEF Answer, Rows, RowsPaid, Paid, rows
<1>8. Rows'
  BY <1>5, <1>6, <1>7 DEF Rows, Honest
<1> QED
  BY <1>4, <1>8, OutsideKept DEF Answer, locks

LEMMA RunOutKept ==
    ASSUME OrderInv, NEW o \in Order, NEW d \in {"created", "staff", "modified"}, RunOut(o, d)
    PROVE  OrderInv'
<1>1. Rows
  BY InvParts
<1>2. due' \in [Order -> SUBSET {"created", "staff", "modified"}]
  BY <1>1 DEF RunOut, Rows, RowTypes
<1>3. Grows
  BY DEF RunOut, Grows, Present, Paid, service
<1>4. Rows'
  BY <1>1, <1>2 DEF RunOut, Rows, RowTypes, RowsOK, RowsPaid, Present, Paid, service, Honest
<1> QED
  BY <1>3, <1>4, OutsideKept DEF RunOut, locks

-----------------------------------------------------------------------------
(* The theorems                                                            *)

\* Nothing is ordered, nobody works
LEMMA InitOK == Init => OrderInv
<1> SUFFICES ASSUME Init PROVE OrderInv
  OBVIOUS
<1>1. NoOrder \in [state : OrderState \cup {Absent}, manual : BOOLEAN, requested : BOOLEAN,
                   method : {CASH, ONLINE}, free : BOOLEAN, by : By]
  BY Zenon DEF NoOrder, By
<1>2. RowTypes
  BY <1>1 DEF Init, RowTypes
<1>3. RowsOK
  BY DEF Init, RowsOK, Present, NoOrder
<1>4. Honest => RowsPaid
  BY States DEF Init, RowsPaid, NoOrder
<1>5. LockTypes
  BY DEF Init, LockTypes
<1>6. \A p \in Process : Fit(at[p], tx[p])
  BY NoTxFits DEF Init
<1>7. at \in [Process -> Steps] /\ tx \in [Process -> Transaction]
  BY NoTxFits DEF Init, Steps
<1> QED
  BY <1>2, <1>3, <1>4, <1>5, <1>6, <1>7, InvParts DEF Rows

\* Whatever a process does next
LEMMA ProceedKept ==
    ASSUME OrderInv, NEW p \in Process, Proceed(p)
    PROVE  OrderInv'
BY SetStateSkipsKept, SetStateKept, ReadReservationKept, SaveReservationKept, JobQueryKept,
   JobNextKept, CancelReservationKept, PutValidateKept, PutReloadKept, PutPayKept, PutSaveKept,
   PutStateKept, PutNotifyKept, PutLogKept, CommitKept, DeadlockKept DEF Proceed

LEMMA NextKept == OrderInv /\ [Next]_vars => OrderInv'
<1> SUFFICES ASSUME OrderInv, [Next]_vars PROVE OrderInv'
  OBVIOUS
<1>1. ASSUME NEW o \in Order, NEW u \in By, NEW manual \in Manual, NEW m \in {CASH, ONLINE},
             NEW free \in BOOLEAN, Create(o, u, manual, m, free)
      PROVE  OrderInv'
  BY <1>1, CreateKept
<1>2. ASSUME NEW o \in Order, NEW a \in {CONFIRMED, REJECTED}, Answer(o, a)
      PROVE  OrderInv'
  BY <1>2, AnswerKept
<1>3. ASSUME NEW o \in Order, NEW d \in {"created", "staff", "modified"}, RunOut(o, d)
      PROVE  OrderInv'
  BY <1>3, RunOutKept
<1>4. ASSUME NEW w \in Worker, Arrive(w) PROVE OrderInv'
  BY <1>4, States, CallbackKept, AdminBeginKept, DeleteBeginKept, CancelRangeBeginKept,
     PutBeginKept DEF Arrive
<1>5. ASSUME NEW c \in Cron, JobBegin(c) PROVE OrderInv'
  BY <1>5, States, JobBeginKept
<1>6. ASSUME NEW p \in Process, Proceed(p) PROVE OrderInv'
  BY <1>6, ProceedKept
<1>7. CASE UNCHANGED vars
  BY <1>7, InvParts DEF vars, rows, locks, service, OrderInv, TypeOK, RowsOK, RowsPaid, ControlOK,
     PaidOK, Present, Paid, Transaction
<1> QED
  BY <1>1, <1>2, <1>3, <1>4, <1>5, <1>6, <1>7 DEF Next

\* Whatever the requests, callbacks, expiry jobs and admin's cancellations do at once,
\* none of them means to confirm an order that is not paid (Order.set_state,
\* perform_update, update_expired)
THEOREM OrderInvariant == Spec => []OrderInv
<1> QED
  BY InitOK, NextKept, PTL DEF Spec

\* No transaction saves a state that is none: what it reads, computes and saves in the
\* order and the reservation always has its type (Order.set_state, perform_update)
THEOREM TypeInvariant == Spec => []TypeOK
<1>1. OrderInv => TypeOK
  BY DEF OrderInv
<1> QED
  BY <1>1, OrderInvariant, PTL

\* Where staff asks no reservation to wait for a cash payment, a confirmed order is free,
\* is to be paid in cash, or the payment service has reported its payment (Order.set_state)
THEOREM ConfirmedOrdersArePaid ==
    WAITING_FOR_CASH_PAYMENT \notin AskedStates => (Spec => []ConfirmedIsPaid)
<1> SUFFICES ASSUME Honest PROVE Spec => []ConfirmedIsPaid
  BY DEF Honest
<1>1. OrderInv => ConfirmedIsPaid
  BY DEF OrderInv, Honest, RowsPaid, Paid, ConfirmedIsPaid
<1> QED
  BY <1>1, OrderInvariant, PTL

-----------------------------------------------------------------------------
(***************************************************************************)
(* Order and reservation say the same, for any number of orders, web       *)
(* workers and expiry jobs at once, as long as the states of orders change *)
(* only in the three ways that take the reservation along by themselves:   *)
(* the callbacks of the payment service, the expiry job and the            *)
(* cancellation in Django's admin.  (With the requests that write the      *)
(* reservation on their own it is false: the run orders_cancel_race.)      *)
(*                                                                         *)
(* The argument: whoever writes a reservation has the lock of its order,   *)
(* has written or is about to write this order too, and holds the lock     *)
(* until both are committed.                                               *)
(***************************************************************************)
Synced == Ops \subseteq {"callback", "admin"}

SyncSteps == {"idle", "set_state", "read_resv", "save_resv", "commit", "query", "next"}

\* The state of the reservation that goes with a final state of the order
Target(goal) == IF goal = CONFIRMED THEN CONFIRMED ELSE CANCELLED

\* What transaction t of process p has written of o agrees, and nobody comes in between
\* (ol, rl: the holders of the locks; rs: the committed states of the reservations)
WritesAgree(p, t, o, ol, rl, rs) ==
    /\ rl[o] = p => ol[o] = p
    /\ t.resvs[o] # Unsaved => t.orders[o] # Unsaved
    /\ t.orders[o] # Unsaved =>
         /\ ol[o] = p /\ t.orders[o] = t.goal
         /\ IF t.resvs[o] = Unsaved THEN t.goal = CONFIRMED /\ rs[o] = CONFIRMED
                                    ELSE t.resvs[o] = Target(t.goal)

\* Process p at step l with transaction t writes order and reservation together
Together(p, l, t, ol, rl, rs) ==
    /\ l \in SyncSteps
    /\ l # "idle" => t.op \in {"callback", "job", "admin"}
    /\ t.sync /\ t.then \in {"commit", "next"}
    /\ l \in {"read_resv", "save_resv"} => ol[t.o] = p /\ t.orders[t.o] = Unsaved
    /\ \A o \in Order : WritesAgree(p, t, o, ol, rl, rs)

AgreeInv ==
    /\ OrderInv
    /\ OrderAndReservationAgree
    /\ \A p \in Process : Together(p, at[p], tx[p], olock, rlock, resv)

\* A lock is taken only when it is free, and given back only by its holder
LocksBy(p, old, new) ==
    \A o \in Order : new[o] = old[o] \/ (old[o] \in {p, Nobody} /\ new[o] \in {p, Nobody})

\* The reservations of the orders p has not locked stay as they are
ResvBy(p) == \A o \in Order : resv'[o] = resv[o] \/ olock[o] = p

-----------------------------------------------------------------------------
(* What every step keeps                                                   *)

LEMMA OwnTogether ==
    ASSUME AgreeInv, NEW p \in Process
    PROVE  /\ Together(p, at[p], tx[p], olock, rlock, resv)
           /\ tx[p] \in Transaction /\ tx[p].o \in Order /\ tx[p].goal \in OrderState
           /\ tx[p].orders \in [Order -> OrderState \cup {Unsaved}]
           /\ tx[p].resvs \in [Order -> ReservationState \cup {Unsaved}]
           /\ ControlOK(at[p], tx[p])
BY OwnFit DEF AgreeInv, Transaction

LEMMA LockFacts ==
    ASSUME AgreeInv
    PROVE  /\ olock \in [Order -> Process \cup {Nobody}] /\ rlock \in [Order -> Process \cup {Nobody}]
           /\ resv \in [Order -> ReservationState \cup {Absent}]
           /\ at \in [Process -> Steps] /\ tx \in [Process -> Transaction]
           /\ Nobody \notin Process
BY DEF AgreeInv, OrderInv, TypeOK, Process

\* A process that does not step is not disturbed
LEMMA OtherTogether ==
    ASSUME NEW p \in Process, NEW q \in Process, q # p, NEW l, NEW t, t.o \in Order,
           Nobody \notin Process,
           Together(q, l, t, olock, rlock, resv),
           LocksBy(p, olock, olock'), LocksBy(p, rlock, rlock'), ResvBy(p)
    PROVE  Together(q, l, t, olock', rlock', resv')
<1>1. \A o \in Order : /\ olock[o] = q => olock'[o] = q
                       /\ rlock'[o] = q => rlock[o] = q
                       /\ olock[o] = q => resv'[o] = resv[o]
  BY DEF LocksBy, ResvBy
<1>2. \A o \in Order : WritesAgree(q, t, o, olock', rlock', resv')
  BY <1>1 DEF Together, WritesAgree
<1> QED
  BY <1>1, <1>2 DEF Together

\* A step of process p
LEMMA TogetherKept ==
    ASSUME AgreeInv, OrderInv', NEW p \in Process, NEW l, NEW t, Step(p, l, t),
           Together(p, l, t, olock', rlock', resv'),
           LocksBy(p, olock, olock'), LocksBy(p, rlock, rlock'), ResvBy(p),
           OrderAndReservationAgree'
    PROVE  AgreeInv'
<1>1. ASSUME NEW q \in Process
      PROVE  Together(q, at'[q], tx'[q], olock', rlock', resv')
  <2>1. CASE q = p
    <3>1. at'[q] = l /\ tx'[q] = t
      BY <2>1, LockFacts DEF Step
    <3> QED
      BY <2>1, <3>1
  <2>2. CASE q # p
    <3>1. at'[q] = at[q] /\ tx'[q] = tx[q]
      BY <2>2, LockFacts DEF Step
    <3>2. Together(q, at[q], tx[q], olock', rlock', resv')
      BY <2>2, LockFacts, OwnTogether, OtherTogether
    <3> QED
      BY <3>1, <3>2
  <2> QED
    BY <2>1, <2>2
<1>2. (\A q \in Process : Together(q, at[q], tx[q], olock, rlock, resv))'
  BY <1>1
<1> QED
  BY <1>2 DEF AgreeInv

\* One that commits nothing
LEMMA QuietTogether ==
    ASSUME AgreeInv, OrderInv', NEW p \in Process, NEW l, NEW t, Step(p, l, t),
           Together(p, l, t, olock', rlock', resv),
           LocksBy(p, olock, olock'), LocksBy(p, rlock, rlock'), UNCHANGED <<order, resv>>
    PROVE  AgreeInv'
<1>1. OrderAndReservationAgree' /\ ResvBy(p)
  BY DEF AgreeInv, OrderAndReservationAgree, ResvBy
<1> QED
  BY <1>1, TogetherKept

\* One that takes and releases no lock either
LEMMA LocalTogether ==
    ASSUME AgreeInv, OrderInv', NEW p \in Process, NEW l, NEW t, Step(p, l, t),
           Together(p, l, t, olock, rlock, resv), UNCHANGED <<rows, locks, service>>
    PROVE  AgreeInv'
BY QuietTogether DEF LocksBy, rows, locks

\* The end of a transaction: nothing written, no lock held
LEMMA EndTogether ==
    ASSUME NEW p \in Process, NEW ol, NEW rl, NEW rs,
           \A o \in Order : rl[o] = p => ol[o] = p
    PROVE  Together(p, "idle", NoTx, ol, rl, rs)
BY DEF Together, WritesAgree, NoTx, SyncSteps

LEMMA Released ==
    ASSUME AgreeInv, NEW p \in Process,
           olock' = [o \in Order |-> IF olock[o] = p THEN Nobody ELSE olock[o]],
           rlock' = [o \in Order |-> IF rlock[o] = p THEN Nobody ELSE rlock[o]]
    PROVE  /\ LocksBy(p, olock, olock') /\ LocksBy(p, rlock, rlock')
           /\ \A o \in Order : rlock'[o] = p => olock'[o] = p
BY LockFacts DEF LocksBy

LEMMA RollbackTogether ==
    ASSUME AgreeInv, OrderInv', NEW p \in Process, Rollback(p)
    PROVE  AgreeInv'
<1>1. /\ LocksBy(p, olock, olock') /\ LocksBy(p, rlock, rlock')
      /\ Together(p, "idle", NoTx, olock', rlock', resv)
  BY Released, EndTogether DEF Rollback
<1> QED
  BY <1>1, QuietTogether DEF Rollback, rows

-----------------------------------------------------------------------------
(* Requests, callbacks and the job arrive                                  *)

\* Whatever arrives has written nothing
LEMMA StartTogether ==
    ASSUME AgreeInv, OrderInv', NEW p \in Process, NEW l, NEW t, Start(p, l, t),
           l \in {"set_state", "query"}, t.op \in {"callback", "job", "admin"},
           t.sync, t.then \in {"commit", "next"},
           \A o \in Order : t.orders[o] = Unsaved /\ t.resvs[o] = Unsaved
    PROVE  AgreeInv'
<1>1. \A o \in Order : rlock[o] = p => olock[o] = p
  BY OwnTogether DEF Together, WritesAgree
<1>2. Together(p, l, t, olock, rlock, resv)
  BY <1>1 DEF Together, WritesAgree, SyncSteps
<1> QED
  BY <1>2, LocalTogether DEF Start

LEMMA ArriveTogether ==
    ASSUME AgreeInv, OrderInv', Synced, NEW w \in Worker, Arrive(w)
    PROVE  AgreeInv'
<1>1. w \in Process
  BY States
<1>2. ASSUME NEW o \in Order, NEW a \in {CONFIRMED, REJECTED}, Callback(w, o, a)
      PROVE  AgreeInv'
  <2> DEFINE t == [NoTx EXCEPT !.op = "callback", !.o = o, !.goal = a, !.old = order[o].state]
  <2>1. /\ t.op = "callback" /\ t.sync = TRUE /\ t.then = "commit"
        /\ \A x \in Order : t.orders[x] = Unsaved /\ t.resvs[x] = Unsaved
    BY DEF NoTx
  <2> QED
    BY <1>1, <1>2, <2>1, StartTogether DEF Callback
<1>3. ASSUME NEW o \in Order, AdminBegin(w, o)
      PROVE  AgreeInv'
  <2> DEFINE t == [NoTx EXCEPT !.op = "admin", !.o = o, !.goal = CANCELLED, !.old = CONFIRMED]
  <2>1. /\ t.op = "admin" /\ t.sync = TRUE /\ t.then = "commit"
        /\ \A x \in Order : t.orders[x] = Unsaved /\ t.resvs[x] = Unsaved
    BY DEF NoTx
  <2> QED
    BY <1>1, <1>3, <2>1, StartTogether DEF AdminBegin
<1> QED
  BY <1>2, <1>3 DEF Arrive, DeleteBegin, CancelRangeBegin, PutBegin, Synced

LEMMA JobBeginTogether ==
    ASSUME AgreeInv, OrderInv', NEW c \in Process, JobBegin(c)
    PROVE  AgreeInv'
<1> DEFINE t == [NoTx EXCEPT !.op = "job", !.goal = EXPIRED, !.then = "next"]
<1>1. /\ t.op = "job" /\ t.sync = TRUE /\ t.then = "next"
      /\ \A x \in Order : t.orders[x] = Unsaved /\ t.resvs[x] = Unsaved
  BY DEF NoTx
<1> QED
  BY <1>1, StartTogether DEF JobBegin

-----------------------------------------------------------------------------
(* Order.set_state                                                         *)

LEMMA SetStateSkipsTogether ==
    ASSUME AgreeInv, OrderInv', NEW p \in Process, SetStateSkips(p)
    PROVE  AgreeInv'
<1>1. Together(p, tx[p].then, tx[p], olock, rlock, resv)
  BY OwnTogether DEF SetStateSkips, Together, SyncSteps
<1> QED
  BY <1>1, LocalTogether DEF SetStateSkips

\* The order is locked: what has been written of it or of others still agrees
LEMMA SetStateTogether ==
    ASSUME AgreeInv, OrderInv', NEW p \in Process, SetState(p)
    PROVE  AgreeInv'
<1> DEFINE t == tx[p]
           made == [t EXCEPT !.old = t.goal]
           lock == olock' = [olock EXCEPT ![t.o] = p] /\ UNCHANGED <<rows, rlock, service>>
<1>1. /\ at[p] = "set_state" /\ t \in Transaction /\ t.o \in Order
      /\ Together(p, "set_state", t, olock, rlock, resv) /\ Mine(olock[t.o], p)
  BY OwnTogether DEF SetState
<1>2. ASSUME lock
      PROVE  /\ LocksBy(p, olock, olock') /\ LocksBy(p, rlock, rlock') /\ UNCHANGED <<order, resv>>
             /\ olock'[t.o] = p
             /\ \A o \in Order : WritesAgree(p, t, o, olock', rlock', resv)
  <2>1. \A o \in Order : olock'[o] = IF o = t.o THEN p ELSE olock[o]
    BY <1>1, <1>2, LockFacts
  <2> QED
    BY <1>1, <1>2, <2>1 DEF LocksBy, Mine, Together, WritesAgree, rows
<1>3. CASE Step(p, t.then, t) /\ lock
  <2>1. Together(p, t.then, t, olock', rlock', resv)
    BY <1>1, <1>2, <1>3 DEF Together, SyncSteps
  <2> QED
    BY <1>2, <1>3, <2>1, QuietTogether
<1>4. CASE Raise(p)
  <2>1. Together(p, "commit", t, olock, rlock, resv)
    BY <1>1 DEF Together, SyncSteps
  <2> QED
    BY <1>4, <2>1, RollbackTogether, LocalTogether DEF Raise
<1>5. CASE SeenOrder(p, t.o) # t.goal /\ Step(p, "read_resv", made) /\ lock
  <2>1. /\ made.o = t.o /\ made.op = t.op /\ made.sync = t.sync /\ made.then = t.then
        /\ made.goal = t.goal /\ made.orders = t.orders /\ made.resvs = t.resvs
    BY <1>1 DEF Transaction
  <2>2. t.orders[t.o] = Unsaved
    BY <1>1, <1>5 DEF Together, WritesAgree, SeenOrder
  <2>3. Together(p, "read_resv", made, olock', rlock', resv)
    BY <1>1, <1>2, <1>5, <2>1, <2>2 DEF Together, WritesAgree, SyncSteps
  <2> QED
    BY <1>2, <1>5, <2>3, QuietTogether
<1> QED
  BY <1>1, <1>3, <1>4, <1>5 DEF SetState, Together

\* The order is written alone only where the committed reservation already agrees
LEMMA ReadReservationTogether ==
    ASSUME AgreeInv, OrderInv', NEW p \in Process, ReadReservation(p)
    PROVE  AgreeInv'
<1> DEFINE t == tx[p]
           written == [t EXCEPT !.orders[t.o] = t.goal]
<1>1. /\ at[p] = "read_resv" /\ t \in Transaction /\ t.o \in Order /\ t.goal \in OrderState
      /\ Together(p, "read_resv", t, olock, rlock, resv)
      /\ t.orders \in [Order -> OrderState \cup {Unsaved}]
  BY OwnTogether DEF ReadReservation
<1>2. CASE /\ Settled(Target(t.goal), SeenResv(p, t.o))
           /\ Step(p, t.then, written) /\ UNCHANGED <<rows, locks, service>>
  <2>1. t.resvs[t.o] = Unsaved /\ olock[t.o] = p /\ t.sync /\ t.then \in {"commit", "next"}
    BY <1>1 DEF Together, WritesAgree
  <2>2. t.goal = CONFIRMED /\ resv[t.o] = CONFIRMED
    BY <1>2, <2>1 DEF Settled, SeenResv, Target, CONFIRMED, CANCELLED, REQUESTED
  <2>3. /\ written.o = t.o /\ written.op = t.op /\ written.sync = t.sync
        /\ written.then = t.then /\ written.goal = t.goal /\ written.resvs = t.resvs
        /\ \A o \in Order : written.orders[o] = IF o = t.o THEN t.goal ELSE t.orders[o]
    BY <1>1 DEF Transaction
  <2>4. \A o \in Order : WritesAgree(p, written, o, olock, rlock, resv)
    BY <1>1, <2>1, <2>2, <2>3 DEF Together, WritesAgree
  <2>5. Together(p, t.then, written, olock, rlock, resv)
    BY <1>1, <2>1, <2>3, <2>4 DEF Together, SyncSteps
  <2> QED
    BY <1>2, <2>5, LocalTogether
<1>3. CASE Step(p, "save_resv", t) /\ UNCHANGED <<rows, locks, service>>
  <2>1. Together(p, "save_resv", t, olock, rlock, resv)
    BY <1>1 DEF Together, SyncSteps
  <2> QED
    BY <1>3, <2>1, LocalTogether
<1>4. t.op \in {"callback", "job", "admin"}
  BY <1>1 DEF Together
<1> QED
  BY <1>2, <1>3, <1>4 DEF ReadReservation, Target

LEMMA SaveReservationTogether ==
    ASSUME AgreeInv, OrderInv', NEW p \in Process, SaveReservation(p)
    PROVE  AgreeInv'
<1> DEFINE t == tx[p]
           s == IF t.goal = CONFIRMED THEN CONFIRMED ELSE CANCELLED
           saved == [t EXCEPT !.orders[t.o] = t.goal, !.restart = {"modified"}, !.resvs[t.o] = s]
<1>1. /\ at[p] = "save_resv" /\ t \in Transaction /\ t.o \in Order /\ t.goal \in OrderState
      /\ Together(p, "save_resv", t, olock, rlock, resv)
      /\ t.orders \in [Order -> OrderState \cup {Unsaved}]
      /\ t.resvs \in [Order -> ReservationState \cup {Unsaved}]
  BY OwnTogether DEF SaveReservation
<1>2. Step(p, t.then, saved) /\ UNCHANGED <<order, resv, olock>> /\ Mine(rlock[t.o], p)
  BY DEF SaveReservation, rows
<1>3. \A o \in Order : rlock'[o] = IF o = t.o THEN p ELSE rlock[o]
  BY <1>1, LockFacts DEF SaveReservation
<1>4. /\ saved.o = t.o /\ saved.op = t.op /\ saved.sync = t.sync
      /\ saved.then = t.then /\ saved.goal = t.goal
      /\ \A o \in Order : saved.orders[o] = IF o = t.o THEN t.goal ELSE t.orders[o]
      /\ \A o \in Order : saved.resvs[o] = IF o = t.o THEN Target(t.goal) ELSE t.resvs[o]
  BY <1>1 DEF Transaction, Target
<1>5. \A o \in Order : WritesAgree(p, saved, o, olock', rlock', resv)
  <2> TAKE o \in Order
  <2>1. CASE o = t.o
    BY <1>1, <1>2, <1>3, <1>4, <2>1, States DEF Together, WritesAgree, Target
  <2>2. CASE o # t.o
    BY <1>1, <1>2, <1>3, <1>4, <2>2 DEF Together, WritesAgree
  <2> QED
    BY <2>1, <2>2
<1>6. Together(p, t.then, saved, olock', rlock', resv)
  BY <1>1, <1>4, <1>5 DEF Together, SyncSteps
<1>7. LocksBy(p, olock, olock') /\ LocksBy(p, rlock, rlock')
  BY <1>2, <1>3 DEF LocksBy, Mine
<1> QED
  BY <1>2, <1>6, <1>7, QuietTogether

-----------------------------------------------------------------------------
(* The job                                                                 *)

LEMMA JobQueryTogether ==
    ASSUME AgreeInv, OrderInv', NEW p \in Process, JobQuery(p)
    PROVE  AgreeInv'
<1> DEFINE t == tx[p]
           u == [t EXCEPT !.todo = {o \in Order : Expirable(p, t.class, o)}]
<1>1. t \in Transaction /\ Together(p, "query", t, olock, rlock, resv)
  BY OwnTogether DEF JobQuery
<1>2. /\ u.o = t.o /\ u.op = t.op /\ u.sync = t.sync /\ u.then = t.then
      /\ u.goal = t.goal /\ u.orders = t.orders /\ u.resvs = t.resvs
  BY <1>1 DEF Transaction
<1>3. Together(p, "next", u, olock, rlock, resv)
  BY <1>1, <1>2 DEF Together, WritesAgree, SyncSteps
<1> QED
  BY <1>3, LocalTogether DEF JobQuery

LEMMA JobNextTogether ==
    ASSUME AgreeInv, OrderInv', NEW p \in Process, JobNext(p)
    PROVE  AgreeInv'
<1> DEFINE t == tx[p]
<1>1. t \in Transaction /\ Together(p, "next", t, olock, rlock, resv)
  BY OwnTogether DEF JobNext
<1>2. ASSUME NEW l \in {"set_state", "query", "commit"}, NEW u, u.op = t.op, u.sync = t.sync,
             u.then = t.then, u.goal = t.goal, u.orders = t.orders, u.resvs = t.resvs,
             Step(p, l, u), UNCHANGED <<rows, locks, service>>
      PROVE  AgreeInv'
  <2>1. Together(p, l, u, olock, rlock, resv)
    BY <1>1, <1>2 DEF Together, WritesAgree, SyncSteps
  <2> QED
    BY <1>2, <2>1, LocalTogether
<1>3. ASSUME NEW o \in t.todo,
             Step(p, "set_state", [t EXCEPT !.o = o, !.todo = t.todo \ {o}, !.old = WAITING]),
             UNCHANGED <<rows, locks, service>>
      PROVE  AgreeInv'
  <2> DEFINE u == [t EXCEPT !.o = o, !.todo = t.todo \ {o}, !.old = WAITING]
  <2>1. /\ u.op = t.op /\ u.sync = t.sync /\ u.then = t.then
        /\ u.goal = t.goal /\ u.orders = t.orders /\ u.resvs = t.resvs
    BY <1>1 DEF Transaction
  <2> QED
    BY <1>2, <1>3, <2>1
<1>4. ASSUME Step(p, "query", [t EXCEPT !.class = t.class + 1]), UNCHANGED <<rows, locks, service>>
      PROVE  AgreeInv'
  <2> DEFINE u == [t EXCEPT !.class = t.class + 1]
  <2>1. /\ u.op = t.op /\ u.sync = t.sync /\ u.then = t.then
        /\ u.goal = t.goal /\ u.orders = t.orders /\ u.resvs = t.resvs
    BY <1>1 DEF Transaction
  <2> QED
    BY <1>2, <1>4, <2>1
<1>5. ASSUME Step(p, "commit", t), UNCHANGED <<rows, locks, service>>
      PROVE  AgreeInv'
  BY <1>2, <1>5
<1> QED
  BY <1>3, <1>4, <1>5 DEF JobNext

-----------------------------------------------------------------------------
(* Commits, and what never happens here                                    *)

LEMMA CommitTogether ==
    ASSUME AgreeInv, OrderInv', NEW p \in Process, Commit(p)
    PROVE  AgreeInv'
<1> DEFINE t == tx[p]
<1>1. Together(p, "commit", t, olock, rlock, resv)
  BY OwnTogether DEF Commit
<1>2. ASSUME NEW o \in Order
      PROVE  /\ resv'[o] = SeenResv(p, o)
             /\ order'[o].state = SeenOrder(p, o) /\ order'[o].free = order[o].free
  <2>1. order[o] \in [state : OrderState \cup {Absent}, manual : BOOLEAN, requested : BOOLEAN,
                      method : {CASH, ONLINE}, free : BOOLEAN, by : By]
    BY DEF AgreeInv, OrderInv, TypeOK
  <2>2. order'[o] = [order[o] EXCEPT !.state = SeenOrder(p, o)] /\ resv'[o] = SeenResv(p, o)
    BY DEF Commit
  <2> QED
    BY <2>1, <2>2
<1>3. ASSUME NEW o \in Order
      PROVE  /\ resv'[o] = resv[o] \/ olock[o] = p
             /\ order'[o].state = CONFIRMED /\ ~order'[o].free => resv'[o] = CONFIRMED
             /\ order'[o].state \in {REJECTED, EXPIRED, CANCELLED} => resv'[o] = CANCELLED
  <2>1. WritesAgree(p, t, o, olock, rlock, resv)
    BY <1>1 DEF Together
  <2>2. CASE t.orders[o] = Unsaved
    BY <1>2, <2>1, <2>2 DEF WritesAgree, SeenOrder, SeenResv, AgreeInv, OrderAndReservationAgree
  <2>3. CASE t.orders[o] # Unsaved
    BY <1>2, <2>1, <2>3, States DEF WritesAgree, SeenOrder, SeenResv, Target
  <2> QED
    BY <2>2, <2>3
<1>4. OrderAndReservationAgree' /\ ResvBy(p)
  BY <1>3 DEF OrderAndReservationAgree, ResvBy
<1>5. /\ LocksBy(p, olock, olock') /\ LocksBy(p, rlock, rlock')
      /\ Together(p, "idle", NoTx, olock', rlock', resv')
  BY Released, EndTogether DEF Commit
<1> QED
  BY <1>4, <1>5, TogetherKept DEF Commit

\* Nobody waits in a circle: the lock a process waits for belongs to one that has
\* locked the order too, and the order is locked by the process itself
LEMMA NoDeadlock ==
    ASSUME AgreeInv, NEW p \in Process, NEW q \in Process, WaitsFor(p, q)
    PROVE  FALSE
<1>1. Together(p, at[p], tx[p], olock, rlock, resv) /\ tx[p].o \in Order
  BY OwnTogether
<1>2. at[p] = "save_resv" /\ rlock[tx[p].o] = q /\ olock[tx[p].o] = p
  BY <1>1 DEF WaitsFor, Together, SyncSteps
<1>3. olock[tx[p].o] = q
  BY <1>1, <1>2, OwnTogether DEF Together, WritesAgree
<1> QED
  BY <1>2, <1>3 DEF WaitsFor

LEMMA ProceedTogether ==
    ASSUME AgreeInv, OrderInv', NEW p \in Process, Proceed(p)
    PROVE  AgreeInv'
<1>1. at[p] \in SyncSteps
  BY OwnTogether DEF Together
<1>2. ~Deadlock(p)
  BY NoDeadlock DEF Deadlock
<1>3. ~( \/ CancelReservation(p) \/ PutValidate(p) \/ PutReload(p) \/ PutPay(p) \/ PutSave(p)
         \/ PutState(p) \/ PutNotify(p) \/ PutLog(p))
  BY <1>1 DEF SyncSteps, CancelReservation, PutValidate, PutReload, PutPay, PutSave, PutState,
     PutNotify, PutLog
<1> QED
  BY <1>2, <1>3, SetStateSkipsTogether, SetStateTogether, ReadReservationTogether,
     SaveReservationTogether, JobQueryTogether, JobNextTogether, CommitTogether DEF Proceed

-----------------------------------------------------------------------------
(* What comes from outside                                                 *)

LEMMA OutsideTogether ==
    ASSUME AgreeInv, OrderInv', UNCHANGED <<order, resv, locks, at, tx>>
    PROVE  AgreeInv'
BY DEF AgreeInv, OrderAndReservationAgree, Together, WritesAgree, locks

\* Of an order that is created nobody has written anything
LEMMA CreateTogether ==
    ASSUME AgreeInv, OrderInv', NEW o \in Order, NEW u \in By, NEW manual \in Manual,
           NEW method \in {CASH, ONLINE}, NEW free \in BOOLEAN, Create(o, u, manual, method, free)
    PROVE  AgreeInv'
<1>1. /\ \A x \in Order \ {o} : order'[x] = order[x] /\ resv'[x] = resv[x]
      /\ order'[o].state = (IF free THEN CONFIRMED ELSE WAITING) /\ order'[o].free = free
      /\ UNCHANGED <<olock, rlock, at, tx>>
  BY DEF Create, locks, AgreeInv, OrderInv, TypeOK
<1>2. OrderAndReservationAgree'
  BY <1>1, States DEF AgreeInv, OrderAndReservationAgree, WAITING, REJECTED, EXPIRED, CANCELLED,
     CONFIRMED
<1>3. ASSUME NEW q \in Process
      PROVE  Together(q, at[q], tx[q], olock, rlock, resv')
  <2>1. Together(q, at[q], tx[q], olock, rlock, resv) /\ tx[q].orders[o] = Unsaved
    BY OwnTogether DEF Create, ControlOK, Present
  <2>2. \A x \in Order : WritesAgree(q, tx[q], x, olock, rlock, resv')
    BY <1>1, <2>1 DEF Together, WritesAgree
  <2> QED
    BY <2>1, <2>2 DEF Together
<1>4. (\A q \in Process : Together(q, at[q], tx[q], olock, rlock, resv))'
  BY <1>1, <1>3
<1> QED
  BY <1>2, <1>4 DEF AgreeInv

-----------------------------------------------------------------------------
(* The theorem                                                             *)

LEMMA AgreeInit == Init => AgreeInv
<1> SUFFICES ASSUME Init PROVE AgreeInv
  OBVIOUS
<1>1. \A o \in Order : rlock[o] \notin Process
  BY DEF Init, Process
<1>2. \A p \in Process : Together(p, at[p], tx[p], olock, rlock, resv)
  BY <1>1, EndTogether DEF Init
<1>3. OrderAndReservationAgree
  BY States DEF Init, OrderAndReservationAgree, NoOrder
<1> QED
  BY <1>2, <1>3, InitOK DEF AgreeInv

LEMMA AgreeNext == Synced /\ AgreeInv /\ [Next]_vars => AgreeInv'
<1> SUFFICES ASSUME Synced, AgreeInv, [Next]_vars PROVE AgreeInv'
  OBVIOUS
<1>1. OrderInv'
  BY NextKept DEF AgreeInv
<1>2. ASSUME NEW o \in Order, NEW u \in By, NEW manual \in Manual, NEW m \in {CASH, ONLINE},
             NEW free \in BOOLEAN, Create(o, u, manual, m, free)
      PROVE  AgreeInv'
  BY <1>1, <1>2, CreateTogether
<1>3. ASSUME NEW o \in Order, NEW a \in {CONFIRMED, REJECTED}, Answer(o, a)
      PROVE  AgreeInv'
  BY <1>1, <1>3, OutsideTogether DEF Answer, rows
<1>4. ASSUME NEW o \in Order, NEW d \in {"created", "staff", "modified"}, RunOut(o, d)
      PROVE  AgreeInv'
  BY <1>1, <1>4, OutsideTogether DEF RunOut
<1>5. ASSUME NEW w \in Worker, Arrive(w) PROVE AgreeInv'
  BY <1>1, <1>5, ArriveTogether
<1>6. ASSUME NEW c \in Cron, JobBegin(c) PROVE AgreeInv'
  BY <1>1, <1>6, States, JobBeginTogether
<1>7. ASSUME NEW p \in Process, Proceed(p) PROVE AgreeInv'
  BY <1>1, <1>7, ProceedTogether
<1>8. CASE UNCHANGED vars
  BY <1>1, <1>8, OutsideTogether DEF vars, rows, locks
<1> QED
  BY <1>2, <1>3, <1>4, <1>5, <1>6, <1>7, <1>8 DEF Next

\* Callbacks of the payment service, the expiry job and admin's cancellations may come in
\* any number and at once: an order they have confirmed has a confirmed reservation, one
\* they have rejected, expired or cancelled a cancelled one (Order.set_state, which locks
\* the order with NOWAIT before it touches the reservation)
THEOREM CallbacksKeepAgreement ==
    Ops \subseteq {"callback", "admin"} => (Spec => []OrderAndReservationAgree)
<1> SUFFICES ASSUME Synced PROVE Spec => []OrderAndReservationAgree
  BY DEF Synced
<1>1. Init => AgreeInv
  BY AgreeInit
<1>2. AgreeInv /\ [Next]_vars => AgreeInv'
  BY AgreeNext
<1>3. AgreeInv => OrderAndReservationAgree
  BY DEF AgreeInv
<1> QED
  BY <1>1, <1>2, <1>3, PTL DEF Spec


-----------------------------------------------------------------------------
(***************************************************************************)
(* One process at a time: orders change only as documented, whatever the   *)
(* requests, the callbacks and the job do one after the other.  (With two  *)
(* of them it is false: the run orders_changes.)                           *)
(*                                                                         *)
(* The argument: the state in memory, by which set_state judges a change,  *)
(* is the one that the transaction sees of the order.                      *)
(***************************************************************************)

OneAtATime == \A p, q \in Process : p = q

\* What transaction t sees of order o, given the committed rows
Held(t, rows_, o) == IF t.orders[o] = Unsaved THEN rows_[o].state ELSE t.orders[o]

\* What it has written of o continues the committed state as documented
Continues(t, rows_, o) ==
    \/ t.orders[o] \in {Unsaved, rows_[o].state}
    \/ <<rows_[o].state, t.orders[o]>> \in DocumentedChanges

\* The steps at which a transaction has the state of its order in memory
Knows(l, t) ==
    \/ l \in {"set_state", "validate", "reload", "pay", "save", "state", "notify"}
    \/ l = "cancel" /\ t.op = "delete"

\* A process at step l with transaction t knows the orders it changes as they are
Informed(l, t, rows_) ==
    /\ t.todo # {} => t.op = "job"
    /\ \A o \in t.todo : Held(t, rows_, o) = WAITING
    /\ l \in {"set_state", "read_resv", "save_resv"} => t.o \notin t.todo
    /\ Knows(l, t) => t.old = Held(t, rows_, t.o)
    /\ l \in {"read_resv", "save_resv"} =>
          t.old = t.goal /\ <<rows_[t.o].state, t.goal>> \in DocumentedChanges
    /\ l = "cancel" => t.orders[t.o] = Unsaved /\ t.op \in {"delete", "range"}
    /\ \A o \in Order : Continues(t, rows_, o)

SerialInv == OrderInv /\ \A p \in Process : Informed(at[p], tx[p], order)

LEMMA ChangesCompose ==
    ASSUME NEW a, NEW b, NEW c, <<a, b>> \in DocumentedChanges, <<b, c>> \in DocumentedChanges
    PROVE  <<a, c>> \in DocumentedChanges
BY DEF DocumentedChanges, WAITING, CONFIRMED, REJECTED, EXPIRED, CANCELLED

LEMMA ValidIsDocumented ==
    ASSUME NEW s \in OrderState, NEW g \in ValidStates(s)
    PROVE  <<s, g>> \in DocumentedChanges
BY DEF DocumentedChanges, ValidStates, OrderState, WAITING, CONFIRMED, REJECTED, EXPIRED, CANCELLED

\* A further change of what a transaction sees continues the committed state, too
LEMMA FurtherChange ==
    ASSUME NEW t, NEW rows_, NEW o, NEW g, Continues(t, rows_, o),
           <<Held(t, rows_, o), g>> \in DocumentedChanges
    PROVE  <<rows_[o].state, g>> \in DocumentedChanges
BY ChangesCompose DEF Continues, Held

\* The one process takes a step that changes no order
LEMMA SerialStep ==
    ASSUME OrderInv, OrderInv', OneAtATime, NEW p \in Process, NEW l, NEW t, Step(p, l, t),
           UNCHANGED order, Informed(l, t, order)
    PROVE  SerialInv'
<1>1. at'[p] = l /\ tx'[p] = t
  BY DEF Step, OrderInv, TypeOK
<1>2. \A q \in Process : q = p
  BY DEF OneAtATime
<1>3. (\A q \in Process : Informed(at[q], tx[q], order))'
  BY <1>1, <1>2
<1> QED
  BY <1>3 DEF SerialInv

LEMMA IdleInformed == \A rows_ : Informed("idle", NoTx, rows_)
BY DEF Informed, Knows, Continues, NoTx

LEMMA SerialRollback ==
    ASSUME OrderInv, OrderInv', OneAtATime, NEW p \in Process, Rollback(p)
    PROVE  SerialInv'
BY IdleInformed, SerialStep DEF Rollback, rows

-----------------------------------------------------------------------------
(* Arrivals                                                                *)

LEMMA SerialStart ==
    ASSUME OrderInv, OrderInv', OneAtATime, NEW p \in Process, NEW l, NEW t, Start(p, l, t),
           t.orders = NoTx.orders, t.todo = {}, t.o \in Order,
           Knows(l, t) => t.old = order[t.o].state,
           l \in {"set_state", "validate", "cancel", "query"},
           l = "cancel" => t.op \in {"delete", "range"}
    PROVE  SerialInv'
<1>1. \A o \in Order : t.orders[o] = Unsaved
  BY DEF NoTx
<1>2. Informed(l, t, order)
  BY <1>1 DEF Informed, Held, Continues
<1> QED
  BY <1>2, SerialStep DEF Start, rows

LEMMA SerialArrive ==
    ASSUME OrderInv, OrderInv', OneAtATime, NEW w \in Worker, Arrive(w)
    PROVE  SerialInv'
<1>0. w \in Process
  BY DEF Process
<1>1. ASSUME NEW o \in Order, NEW a, Callback(w, o, a) PROVE SerialInv'
  <2> DEFINE t == [NoTx EXCEPT !.op = "callback", !.o = o, !.goal = a, !.old = order[o].state]
  <2>1. Start(w, "set_state", t)
    BY <1>1 DEF Callback
  <2>2. t.orders = NoTx.orders /\ t.todo = {} /\ t.o = o /\ t.old = order[o].state
    BY DEF NoTx
  <2> HIDE DEF t
  <2> QED
    BY <1>0, <2>1, <2>2, SerialStart
<1>2. ASSUME NEW o \in Order, AdminBegin(w, o) PROVE SerialInv'
  <2> DEFINE t == [NoTx EXCEPT !.op = "admin", !.o = o, !.goal = CANCELLED, !.old = CONFIRMED]
  <2>1. Start(w, "set_state", t) /\ order[o].state = CONFIRMED
    BY <1>2 DEF AdminBegin
  <2>2. t.orders = NoTx.orders /\ t.todo = {} /\ t.o = o /\ t.old = CONFIRMED
    BY DEF NoTx
  <2> HIDE DEF t
  <2> QED
    BY <1>0, <2>1, <2>2, SerialStart
<1>3. ASSUME NEW u \in By, NEW o \in Order, DeleteBegin(w, u, o) PROVE SerialInv'
  <2> DEFINE t == [NoTx EXCEPT !.op = "delete", !.o = o, !.by = u, !.goal = CANCELLED,
                               !.old = order[o].state]
  <2>1. Start(w, "cancel", t)
    BY <1>3 DEF DeleteBegin
  <2>2. /\ t.orders = NoTx.orders /\ t.todo = {} /\ t.o = o /\ t.old = order[o].state
        /\ t.op = "delete"
    BY DEF NoTx
  <2> HIDE DEF t
  <2> QED
    BY <1>0, <2>1, <2>2, SerialStart
<1>4. ASSUME NEW o \in Order, CancelRangeBegin(w, o) PROVE SerialInv'
  <2> DEFINE t == [NoTx EXCEPT !.op = "range", !.o = o, !.goal = CANCELLED]
  <2>1. Start(w, "cancel", t)
    BY <1>4 DEF CancelRangeBegin
  <2>2. t.orders = NoTx.orders /\ t.todo = {} /\ t.o = o /\ t.op = "range"
    BY DEF NoTx
  <2>3. ~Knows("cancel", t)
    BY <2>2 DEF Knows
  <2> HIDE DEF t
  <2> QED
    BY <1>0, <2>1, <2>2, <2>3, SerialStart
<1>5. ASSUME NEW u \in By, NEW o \in Order, NEW s \in AskedStates \cup {Keep},
             NEW pay \in BOOLEAN, PutBegin(w, u, o, s, pay)
      PROVE  SerialInv'
  <2> DEFINE t == [NoTx EXCEPT !.op = "put", !.o = o, !.by = u, !.ask = s, !.pay = pay,
                               !.old = order[o].state, !.copy = resv[o]]
  <2>1. Start(w, "validate", t)
    BY <1>5 DEF PutBegin
  <2>2. t.orders = NoTx.orders /\ t.todo = {} /\ t.o = o /\ t.old = order[o].state
    BY DEF NoTx
  <2> HIDE DEF t
  <2> QED
    BY <1>0, <2>1, <2>2, SerialStart
<1> QED
  BY <1>1, <1>2, <1>3, <1>4, <1>5 DEF Arrive

LEMMA SerialJobBegin ==
    ASSUME OrderInv, OrderInv', OneAtATime, NEW c \in Cron, JobBegin(c)
    PROVE  SerialInv'
<1> DEFINE t == [NoTx EXCEPT !.op = "job", !.goal = EXPIRED, !.then = "next"]
<1>1. Start(c, "query", t) /\ c \in Process
  BY DEF JobBegin, Process
<1>2. t.orders = NoTx.orders /\ t.todo = {} /\ t.o \in Order
  BY DEF NoTx
<1>3. ~Knows("query", t)
  BY DEF Knows
<1> HIDE DEF t
<1> QED
  BY <1>1, <1>2, <1>3, SerialStart

-----------------------------------------------------------------------------
(* set_state                                                               *)

\* What is known of the one process
LEMMA OwnInformed ==
    ASSUME SerialInv, NEW p \in Process
    PROVE  /\ Informed(at[p], tx[p], order) /\ OrderInv
           /\ tx[p] \in Transaction /\ tx[p].o \in Order /\ tx[p].todo \subseteq Order
           /\ tx[p].orders \in [Order -> OrderState \cup {Unsaved}]
           /\ tx[p].then \in {"commit", "next", "save", "log"}
           /\ ControlOK(at[p], tx[p])
           /\ SeenOrder(p, tx[p].o) = Held(tx[p], order, tx[p].o)
BY OwnFit DEF SerialInv, Transaction, SeenOrder, Held

\* The transaction goes on as it is, at a step after set_state
LEMMA ThenInformed ==
    ASSUME NEW l, NEW k, NEW t, Informed(l, t, order), k \in {"commit", "next", "save", "log"},
           Knows(k, t) => t.old = Held(t, order, t.o)
    PROVE  Informed(k, t, order)
BY DEF Informed, Knows

\* The order takes the state that set_state has given it in memory
LEMMA WrittenInformed ==
    ASSUME NEW p \in Process, SerialInv, NEW u, NEW k,
           k \in {"commit", "next", "save", "log"},
           at[p] \in {"set_state", "read_resv", "save_resv"},
           u.o = tx[p].o, u.op = tx[p].op, u.todo = tx[p].todo, u.old = tx[p].goal,
           u.orders = [tx[p].orders EXCEPT ![tx[p].o] = tx[p].goal],
           <<order[tx[p].o].state, tx[p].goal>> \in DocumentedChanges
    PROVE  Informed(k, u, order)
<1> DEFINE t == tx[p]
<1>1. /\ u.orders[t.o] = t.goal
      /\ \A o \in Order \ {t.o} : u.orders[o] = t.orders[o]
  BY OwnInformed
<1>2. t.goal # Unsaved
  BY OwnInformed, States DEF Transaction
<1>3. Held(u, order, u.o) = u.old
  BY <1>1, <1>2 DEF Held
<1>4. ASSUME NEW o \in Order PROVE Continues(u, order, o)
  <2>1. CASE o = t.o
    BY <1>1, <2>1 DEF Continues
  <2>2. CASE o # t.o
    BY <1>1, <2>2, OwnInformed DEF Continues, Informed
  <2> QED
    BY <2>1, <2>2
<1>5. ASSUME NEW o \in u.todo PROVE Held(u, order, o) = WAITING
  <2>1. o # t.o /\ o \in Order /\ o \in t.todo
    BY OwnInformed DEF Informed
  <2> QED
    BY <1>1, <2>1, OwnInformed DEF Informed, Held
<1>6. u.todo # {} => u.op = "job"
  BY OwnInformed DEF Informed
<1> QED
  BY <1>3, <1>4, <1>5, <1>6 DEF Informed, Knows

LEMMA SerialSetStateSkips ==
    ASSUME SerialInv, OrderInv', OneAtATime, NEW p \in Process, SetStateSkips(p)
    PROVE  SerialInv'
<1>1. Informed(tx[p].then, tx[p], order)
  BY OwnInformed, ThenInformed DEF SetStateSkips, Informed, Knows
<1> QED
  BY <1>1, OwnInformed, SerialStep DEF SetStateSkips, rows

LEMMA SerialSetState ==
    ASSUME SerialInv, OrderInv', OneAtATime, NEW p \in Process, SetState(p)
    PROVE  SerialInv'
<1> DEFINE t == tx[p]
           made == [t EXCEPT !.old = t.goal]
           wrote == [made EXCEPT !.orders[t.o] = t.goal]
<1>t. t \in Transaction
  BY OwnInformed
<1>1. at[p] = "set_state" /\ t.old = SeenOrder(p, t.o)
  BY OwnInformed DEF SetState, Informed, Knows
<1>2. Informed(t.then, t, order) /\ Informed("commit", t, order)
  BY <1>1, OwnInformed, ThenInformed DEF Informed, Knows
<1>3. CASE Step(p, t.then, t) /\ UNCHANGED rows
  BY <1>2, <1>3, OwnInformed, SerialStep DEF rows
<1>4. CASE Raise(p)
  BY <1>2, <1>4, OwnInformed, SerialStep, SerialRollback DEF Raise, rows
<1>5. CASE /\ Valid(t, SeenOrder(p, t.o)) /\ UNCHANGED rows
           /\ IF t.sync THEN Step(p, "read_resv", made) ELSE Step(p, t.then, wrote)
  <2>1. t.goal \in ValidStates(t.old) /\ t.old \in OrderState
    BY <1>5, OwnInformed DEF Valid, Transaction
  <2>2. <<t.old, t.goal>> \in DocumentedChanges
    BY <2>1, ValidIsDocumented
  <2>3. <<order[t.o].state, t.goal>> \in DocumentedChanges
    BY <1>1, <2>2, OwnInformed, FurtherChange DEF Informed
  <2>4. /\ made.o = t.o /\ made.op = t.op /\ made.todo = t.todo /\ made.old = t.goal
        /\ made.goal = t.goal /\ made.orders = t.orders
    BY <1>t DEF Transaction
  <2>5. /\ wrote.o = t.o /\ wrote.op = t.op /\ wrote.todo = t.todo /\ wrote.old = t.goal
        /\ wrote.orders = [t.orders EXCEPT ![t.o] = t.goal]
    BY <1>t DEF Transaction
  <2> HIDE DEF made, wrote
  <2>6. Informed("read_resv", made, order)
    BY <1>1, <2>3, <2>4, OwnInformed DEF Informed, Knows, Held, Continues
  <2>7. Informed(t.then, wrote, order)
    BY <1>1, <2>3, <2>5, OwnInformed, WrittenInformed
  <2> QED
    BY <1>5, <2>6, <2>7, OwnInformed, SerialStep DEF rows
<1> QED
  BY <1>3, <1>4, <1>5, OwnInformed DEF SetState, rows

LEMMA SerialReadReservation ==
    ASSUME SerialInv, OrderInv', OneAtATime, NEW p \in Process, ReadReservation(p)
    PROVE  SerialInv'
<1> DEFINE t == tx[p]
           wrote == [t EXCEPT !.orders[t.o] = t.goal]
<1>t. t \in Transaction
  BY OwnInformed
<1>1. /\ at[p] = "read_resv" /\ UNCHANGED rows
      /\ Step(p, t.then, wrote) \/ Step(p, "save_resv", t)
  BY DEF ReadReservation
<1>2. t.old = t.goal /\ <<order[t.o].state, t.goal>> \in DocumentedChanges
  BY <1>1, OwnInformed DEF Informed
<1>3. /\ wrote.o = t.o /\ wrote.op = t.op /\ wrote.todo = t.todo /\ wrote.old = t.goal
      /\ wrote.orders = [t.orders EXCEPT ![t.o] = t.goal]
  BY <1>t, <1>2 DEF Transaction
<1> HIDE DEF wrote
<1>4. Informed(t.then, wrote, order)
  BY <1>1, <1>2, <1>3, OwnInformed, WrittenInformed
<1>5. Informed("save_resv", t, order)
  BY <1>1, <1>2, OwnInformed DEF Informed, Knows
<1> QED
  BY <1>1, <1>4, <1>5, OwnInformed, SerialStep DEF rows

LEMMA SerialSaveReservation ==
    ASSUME SerialInv, OrderInv', OneAtATime, NEW p \in Process, SaveReservation(p)
    PROVE  SerialInv'
<1> DEFINE t == tx[p]
           rs == IF t.goal = CONFIRMED THEN CONFIRMED ELSE CANCELLED
           wrote == [t EXCEPT !.orders[t.o] = t.goal, !.restart = {"modified"},
                              !.resvs[t.o] = rs]
<1>t. t \in Transaction
  BY OwnInformed
<1>1. at[p] = "save_resv" /\ UNCHANGED rows /\ Step(p, t.then, wrote)
  BY DEF SaveReservation, rows
<1>2. t.old = t.goal /\ <<order[t.o].state, t.goal>> \in DocumentedChanges
  BY <1>1, OwnInformed DEF Informed
<1>3. /\ wrote.o = t.o /\ wrote.op = t.op /\ wrote.todo = t.todo /\ wrote.old = t.goal
      /\ wrote.orders = [t.orders EXCEPT ![t.o] = t.goal]
  BY <1>t, <1>2 DEF Transaction
<1> HIDE DEF wrote
<1>5. Informed(t.then, wrote, order)
  BY <1>1, <1>2, <1>3, OwnInformed, WrittenInformed
<1> QED
  BY <1>1, <1>5, OwnInformed, SerialStep DEF rows

-----------------------------------------------------------------------------
(* The job and the requests of users                                       *)

\* What has been written is as it was
LEMMA SameWrites ==
    ASSUME SerialInv, NEW p \in Process, NEW u, u.orders = tx[p].orders
    PROVE  /\ \A o : Held(u, order, o) = Held(tx[p], order, o)
           /\ \A o \in Order : Continues(u, order, o)
BY OwnInformed DEF Informed, Held, Continues

LEMMA SerialJobQuery ==
    ASSUME SerialInv, OrderInv', OneAtATime, NEW p \in Process, JobQuery(p)
    PROVE  SerialInv'
<1> DEFINE t == tx[p]
           found == {o \in Order : Expirable(p, t.class, o)}
           u == [t EXCEPT !.todo = found]
<1>t. t \in Transaction
  BY OwnInformed
<1>1. at[p] = "query" /\ UNCHANGED rows /\ Step(p, "next", u)
  BY DEF JobQuery
<1>2. u.o = t.o /\ u.op = t.op /\ u.todo = found /\ u.orders = t.orders
  BY <1>t DEF Transaction
<1>3. t.op = "job"
  BY <1>1, OwnInformed DEF ControlOK
<1>4. \A o \in found : Held(t, order, o) = WAITING
  BY DEF Expirable, SeenOrder, Held
<1> HIDE DEF u, found
<1>5. Informed("next", u, order)
  BY <1>1, <1>2, <1>3, <1>4, OwnInformed, SameWrites DEF Informed, Knows
<1> QED
  BY <1>1, <1>5, OwnInformed, SerialStep DEF rows

LEMMA SerialJobNext ==
    ASSUME SerialInv, OrderInv', OneAtATime, NEW p \in Process, JobNext(p)
    PROVE  SerialInv'
<1> DEFINE t == tx[p]
<1>t. t \in Transaction
  BY OwnInformed
<1>0. at[p] = "next" /\ UNCHANGED rows
  BY DEF JobNext
<1>1. ASSUME NEW o \in t.todo,
             Step(p, "set_state", [t EXCEPT !.o = o, !.todo = t.todo \ {o}, !.old = WAITING])
      PROVE  SerialInv'
  <2> DEFINE u == [t EXCEPT !.o = o, !.todo = t.todo \ {o}, !.old = WAITING]
  <2>1. /\ u.o = o /\ u.op = t.op /\ u.todo = t.todo \ {o} /\ u.orders = t.orders
        /\ u.old = WAITING
    BY <1>t DEF Transaction
  <2>2. Step(p, "set_state", u)
    BY <1>1
  <2> HIDE DEF u
  <2>4. /\ t.op = "job" /\ Held(t, order, o) = WAITING
        /\ \A q \in t.todo : Held(t, order, q) = WAITING
    BY <1>1, OwnInformed DEF Informed
  <2>5. /\ \A q \in Order : Continues(u, order, q)
        /\ \A q : Held(u, order, q) = Held(t, order, q)
    BY <2>1, SameWrites
  <2>3. Informed("set_state", u, order)
    BY <2>1, <2>4, <2>5 DEF Informed
  <2> QED
    BY <1>0, <2>2, <2>3, OwnInformed, SerialStep DEF rows
<1>2. CASE Step(p, "query", [t EXCEPT !.class = t.class + 1])
  <2> DEFINE u == [t EXCEPT !.class = t.class + 1]
  <2>1. u.o = t.o /\ u.op = t.op /\ u.todo = t.todo /\ u.orders = t.orders
    BY <1>t DEF Transaction
  <2>2. Step(p, "query", u)
    BY <1>2
  <2> HIDE DEF u
  <2>4. /\ t.todo # {} => t.op = "job"
        /\ \A q \in t.todo : Held(t, order, q) = WAITING
    BY OwnInformed DEF Informed
  <2>5. /\ \A q \in Order : Continues(u, order, q)
        /\ \A q : Held(u, order, q) = Held(t, order, q)
    BY <2>1, SameWrites
  <2>3. Informed("query", u, order)
    BY <2>1, <2>4, <2>5 DEF Informed, Knows
  <2> QED
    BY <1>0, <2>2, <2>3, OwnInformed, SerialStep DEF rows
<1>3. CASE Step(p, "commit", t)
  <2>1. Informed("commit", t, order)
    BY <1>0, OwnInformed DEF Informed, Knows
  <2> QED
    BY <1>0, <1>3, <2>1, OwnInformed, SerialStep DEF rows
<1> QED
  BY <1>1, <1>2, <1>3 DEF JobNext

LEMMA SerialCancelReservation ==
    ASSUME SerialInv, OrderInv', OneAtATime, NEW p \in Process, CancelReservation(p)
    PROVE  SerialInv'
<1> DEFINE t == tx[p]
           old == IF t.op = "range" THEN order[t.o].state ELSE t.old
           u == [t EXCEPT !.resvs[t.o] = CANCELLED, !.copy = CANCELLED, !.old = old]
<1>t. t \in Transaction
  BY OwnInformed
<1>1. at[p] = "cancel" /\ UNCHANGED rows /\ Step(p, "set_state", u)
  BY DEF CancelReservation, rows
<1>2. u.o = t.o /\ u.op = t.op /\ u.todo = t.todo /\ u.orders = t.orders /\ u.old = old
  BY <1>t DEF Transaction
<1>3. t.todo = {} /\ old = Held(t, order, t.o)
  BY <1>1, OwnInformed DEF Informed, Knows, Held
<1> HIDE DEF u, old
<1>4. Informed("set_state", u, order)
  BY <1>1, <1>2, <1>3, OwnInformed, SameWrites DEF Informed, Knows
<1> QED
  BY <1>1, <1>4, OwnInformed, SerialStep DEF rows

\* An update goes from a step at which it knows its order to another, or to its end
LEMMA PutInformed ==
    ASSUME SerialInv, NEW p \in Process, NEW k, NEW u, Knows(at[p], tx[p]),
           at[p] # "cancel", k = "set_state" => tx[p].op = "put",
           k \in {"reload", "pay", "save", "state", "set_state", "notify", "log", "commit"},
           u.o = tx[p].o, u.op = tx[p].op, u.todo = tx[p].todo, u.old = tx[p].old,
           u.orders \in {tx[p].orders, [tx[p].orders EXCEPT ![tx[p].o] = tx[p].old]}
    PROVE  Informed(k, u, order)
<1> DEFINE t == tx[p]
<1>1. Informed(at[p], t, order) /\ t.old = Held(t, order, t.o) /\ t.old # Unsaved
  <2>1. t.old \in OrderState
    BY OwnInformed DEF Transaction
  <2> QED
    BY <2>1, OwnInformed, States DEF Informed
<1>2. \A o \in Order : \/ u.orders[o] = t.orders[o]
                       \/ o = t.o /\ u.orders[o] = t.old
  BY OwnInformed
<1>3. \A o \in Order : Held(u, order, o) = Held(t, order, o)
  BY <1>1, <1>2 DEF Held
<1>4. \A o \in Order : Continues(u, order, o)
  BY <1>1, <1>2 DEF Informed, Continues, Held
<1>5. k = "set_state" => t.o \notin t.todo
  BY <1>1 DEF Informed
<1> QED
  BY <1>1, <1>3, <1>4, <1>5, OwnInformed DEF Informed

LEMMA SerialPut ==
    ASSUME SerialInv, OrderInv', OneAtATime, NEW p \in Process,
           \/ PutValidate(p) \/ PutReload(p) \/ PutPay(p) \/ PutSave(p) \/ PutState(p)
           \/ PutNotify(p)
    PROVE  SerialInv'
<1> DEFINE t == tx[p]
<1>t. t \in Transaction /\ UNCHANGED order
  BY OwnInformed DEF PutValidate, PutReload, PutPay, PutSave, PutState, PutNotify, rows, Rollback
<1>0. ASSUME NEW k \in {"reload", "pay", "save", "state", "set_state", "notify", "log", "commit"},
             NEW u, Step(p, k, u), Knows(at[p], t), at[p] # "cancel",
             k = "set_state" => t.op = "put",
             u.o = t.o, u.op = t.op, u.todo = t.todo, u.old = t.old,
             u.orders \in {t.orders, [t.orders EXCEPT ![t.o] = t.old]}
      PROVE  SerialInv'
  BY <1>t, <1>0, PutInformed, OwnInformed, SerialStep
<1>1. CASE PutValidate(p)
  BY <1>0, <1>1 DEF PutValidate, Knows
<1>2. CASE PutReload(p)
  <2> DEFINE next == NextState(t.ask, resv[t.o], order[t.o].state, order[t.o].method, t.by)
             u == [t EXCEPT !.fresh = resv[t.o], !.ask = next]
  <2>1. u.o = t.o /\ u.op = t.op /\ u.todo = t.todo /\ u.old = t.old /\ u.orders = t.orders
    BY <1>t DEF Transaction
  <2>2. \/ Rollback(p)
        \/ \E k \in {"pay", "save"} : Step(p, k, u)
    BY <1>2 DEF PutReload
  <2>3. Knows(at[p], t) /\ at[p] # "cancel"
    BY <1>2 DEF PutReload, Knows
  <2> HIDE DEF u
  <2> QED
    BY <1>0, <2>1, <2>2, <2>3, OwnInformed, SerialRollback
<1>3. CASE PutPay(p)
  <2> DEFINE u == [t EXCEPT !.orders[t.o] = t.old, !.goal = CONFIRMED, !.sync = FALSE,
                            !.then = "save"]
  <2>1. /\ u.o = t.o /\ u.op = t.op /\ u.todo = t.todo /\ u.old = t.old
        /\ u.orders = [t.orders EXCEPT ![t.o] = t.old]
    BY <1>t DEF Transaction
  <2>2. \E k \in {"set_state", "save"} : Step(p, k, u)
    BY <1>3 DEF PutPay
  <2>3. Knows(at[p], t) /\ at[p] # "cancel" /\ t.op = "put"
    BY <1>3, OwnInformed DEF PutPay, Knows, ControlOK
  <2> HIDE DEF u
  <2> QED
    BY <1>0, <2>1, <2>2, <2>3
<1>4. CASE PutSave(p)
  <2> DEFINE u == [t EXCEPT !.resvs[t.o] = t.copy, !.restart = {"modified"}]
  <2>1. u.o = t.o /\ u.op = t.op /\ u.todo = t.todo /\ u.old = t.old /\ u.orders = t.orders
    BY <1>t DEF Transaction
  <2>2. Step(p, "state", u)
    BY <1>4 DEF PutSave
  <2>3. Knows(at[p], t) /\ at[p] # "cancel"
    BY <1>4 DEF PutSave, Knows
  <2> HIDE DEF u
  <2> QED
    BY <1>0, <2>1, <2>2, <2>3
<1>5. CASE PutState(p)
  <2> DEFINE saved == [t EXCEPT !.resvs[t.o] = t.ask, !.copy = t.ask]
             last == [saved EXCEPT !.goal = CONFIRMED, !.sync = TRUE, !.then = "log"]
  <2>1. /\ saved.o = t.o /\ saved.op = t.op /\ saved.todo = t.todo /\ saved.old = t.old
        /\ saved.orders = t.orders
    BY <1>t DEF Transaction
  <2>2. /\ last.o = t.o /\ last.op = t.op /\ last.todo = t.todo /\ last.old = t.old
        /\ last.orders = t.orders
    BY <1>t DEF Transaction
  <2>3. \E k \in {"notify", "set_state", "log"} : Step(p, k, saved) \/ Step(p, k, last)
    <3> HIDE DEF saved, last
    <3>1. at[p] = "state"
          /\ Step(p, CASE t.ask = READY_FOR_PAYMENT -> "notify"
                       [] CashPaid(t.fresh, t.ask) -> "set_state"
                       [] OTHER -> "log",
                  IF CashPaid(t.fresh, t.ask) THEN last ELSE saved)
      BY <1>5 DEF PutState, saved, last
    <3> QED
      BY <3>1
  <2>4. Knows(at[p], t) /\ at[p] # "cancel" /\ t.op = "put"
    BY <1>5, OwnInformed DEF PutState, Knows, ControlOK
  <2> HIDE DEF saved, last
  <2> QED
    BY <1>0, <2>1, <2>2, <2>3, <2>4
<1>6. CASE PutNotify(p)
  <2> DEFINE u == [t EXCEPT !.orders[t.o] = t.old, !.restart = {"modified", "staff"}]
  <2>1. /\ u.o = t.o /\ u.op = t.op /\ u.todo = t.todo /\ u.old = t.old
        /\ u.orders = [t.orders EXCEPT ![t.o] = t.old]
    BY <1>t DEF Transaction
  <2>2. Step(p, "log", u)
    BY <1>6 DEF PutNotify
  <2>3. Knows(at[p], t) /\ at[p] # "cancel"
    BY <1>6 DEF PutNotify, Knows
  <2> HIDE DEF u
  <2> QED
    BY <1>0, <2>1, <2>2, <2>3
<1> QED
  BY <1>1, <1>2, <1>3, <1>4, <1>5, <1>6

LEMMA SerialPutLog ==
    ASSUME SerialInv, OrderInv', OneAtATime, NEW p \in Process, PutLog(p)
    PROVE  SerialInv'
<1>1. Informed("commit", tx[p], order)
  BY OwnInformed DEF PutLog, Informed, Knows
<1> QED
  BY <1>1, OwnInformed, SerialStep DEF PutLog, rows

-----------------------------------------------------------------------------
(* The end of a transaction, and what happens outside                      *)

LEMMA SerialCommit ==
    ASSUME SerialInv, OrderInv', OneAtATime, NEW p \in Process, Commit(p)
    PROVE  SerialInv'
<1>1. at'[p] = "idle" /\ tx'[p] = NoTx
  BY OwnInformed DEF Commit, Step, OrderInv, TypeOK
<1>2. \A q \in Process : q = p
  BY DEF OneAtATime
<1>3. (\A q \in Process : Informed(at[q], tx[q], order))'
  BY <1>1, <1>2, IdleInformed
<1> QED
  BY <1>3 DEF SerialInv

LEMMA NobodyWaits ==
    ASSUME OneAtATime, NEW p \in Process, Deadlock(p)
    PROVE  FALSE
<1>1. PICK C \in SUBSET Process : p \in C /\ \A q \in C : \E r \in C : WaitsFor(q, r)
  BY DEF Deadlock
<1>2. \E q, r \in Process : WaitsFor(q, r)
  BY <1>1
<1> QED
  BY <1>2 DEF WaitsFor, OneAtATime

LEMMA SerialProceed ==
    ASSUME SerialInv, OrderInv', OneAtATime, NEW p \in Process, Proceed(p)
    PROVE  SerialInv'
BY SerialSetStateSkips, SerialSetState, SerialReadReservation, SerialSaveReservation,
   SerialJobQuery, SerialJobNext, SerialCancelReservation, SerialPut, SerialPutLog,
   SerialCommit, NobodyWaits DEF Proceed

\* An order that is created is one that nobody works on yet
LEMMA SerialCreate ==
    ASSUME SerialInv, OrderInv', NEW o \in Order, NEW u \in By, NEW manual \in Manual,
           NEW m \in {CASH, ONLINE}, NEW free \in BOOLEAN, Create(o, u, manual, m, free)
    PROVE  SerialInv'
<1>1. ~Present(o) /\ UNCHANGED <<at, tx>> /\ \A q \in Order \ {o} : order'[q] = order[q]
  BY DEF Create, Present, SerialInv, OrderInv, TypeOK
<1>2. ASSUME NEW p \in Process PROVE Informed(at[p], tx[p], order')
  <2> DEFINE t == tx[p]
  <2>1. o \notin t.todo /\ t.orders[o] = Unsaved
    BY <1>1, OwnInformed DEF ControlOK
  <2>2. at[p] \notin {"idle", "query", "next", "commit"} => t.o # o
    BY <1>1, OwnInformed DEF ControlOK
  <2>3. \A q \in Order : Continues(t, order', q)
    BY <1>1, <2>1, OwnInformed DEF Informed, Continues
  <2>4. \A q \in Order \ {o} : Held(t, order', q) = Held(t, order, q)
    BY <1>1 DEF Held
  <2>5. Knows(at[p], t) => t.old = Held(t, order', t.o)
    BY <2>2, <2>4, OwnInformed DEF Informed, Knows
  <2>6. at[p] \in {"read_resv", "save_resv"} => order'[t.o] = order[t.o]
    BY <1>1, <2>2, OwnInformed
  <2> QED
    BY <2>1, <2>3, <2>4, <2>5, <2>6, OwnInformed DEF Informed
<1>3. (\A p \in Process : Informed(at[p], tx[p], order))'
  BY <1>1, <1>2
<1> QED
  BY <1>3 DEF SerialInv

LEMMA SerialNext == OneAtATime /\ SerialInv /\ [Next]_vars => SerialInv'
<1> SUFFICES ASSUME OneAtATime, SerialInv, [Next]_vars PROVE SerialInv'
  OBVIOUS
<1>0. OrderInv /\ OrderInv'
  BY NextKept DEF SerialInv
<1>1. CASE UNCHANGED <<order, at, tx>>
  BY <1>0, <1>1 DEF SerialInv
<1>2. ASSUME NEW o \in Order PROVE /\ \A a : Answer(o, a) => UNCHANGED <<order, at, tx>>
                                   /\ \A d : RunOut(o, d) => UNCHANGED <<order, at, tx>>
  BY DEF Answer, RunOut, rows
<1>3. CASE UNCHANGED vars
  BY <1>1, <1>3 DEF vars
<1> QED
  BY <1>0, <1>1, <1>2, <1>3, SerialCreate, SerialArrive, SerialJobBegin, SerialProceed DEF Next

\* The state of an order that exists changes with a commit
LEMMA OnlyCommitsChange ==
    ASSUME [Next]_vars, NEW o \in Order, order[o].state \notin {Absent, order'[o].state}
    PROVE  \E p \in Process : Commit(p)
<1>1. order' # order
  OBVIOUS
<1>2. ASSUME NEW q \in Order, NEW u, NEW manual, NEW m, NEW free, Create(q, u, manual, m, free)
      PROVE  FALSE
  BY <1>2 DEF Create
<1>3. ASSUME NEW w, Arrive(w) PROVE FALSE
  BY <1>1, <1>3 DEF Arrive, Callback, AdminBegin, DeleteBegin, CancelRangeBegin, PutBegin,
     Start, rows
<1>4. ASSUME NEW p \in Process, Proceed(p) PROVE Commit(p)
  <2>1. ASSUME NEW q, Rollback(q) PROVE FALSE
    BY <1>1, <2>1 DEF Rollback, rows
  <2>2. Raise(p) => FALSE
    BY <1>1, <2>1 DEF Raise, rows
  <2>3. SetStateSkips(p) \/ SetState(p) \/ ReadReservation(p) \/ SaveReservation(p) => FALSE
    BY <1>1, <2>2 DEF SetStateSkips, SetState, ReadReservation, SaveReservation, rows
  <2>4. JobQuery(p) \/ JobNext(p) \/ CancelReservation(p) => FALSE
    BY <1>1 DEF JobQuery, JobNext, CancelReservation, rows
  <2>5. ~( \/ PutValidate(p) \/ PutReload(p) \/ PutPay(p) \/ PutSave(p) \/ PutState(p)
           \/ PutNotify(p) \/ PutLog(p))
    BY <1>1, <2>1 DEF PutValidate, PutReload, PutPay, PutSave, PutState, PutNotify, PutLog, rows
  <2>6. Deadlock(p) => FALSE
    BY <1>1, <2>1 DEF Deadlock, rows
  <2> QED
    BY <1>4, <2>3, <2>4, <2>5, <2>6, Zenon DEF Proceed
<1>5. ASSUME NEW c, JobBegin(c) PROVE FALSE
  BY <1>1, <1>5 DEF JobBegin, Start, rows
<1> QED
  BY <1>1, <1>2, <1>3, <1>4, <1>5 DEF Next, vars, Answer, RunOut, rows

LEMMA SerialInit == Init => SerialInv
BY InitOK, IdleInformed DEF Init, SerialInv

\* If requests, callbacks and the job run one after the other, orders change their states only
\* as documented, whatever they are about and however stale the answers of the payment service.
THEOREM SerialChangesAreDocumented == OneAtATime => (Spec => OnlyDocumentedChanges)
<1> SUFFICES ASSUME OneAtATime PROVE Spec => OnlyDocumentedChanges
  OBVIOUS
<1> DEFINE Documented == \A o \in Order :
                           order[o].state \notin {Absent, order'[o].state}
                             => <<order[o].state, order'[o].state>> \in DocumentedChanges
<1>1. SerialInv /\ [Next]_vars => Documented
  <2> SUFFICES ASSUME SerialInv, [Next]_vars, NEW o \in Order,
                      order[o].state \notin {Absent, order'[o].state}
               PROVE  <<order[o].state, order'[o].state>> \in DocumentedChanges
    OBVIOUS
  <2>1. PICK p \in Process : Commit(p)
    BY OnlyCommitsChange
  <2>2. order'[o].state = SeenOrder(p, o)
    BY <2>1 DEF Commit, SerialInv, OrderInv, TypeOK
  <2>3. Continues(tx[p], order, o)
    BY DEF SerialInv, Informed
  <2> QED
    BY <2>2, <2>3 DEF Continues, SeenOrder
<1>2. SerialInv /\ [Next]_vars => SerialInv'
  BY SerialNext
<1> QED
  BY <1>1, <1>2, SerialInit, PTL DEF Spec, OnlyDocumentedChanges

-----------------------------------------------------------------------------
(***************************************************************************)
(* One process at a time: order and reservation agree, whatever is asked   *)
(* but a state that denies or reverts the reservation.  (With two they may *)
(* not: the run orders_cancel_race.)                                       *)
(*                                                                         *)
(* The argument: what the transaction sees of both agrees at each of its   *)
(* steps, but while a cancellation has not got to the order; and what an   *)
(* update has decided to write agrees with what it sees.                   *)
(***************************************************************************)

\* What transaction t sees of a reservation, given the committed ones
HeldResv(t, states, o) == IF t.resvs[o] = Unsaved THEN states[o] ELSE t.resvs[o]

\* Order and reservation say the same
Agrees(s, rs, free) == /\ s = CONFIRMED /\ ~free => rs = CONFIRMED
                       /\ s \in {REJECTED, EXPIRED, CANCELLED} => rs = CANCELLED

\* A request has cancelled the reservation, and the order not yet
Cancelling(l, t) == l \in SetStateSteps /\ t.op \in {"delete", "range"}

\* What the transaction sees of an order and its reservation agrees
SeesAgreement(t, rows_, states, o) ==
    Agrees(Held(t, rows_, o), HeldResv(t, states, o), rows_[o].free)

\* An update has read its reservation as it is, and asks for nothing that is not documented of it
AsRead(t, states) ==
    /\ t.orders[t.o] = Unsaved /\ t.resvs[t.o] = Unsaved /\ t.copy = states[t.o]
    /\ t.ask \in {Keep, t.copy} \/ (t.ask = CONFIRMED /\ t.copy # CANCELLED)

\* What an update will write of its reservation agrees with its order
WillAgree(t, rows_) == /\ Agrees(Held(t, rows_, t.o), t.copy, rows_[t.o].free)
                       /\ Agrees(Held(t, rows_, t.o), t.ask, rows_[t.o].free)

\* set_state changes both, or the free order of an update alone
SetsBoth(l, t, rows_, states) ==
    /\ t.op # "none"
    /\ t.sync => t.then # "save" /\ (t.op = "put" => t.copy = HeldResv(t, states, t.o))
    /\ ~t.sync => /\ l = "set_state" /\ t.op = "put" /\ t.goal = CONFIRMED
                  /\ rows_[t.o].free /\ t.then = "save"

\* A process at step l with transaction t sees order and reservation agree, and will leave them so
InStep(l, t, rows_, states) ==
    /\ \A o \in Order : (o = t.o /\ Cancelling(l, t)) \/ SeesAgreement(t, rows_, states, o)
    /\ t.op = "job" => t.sync
    /\ l = "cancel" => t.op \in {"delete", "range"} /\ t.goal = CANCELLED /\ t.sync
    /\ Cancelling(l, t) => t.goal = CANCELLED /\ t.sync /\ HeldResv(t, states, t.o) = CANCELLED
    /\ l \in {"validate", "reload"} => AsRead(t, states)
    /\ l \in {"pay", "save", "state"} \/ (l = "set_state" /\ ~t.sync) => WillAgree(t, rows_)
    /\ l \in SetStateSteps => SetsBoth(l, t, rows_, states)

RowsAgree == \A o \in Order : Agrees(order[o].state, resv[o], order[o].free)

InStepInv ==
    /\ SerialInv /\ RowsAgree
    /\ \A p \in Process : InStep(at[p], tx[p], order, resv)

\* What an update may ask for without breaking what the order says: staff that denies or reverts a
\* reservation leaves its order as it is
AsksInStep == AskedStates \subseteq {CONFIRMED, READY_FOR_PAYMENT, CANCELLED}

\* The one process takes a step that changes no row
LEMMA InStepKept ==
    ASSUME OrderInv, SerialInv', RowsAgree, OneAtATime, NEW p \in Process, NEW l, NEW t,
           Step(p, l, t), UNCHANGED <<order, resv>>, InStep(l, t, order, resv)
    PROVE  InStepInv'
<1>1. at'[p] = l /\ tx'[p] = t
  BY DEF Step, OrderInv, TypeOK
<1>2. \A q \in Process : q = p
  BY DEF OneAtATime
<1>3. (\A q \in Process : InStep(at[q], tx[q], order, resv))'
  BY <1>1, <1>2
<1>4. RowsAgree'
  BY DEF RowsAgree
<1> QED
  BY <1>3, <1>4 DEF InStepInv

LEMMA IdleInStep ==
    ASSUME NEW rows_, NEW states, \A o \in Order : Agrees(rows_[o].state, states[o], rows_[o].free)
    PROVE  InStep("idle", NoTx, rows_, states)
<1>1. \A o \in Order : NoTx.orders[o] = Unsaved /\ NoTx.resvs[o] = Unsaved
  BY DEF NoTx
<1>2. NoTx.op = "none"
  BY DEF NoTx
<1> QED
  BY <1>1, <1>2 DEF InStep, SeesAgreement, Held, HeldResv, Cancelling, SetStateSteps

LEMMA InStepRollback ==
    ASSUME OrderInv, SerialInv', RowsAgree, OneAtATime, NEW p \in Process, Rollback(p)
    PROVE  InStepInv'
<1>1. InStep("idle", NoTx, order, resv)
  BY IdleInStep DEF RowsAgree
<1> QED
  BY <1>1, InStepKept DEF Rollback, rows

\* What is known of the one process
LEMMA OwnInStep ==
    ASSUME InStepInv, NEW p \in Process
    PROVE  /\ InStep(at[p], tx[p], order, resv) /\ OrderInv /\ SerialInv /\ RowsAgree
           /\ tx[p] \in Transaction /\ tx[p].o \in Order
           /\ tx[p].orders \in [Order -> OrderState \cup {Unsaved}]
           /\ tx[p].resvs \in [Order -> ReservationState \cup {Unsaved}]
           /\ tx[p].then \in {"commit", "next", "save", "log"}
           /\ SeenOrder(p, tx[p].o) = Held(tx[p], order, tx[p].o)
           /\ SeenResv(p, tx[p].o) = HeldResv(tx[p], resv, tx[p].o)
BY OwnInformed DEF InStepInv, Transaction, SeenResv, HeldResv

-----------------------------------------------------------------------------
(* Arrivals                                                                *)

LEMMA InStepStart ==
    ASSUME OrderInv, SerialInv', RowsAgree, OneAtATime, NEW p \in Process, NEW l, NEW t,
           Start(p, l, t), t.orders = NoTx.orders, t.resvs = NoTx.resvs, t.o \in Order,
           t.sync, t.then # "save", t.op \notin {"none", "put"} \/ l = "validate",
           l \in {"set_state", "validate", "cancel", "query"},
           t.op \in {"delete", "range"} <=> l = "cancel",
           l = "cancel" => t.goal = CANCELLED,
           l = "validate" => AsRead(t, resv)
    PROVE  InStepInv'
<1>1. \A o \in Order : t.orders[o] = Unsaved /\ t.resvs[o] = Unsaved
  BY DEF NoTx
<1>2. \A o \in Order : SeesAgreement(t, order, resv, o)
  BY <1>1 DEF SeesAgreement, Held, HeldResv, RowsAgree
<1>3. ~Cancelling(l, t)
  BY DEF Cancelling, SetStateSteps
<1>4. l \in SetStateSteps => SetsBoth(l, t, order, resv)
  BY DEF SetsBoth, SetStateSteps
<1>5. InStep(l, t, order, resv)
  BY <1>2, <1>3, <1>4 DEF InStep
<1> QED
  BY <1>5, InStepKept DEF Start, rows

LEMMA InStepArrive ==
    ASSUME OrderInv, SerialInv', RowsAgree, OneAtATime, AsksInStep, NEW w \in Worker, Arrive(w)
    PROVE  InStepInv'
<1>0. w \in Process
  BY DEF Process
<1>1. ASSUME NEW o \in Order, NEW a, Callback(w, o, a) PROVE InStepInv'
  <2> DEFINE t == [NoTx EXCEPT !.op = "callback", !.o = o, !.goal = a, !.old = order[o].state]
  <2>1. Start(w, "set_state", t)
    BY <1>1 DEF Callback
  <2>2. /\ t.orders = NoTx.orders /\ t.resvs = NoTx.resvs /\ t.o = o /\ t.op = "callback"
        /\ t.sync /\ t.then = "commit"
    BY DEF NoTx
  <2> HIDE DEF t
  <2> QED
    BY <1>0, <2>1, <2>2, InStepStart
<1>2. ASSUME NEW o \in Order, AdminBegin(w, o) PROVE InStepInv'
  <2> DEFINE t == [NoTx EXCEPT !.op = "admin", !.o = o, !.goal = CANCELLED, !.old = CONFIRMED]
  <2>1. Start(w, "set_state", t)
    BY <1>2 DEF AdminBegin
  <2>2. /\ t.orders = NoTx.orders /\ t.resvs = NoTx.resvs /\ t.o = o /\ t.op = "admin"
        /\ t.sync /\ t.then = "commit"
    BY DEF NoTx
  <2> HIDE DEF t
  <2> QED
    BY <1>0, <2>1, <2>2, InStepStart
<1>3. ASSUME NEW u \in By, NEW o \in Order, DeleteBegin(w, u, o) PROVE InStepInv'
  <2> DEFINE t == [NoTx EXCEPT !.op = "delete", !.o = o, !.by = u, !.goal = CANCELLED,
                               !.old = order[o].state]
  <2>1. Start(w, "cancel", t)
    BY <1>3 DEF DeleteBegin
  <2>2. /\ t.orders = NoTx.orders /\ t.resvs = NoTx.resvs /\ t.o = o /\ t.op = "delete"
        /\ t.sync /\ t.then = "commit" /\ t.goal = CANCELLED
    BY DEF NoTx
  <2> HIDE DEF t
  <2> QED
    BY <1>0, <2>1, <2>2, InStepStart
<1>4. ASSUME NEW o \in Order, CancelRangeBegin(w, o) PROVE InStepInv'
  <2> DEFINE t == [NoTx EXCEPT !.op = "range", !.o = o, !.goal = CANCELLED]
  <2>1. Start(w, "cancel", t)
    BY <1>4 DEF CancelRangeBegin
  <2>2. /\ t.orders = NoTx.orders /\ t.resvs = NoTx.resvs /\ t.o = o /\ t.op = "range"
        /\ t.sync /\ t.then = "commit" /\ t.goal = CANCELLED
    BY DEF NoTx
  <2> HIDE DEF t
  <2> QED
    BY <1>0, <2>1, <2>2, InStepStart
<1>5. ASSUME NEW u \in By, NEW o \in Order, NEW s \in AskedStates \cup {Keep},
             NEW pay \in BOOLEAN, PutBegin(w, u, o, s, pay)
      PROVE  InStepInv'
  <2> DEFINE t == [NoTx EXCEPT !.op = "put", !.o = o, !.by = u, !.ask = s, !.pay = pay,
                               !.old = order[o].state, !.copy = resv[o]]
  <2>1. Start(w, "validate", t) /\ (s # Keep => StateChangeAllowed(resv[o], s, u))
    BY <1>5 DEF PutBegin
  <2>2. /\ t.orders = NoTx.orders /\ t.resvs = NoTx.resvs /\ t.o = o /\ t.op = "put"
        /\ t.sync /\ t.then = "commit" /\ t.ask = s /\ t.copy = resv[o]
    BY DEF NoTx
  <2>3. t.orders[o] = Unsaved /\ t.resvs[o] = Unsaved
    BY <2>2 DEF NoTx
  <2>4. s \in {Keep, resv[o]} \/ (s = CONFIRMED /\ resv[o] # CANCELLED)
    BY <2>1 DEF AsksInStep, StateChangeAllowed, CONFIRMED, READY_FOR_PAYMENT, CANCELLED, REQUESTED,
       DENIED, WAITING_FOR_PAYMENT, WAITING_FOR_CASH_PAYMENT
  <2> HIDE DEF t
  <2>5. AsRead(t, resv)
    BY <2>2, <2>3, <2>4 DEF AsRead
  <2> QED
    BY <1>0, <2>1, <2>2, <2>5, InStepStart
<1> QED
  BY <1>1, <1>2, <1>3, <1>4, <1>5 DEF Arrive

LEMMA InStepJobBegin ==
    ASSUME OrderInv, SerialInv', RowsAgree, OneAtATime, NEW c \in Cron, JobBegin(c)
    PROVE  InStepInv'
<1> DEFINE t == [NoTx EXCEPT !.op = "job", !.goal = EXPIRED, !.then = "next"]
<1>1. Start(c, "query", t) /\ c \in Process
  BY DEF JobBegin, Process
<1>2. /\ t.orders = NoTx.orders /\ t.resvs = NoTx.resvs /\ t.o \in Order /\ t.op = "job"
      /\ t.sync /\ t.then = "next"
  BY DEF NoTx
<1> HIDE DEF t
<1> QED
  BY <1>1, <1>2, InStepStart

-----------------------------------------------------------------------------
(* set_state                                                               *)

\* After set_state only the step "save" presumes anything but agreement
LEMMA ThenInStep ==
    ASSUME NEW k \in {"commit", "next", "save", "log"}, NEW t,
           \A o \in Order : SeesAgreement(t, order, resv, o),
           t.op = "job" => t.sync, k = "save" => WillAgree(t, order)
    PROVE  InStep(k, t, order, resv)
BY DEF InStep, Cancelling, SetStateSteps

\* The order takes the state that set_state has given it in memory, the reservation agreeing
LEMMA WrittenInStep ==
    ASSUME InStepInv, NEW p \in Process, NEW k \in {"commit", "next", "save", "log"}, NEW u,
           u.o = tx[p].o, u.op = tx[p].op, u.sync = tx[p].sync,
           u.orders = [tx[p].orders EXCEPT ![tx[p].o] = tx[p].goal],
           \A o \in Order \ {tx[p].o} : u.resvs[o] = tx[p].resvs[o],
           Agrees(tx[p].goal, HeldResv(u, resv, u.o), order[u.o].free),
           k = "save" => Agrees(tx[p].goal, u.copy, order[u.o].free)
                         /\ Agrees(tx[p].goal, u.ask, order[u.o].free)
    PROVE  InStep(k, u, order, resv)
<1> DEFINE t == tx[p]
<1>1. /\ u.orders[t.o] = t.goal
      /\ \A o \in Order \ {t.o} : u.orders[o] = t.orders[o]
  BY OwnInStep
<1>2. t.goal # Unsaved
  BY OwnInStep, States DEF Transaction
<1>3. Held(u, order, u.o) = t.goal
  BY <1>1, <1>2 DEF Held
<1>4. ASSUME NEW o \in Order PROVE SeesAgreement(u, order, resv, o)
  <2>1. CASE o = t.o
    BY <1>3, <2>1 DEF SeesAgreement
  <2>2. CASE o # t.o
    <3>1. SeesAgreement(t, order, resv, o)
      BY <2>2, OwnInStep DEF InStep
    <3> QED
      BY <1>1, <2>2, <3>1 DEF SeesAgreement, Held, HeldResv
  <2> QED
    BY <2>1, <2>2
<1>5. k = "save" => WillAgree(u, order)
  BY <1>3 DEF WillAgree
<1>6. u.op = "job" => u.sync
  BY OwnInStep DEF InStep
<1> QED
  BY <1>4, <1>5, <1>6, ThenInStep

\* Nothing is done, as the order is what it should be
LEMMA SkippedInStep ==
    ASSUME InStepInv, NEW p \in Process, at[p] = "set_state",
           Held(tx[p], order, tx[p].o) = tx[p].goal
    PROVE  InStep(tx[p].then, tx[p], order, resv)
<1> DEFINE t == tx[p]
<1>1. ASSUME NEW o \in Order PROVE SeesAgreement(t, order, resv, o)
  <2>1. CASE o = t.o /\ Cancelling("set_state", t)
    <3>1. Held(t, order, o) = CANCELLED /\ HeldResv(t, resv, o) = CANCELLED
      BY <2>1, OwnInStep DEF InStep
    <3> QED
      BY <3>1, States DEF SeesAgreement, Agrees
  <2>2. CASE ~(o = t.o /\ Cancelling("set_state", t))
    BY <2>2, OwnInStep DEF InStep
  <2> QED
    BY <2>1, <2>2
<1>2. t.then = "save" => WillAgree(t, order)
  BY OwnInStep DEF InStep, SetsBoth, SetStateSteps
<1> QED
  BY <1>1, <1>2, OwnInStep, ThenInStep DEF InStep

\* With one process a lock is always to be had
LEMMA LockFree ==
    ASSUME OrderInv, OneAtATime, NEW p \in Process, NEW o \in Order
    PROVE  Mine(olock[o], p)
BY DEF OrderInv, TypeOK, OneAtATime, Mine

LEMMA InStepSetStateSkips ==
    ASSUME InStepInv, SerialInv', OneAtATime, NEW p \in Process, SetStateSkips(p)
    PROVE  InStepInv'
<1>1. at[p] = "set_state" /\ tx[p].old = tx[p].goal
  BY OwnInStep, LockFree DEF SetStateSkips
<1>2. Held(tx[p], order, tx[p].o) = tx[p].goal
  BY <1>1, OwnInStep DEF SerialInv, Informed, Knows
<1> QED
  BY <1>1, <1>2, SkippedInStep, OwnInStep, InStepKept DEF SetStateSkips, rows

LEMMA InStepSetState ==
    ASSUME InStepInv, SerialInv', OneAtATime, NEW p \in Process, SetState(p)
    PROVE  InStepInv'
<1> DEFINE t == tx[p]
           made == [t EXCEPT !.old = t.goal]
           wrote == [made EXCEPT !.orders[t.o] = t.goal]
<1>t. t \in Transaction
  BY OwnInStep
<1>1. at[p] = "set_state"
  BY DEF SetState
<1>2. SeenOrder(p, t.o) = Held(t, order, t.o)
  BY OwnInStep
<1>3. CASE SeenOrder(p, t.o) = t.goal /\ Step(p, t.then, t) /\ UNCHANGED rows
  BY <1>1, <1>2, <1>3, SkippedInStep, OwnInStep, InStepKept DEF rows
<1>4. CASE Raise(p)
  <2>1. CASE t.op = "callback"
    <3>1. \A o \in Order : SeesAgreement(t, order, resv, o)
      BY <2>1, OwnInStep DEF InStep, Cancelling
    <3>2. InStep("commit", t, order, resv)
      BY <2>1, <3>1, ThenInStep
    <3> QED
      BY <1>4, <2>1, <3>2, OwnInStep, InStepKept DEF Raise, rows
  <2>2. CASE t.op # "callback"
    BY <1>4, <2>2, OwnInStep, InStepRollback DEF Raise
  <2> QED
    BY <2>1, <2>2
<1>5. CASE UNCHANGED rows /\ t.sync /\ Step(p, "read_resv", made)
  <2>1. /\ made.o = t.o /\ made.op = t.op /\ made.sync = t.sync /\ made.goal = t.goal
        /\ made.orders = t.orders /\ made.resvs = t.resvs /\ made.copy = t.copy
        /\ made.then = t.then
    BY <1>t DEF Transaction
  <2>2. /\ \A o : Held(made, order, o) = Held(t, order, o)
        /\ \A o : HeldResv(made, resv, o) = HeldResv(t, resv, o)
    BY <2>1 DEF Held, HeldResv
  <2>3. Cancelling("read_resv", made) <=> Cancelling("set_state", t)
    BY <2>1 DEF Cancelling, SetStateSteps
  <2>4. \A o \in Order : SeesAgreement(made, order, resv, o) <=> SeesAgreement(t, order, resv, o)
    BY <2>2 DEF SeesAgreement
  <2>5. SetsBoth("read_resv", made, order, resv)
    <3>1. SetsBoth("set_state", t, order, resv)
      BY <1>1, OwnInStep DEF InStep, SetStateSteps
    <3> QED
      BY <1>5, <2>1, <2>2, <3>1 DEF SetsBoth
  <2> HIDE DEF made
  <2>6. InStep("read_resv", made, order, resv)
    BY <1>1, <1>5, <2>1, <2>2, <2>3, <2>4, <2>5, OwnInStep DEF InStep
  <2> QED
    BY <1>5, <2>6, OwnInStep, InStepKept DEF rows
<1>6. CASE UNCHANGED rows /\ ~t.sync /\ Step(p, t.then, wrote)
  <2>1. /\ wrote.o = t.o /\ wrote.op = t.op /\ wrote.sync = t.sync /\ wrote.resvs = t.resvs
        /\ wrote.orders = [t.orders EXCEPT ![t.o] = t.goal] /\ wrote.copy = t.copy
        /\ wrote.ask = t.ask
    BY <1>t DEF Transaction
  <2>2. t.goal = CONFIRMED /\ order[t.o].free
    BY <1>1, <1>6, OwnInStep DEF InStep, SetsBoth, SetStateSteps
  <2>3. \A rs : Agrees(t.goal, rs, order[t.o].free)
    BY <2>2, States DEF Agrees
  <2> HIDE DEF wrote
  <2>4. InStep(t.then, wrote, order, resv)
    BY <2>1, <2>3, OwnInStep, WrittenInStep
  <2> QED
    BY <1>6, <2>4, OwnInStep, InStepKept DEF rows
<1> QED
  BY <1>3, <1>4, <1>5, <1>6, OwnInStep DEF SetState, rows

LEMMA InStepReadReservation ==
    ASSUME InStepInv, SerialInv', OneAtATime, NEW p \in Process, ReadReservation(p)
    PROVE  InStepInv'
<1> DEFINE t == tx[p]
           wrote == [t EXCEPT !.orders[t.o] = t.goal]
           copy == IF t.op \in {"callback", "job", "admin"} THEN SeenResv(p, t.o) ELSE t.copy
<1>t. t \in Transaction
  BY OwnInStep
<1>1. /\ at[p] = "read_resv" /\ UNCHANGED rows
      /\ IF Settled(IF t.goal = CONFIRMED THEN CONFIRMED ELSE CANCELLED, copy)
         THEN Step(p, t.then, wrote) ELSE Step(p, "save_resv", t)
  BY DEF ReadReservation
<1>2. SetsBoth("read_resv", t, order, resv) /\ t.sync /\ t.then # "save"
  BY <1>1, OwnInStep DEF InStep, SetsBoth, SetStateSteps
<1>3. CASE Settled(IF t.goal = CONFIRMED THEN CONFIRMED ELSE CANCELLED, copy)
  <2>1. t.goal = CONFIRMED /\ copy = CONFIRMED
    BY <1>3 DEF Settled, CONFIRMED, CANCELLED, REQUESTED
  <2>2. t.op \notin {"delete", "range", "none"}
    BY <1>1, <1>2, <2>1, OwnInStep DEF InStep, Cancelling, SetsBoth, SetStateSteps, CONFIRMED, CANCELLED
  <2>3. HeldResv(t, resv, t.o) = CONFIRMED
    BY <1>t, <1>2, <2>1, <2>2, OwnInStep DEF SetsBoth, Transaction
  <2>4. /\ wrote.o = t.o /\ wrote.op = t.op /\ wrote.sync = t.sync /\ wrote.resvs = t.resvs
        /\ wrote.orders = [t.orders EXCEPT ![t.o] = t.goal]
    BY <1>t DEF Transaction
  <2> HIDE DEF wrote
  <2>5. Agrees(t.goal, HeldResv(wrote, resv, wrote.o), order[wrote.o].free)
    BY <2>1, <2>3, <2>4, States DEF Agrees, HeldResv
  <2>6. \A o \in Order \ {t.o} : wrote.resvs[o] = t.resvs[o]
    BY <2>4
  <2>7. t.then # "save" /\ t.then \in {"commit", "next", "save", "log"}
    BY <1>2, OwnInStep
  <2>8. InStep(t.then, wrote, order, resv)
    BY <2>4, <2>5, <2>6, <2>7, WrittenInStep
  <2> QED
    BY <1>1, <1>3, <2>8, OwnInStep, InStepKept DEF rows
<1>4. CASE ~Settled(IF t.goal = CONFIRMED THEN CONFIRMED ELSE CANCELLED, copy)
  <2>1. InStep("save_resv", t, order, resv)
    BY <1>1, <1>2, OwnInStep DEF InStep, Cancelling, SetsBoth, SetStateSteps
  <2> QED
    BY <1>1, <1>4, <2>1, OwnInStep, InStepKept DEF rows
<1> QED
  BY <1>3, <1>4

LEMMA InStepSaveReservation ==
    ASSUME InStepInv, SerialInv', OneAtATime, NEW p \in Process, SaveReservation(p)
    PROVE  InStepInv'
<1> DEFINE t == tx[p]
           rs == IF t.goal = CONFIRMED THEN CONFIRMED ELSE CANCELLED
           wrote == [t EXCEPT !.orders[t.o] = t.goal, !.restart = {"modified"},
                              !.resvs[t.o] = rs]
<1>t. t \in Transaction
  BY OwnInStep
<1>1. at[p] = "save_resv" /\ UNCHANGED rows /\ Step(p, t.then, wrote)
  BY DEF SaveReservation, rows
<1>2. t.then # "save"
  BY <1>1, OwnInStep DEF InStep, SetsBoth, SetStateSteps
<1>3. /\ wrote.o = t.o /\ wrote.op = t.op /\ wrote.sync = t.sync
      /\ wrote.resvs = [t.resvs EXCEPT ![t.o] = rs]
      /\ wrote.orders = [t.orders EXCEPT ![t.o] = t.goal]
  BY <1>t DEF Transaction
<1> HIDE DEF wrote
<1>4. /\ wrote.resvs[t.o] = rs /\ rs # Unsaved
      /\ \A o \in Order \ {t.o} : wrote.resvs[o] = t.resvs[o]
  BY <1>3, OwnInStep, States
<1>5. Agrees(t.goal, HeldResv(wrote, resv, wrote.o), order[wrote.o].free)
  BY <1>3, <1>4, States DEF Agrees, HeldResv, CONFIRMED, REJECTED, EXPIRED, CANCELLED
<1>6. InStep(t.then, wrote, order, resv)
  BY <1>2, <1>3, <1>4, <1>5, OwnInStep, WrittenInStep
<1> QED
  BY <1>1, <1>6, OwnInStep, InStepKept DEF rows

-----------------------------------------------------------------------------
(* The job and the requests of users                                       *)

\* What has been written is as it was
LEMMA SameInStep ==
    ASSUME NEW t, NEW u, u.orders = t.orders, u.resvs = t.resvs
    PROVE  /\ \A o : Held(u, order, o) = Held(t, order, o)
           /\ \A o : HeldResv(u, resv, o) = HeldResv(t, resv, o)
           /\ \A o : SeesAgreement(u, order, resv, o) <=> SeesAgreement(t, order, resv, o)
BY DEF Held, HeldResv, SeesAgreement

\* Where no request cancels, all that the transaction sees agrees
LEMMA AllSeen ==
    ASSUME InStepInv, NEW p \in Process, at[p] \notin SetStateSteps
    PROVE  \A o \in Order : SeesAgreement(tx[p], order, resv, o)
BY OwnInStep DEF InStep, Cancelling

LEMMA InStepJob ==
    ASSUME InStepInv, SerialInv', OneAtATime, NEW p \in Process, JobQuery(p) \/ JobNext(p)
    PROVE  InStepInv'
<1> DEFINE t == tx[p]
<1>t. t \in Transaction
  BY OwnInStep
<1>1. at[p] \in {"query", "next"} /\ UNCHANGED rows
  BY DEF JobQuery, JobNext
<1>2. t.op = "job" /\ t.then = "next" /\ t.sync
  <2>1. ControlOK(at[p], t)
    BY OwnInformed DEF InStepInv
  <2> QED
    BY <1>1, <2>1, OwnInStep DEF ControlOK, InStep
<1>3. \A o \in Order : SeesAgreement(t, order, resv, o)
  BY <1>1, AllSeen DEF SetStateSteps
<1>4. ASSUME NEW l \in {"set_state", "query", "next", "commit"}, NEW u, Step(p, l, u),
             u.orders = t.orders, u.resvs = t.resvs, u.op = t.op, u.then = t.then,
             u.sync = t.sync
      PROVE  InStepInv'
  <2>1. \A o \in Order : SeesAgreement(u, order, resv, o)
    BY <1>3, <1>4, SameInStep
  <2>2. SetsBoth(l, u, order, resv)
    BY <1>2, <1>4 DEF SetsBoth
  <2>3. InStep(l, u, order, resv)
    BY <1>2, <1>4, <2>1, <2>2 DEF InStep, Cancelling
  <2> QED
    BY <1>1, <1>4, <2>3, OwnInStep, InStepKept DEF rows
<1>5. CASE JobQuery(p)
  <2> DEFINE u == [t EXCEPT !.todo = {o \in Order : Expirable(p, t.class, o)}]
  <2>1. Step(p, "next", u)
    BY <1>5 DEF JobQuery
  <2>2. /\ u.orders = t.orders /\ u.resvs = t.resvs /\ u.op = t.op /\ u.then = t.then
        /\ u.sync = t.sync
    BY <1>t DEF Transaction
  <2> HIDE DEF u
  <2> QED
    BY <1>4, <2>1, <2>2
<1>6. ASSUME NEW o \in t.todo,
             Step(p, "set_state", [t EXCEPT !.o = o, !.todo = t.todo \ {o}, !.old = WAITING])
      PROVE  InStepInv'
  <2> DEFINE u == [t EXCEPT !.o = o, !.todo = t.todo \ {o}, !.old = WAITING]
  <2>1. Step(p, "set_state", u)
    BY <1>6
  <2>2. /\ u.orders = t.orders /\ u.resvs = t.resvs /\ u.op = t.op /\ u.then = t.then
        /\ u.sync = t.sync
    BY <1>t DEF Transaction
  <2> HIDE DEF u
  <2> QED
    BY <1>4, <2>1, <2>2
<1>7. CASE Step(p, "query", [t EXCEPT !.class = t.class + 1])
  <2> DEFINE u == [t EXCEPT !.class = t.class + 1]
  <2>1. Step(p, "query", u)
    BY <1>7
  <2>2. /\ u.orders = t.orders /\ u.resvs = t.resvs /\ u.op = t.op /\ u.then = t.then
        /\ u.sync = t.sync
    BY <1>t DEF Transaction
  <2> HIDE DEF u
  <2> QED
    BY <1>4, <2>1, <2>2
<1>8. CASE Step(p, "commit", t)
  BY <1>4, <1>8
<1> QED
  BY <1>5, <1>6, <1>7, <1>8 DEF JobNext

LEMMA InStepCancelReservation ==
    ASSUME InStepInv, SerialInv', OneAtATime, NEW p \in Process, CancelReservation(p)
    PROVE  InStepInv'
<1> DEFINE t == tx[p]
           old == IF t.op = "range" THEN order[t.o].state ELSE t.old
           u == [t EXCEPT !.resvs[t.o] = CANCELLED, !.copy = CANCELLED, !.old = old]
<1>t. t \in Transaction
  BY OwnInStep
<1>1. at[p] = "cancel" /\ UNCHANGED rows /\ Step(p, "set_state", u)
  BY DEF CancelReservation, rows
<1>2. /\ u.o = t.o /\ u.op = t.op /\ u.orders = t.orders /\ u.sync = t.sync /\ u.goal = t.goal
      /\ u.then = t.then /\ u.resvs = [t.resvs EXCEPT ![t.o] = CANCELLED]
  BY <1>t DEF Transaction
<1> HIDE DEF u
<1>3. u.op \in {"delete", "range"} /\ u.goal = CANCELLED /\ u.sync
  BY <1>1, <1>2, OwnInStep DEF InStep
<1>4. /\ u.resvs[t.o] = CANCELLED /\ CANCELLED # Unsaved
      /\ \A o \in Order \ {t.o} : u.resvs[o] = t.resvs[o]
  BY <1>2, OwnInStep, States
<1>5. ASSUME NEW o \in Order PROVE (o = u.o /\ Cancelling("set_state", u)) \/ SeesAgreement(u, order, resv, o)
  <2>1. CASE o = t.o
    BY <1>2, <1>3, <2>1 DEF Cancelling, SetStateSteps
  <2>2. CASE o # t.o
    <3>1. SeesAgreement(t, order, resv, o)
      BY <1>1, AllSeen DEF SetStateSteps
    <3> QED
      BY <1>2, <1>4, <2>2, <3>1 DEF SeesAgreement, Held, HeldResv
  <2> QED
    BY <2>1, <2>2
<1>6. HeldResv(u, resv, u.o) = CANCELLED
  BY <1>2, <1>4 DEF HeldResv
<1>7. SetsBoth("set_state", u, order, resv)
  <2>1. u.then # "save"
    <3>1. ControlOK(at[p], t)
      BY OwnInformed DEF InStepInv
    <3> QED
      BY <1>2, <1>3, <3>1 DEF ControlOK
  <2> QED
    BY <1>3, <2>1 DEF SetsBoth
<1>8. InStep("set_state", u, order, resv)
  BY <1>3, <1>5, <1>6, <1>7 DEF InStep
<1> QED
  BY <1>1, <1>8, OwnInStep, InStepKept DEF rows

\* What an update decides to set agrees with its order, if what it has read did
LEMMA NextAgrees ==
    ASSUME NEW ask, NEW rs, NEW os, NEW method, NEW u, NEW free, Agrees(os, rs, free),
           ask \in {Keep, rs} \/ (ask = CONFIRMED /\ rs # CANCELLED)
    PROVE  Agrees(os, NextState(ask, rs, os, method, u), free)
BY DEF Agrees, NextState, Keep, WAITING, CONFIRMED, REJECTED, EXPIRED, CANCELLED, REQUESTED,
   READY_FOR_PAYMENT, WAITING_FOR_PAYMENT, WAITING_FOR_CASH_PAYMENT

LEMMA InStepPutRead ==
    ASSUME InStepInv, SerialInv', OneAtATime, NEW p \in Process, PutValidate(p) \/ PutReload(p)
    PROVE  InStepInv'
<1> DEFINE t == tx[p]
<1>t. t \in Transaction
  BY OwnInStep
<1>1. at[p] \in {"validate", "reload"} /\ UNCHANGED rows
  BY DEF PutValidate, PutReload, Rollback
<1>2. AsRead(t, resv) /\ (t.op = "job" => t.sync)
  BY <1>1, OwnInStep DEF InStep
<1>3. \A o \in Order : SeesAgreement(t, order, resv, o)
  BY <1>1, AllSeen DEF SetStateSteps
<1>4. CASE PutValidate(p)
  <2>1. InStep("reload", t, order, resv)
    BY <1>2, <1>3 DEF InStep, Cancelling, SetStateSteps
  <2> QED
    BY <1>1, <1>4, <2>1, OwnInStep, InStepKept DEF PutValidate, rows
<1>5. CASE PutReload(p)
  <2> DEFINE next == NextState(t.ask, resv[t.o], order[t.o].state, order[t.o].method, t.by)
             u == [t EXCEPT !.fresh = resv[t.o], !.ask = next]
  <2>1. Rollback(p) \/ \E k \in {"pay", "save"} : Step(p, k, u)
    BY <1>5 DEF PutReload
  <2>2. /\ u.o = t.o /\ u.op = t.op /\ u.orders = t.orders /\ u.resvs = t.resvs
        /\ u.sync = t.sync /\ u.copy = t.copy /\ u.ask = next
    BY <1>t DEF Transaction
  <2>3. Agrees(order[t.o].state, resv[t.o], order[t.o].free)
    BY OwnInStep DEF RowsAgree
  <2>4. Agrees(order[t.o].state, next, order[t.o].free)
    BY <1>2, <2>3, NextAgrees DEF AsRead
  <2> HIDE DEF u, next
  <2>5. WillAgree(u, order)
    BY <1>2, <2>2, <2>3, <2>4 DEF AsRead, WillAgree, Held
  <2>6. \A o \in Order : SeesAgreement(u, order, resv, o)
    BY <1>3, <2>2, SameInStep
  <2>7. \A k \in {"pay", "save"} : InStep(k, u, order, resv)
    BY <1>2, <2>2, <2>5, <2>6 DEF InStep, Cancelling, SetStateSteps
  <2> QED
    BY <1>1, <2>1, <2>7, OwnInStep, InStepKept, InStepRollback DEF rows
<1> QED
  BY <1>4, <1>5

\* An order that is saved as it was read is as it was
LEMMA SavedAsRead ==
    ASSUME InStepInv, NEW p \in Process, at[p] \in {"pay", "notify"}, NEW u, u.o = tx[p].o,
           u.orders = [tx[p].orders EXCEPT ![tx[p].o] = tx[p].old], u.resvs = tx[p].resvs
    PROVE  /\ \A o \in Order : Held(u, order, o) = Held(tx[p], order, o)
           /\ \A o \in Order : SeesAgreement(u, order, resv, o)
<1> DEFINE t == tx[p]
<1>1. t.old = Held(t, order, t.o) /\ t.old # Unsaved
  <2>1. t.old \in OrderState
    BY OwnInStep DEF Transaction
  <2>2. Informed(at[p], t, order)
    BY OwnInformed DEF InStepInv
  <2> QED
    BY <2>1, <2>2, States DEF Informed, Knows
<1>2. \A o \in Order : IF o = t.o THEN u.orders[o] = t.old ELSE u.orders[o] = t.orders[o]
  BY OwnInStep
<1>3. \A o \in Order : Held(u, order, o) = Held(t, order, o)
  BY <1>1, <1>2 DEF Held
<1>4. \A o \in Order : SeesAgreement(t, order, resv, o)
  BY AllSeen DEF SetStateSteps
<1> QED
  BY <1>3, <1>4 DEF SeesAgreement, HeldResv

\* The reservation takes a state that agrees with its order
LEMMA ResvWritten ==
    ASSUME InStepInv, NEW p \in Process, at[p] \in {"save", "state"}, NEW u, NEW rs,
           rs \in ReservationState, u.o = tx[p].o, u.orders = tx[p].orders,
           u.resvs = [tx[p].resvs EXCEPT ![tx[p].o] = rs],
           Agrees(Held(tx[p], order, tx[p].o), rs, order[tx[p].o].free)
    PROVE  /\ \A o \in Order : SeesAgreement(u, order, resv, o)
           /\ HeldResv(u, resv, u.o) = rs /\ Held(u, order, u.o) = Held(tx[p], order, u.o)
<1> DEFINE t == tx[p]
<1>1. rs # Unsaved
  BY States
<1>2. \A o \in Order : IF o = t.o THEN u.resvs[o] = rs ELSE u.resvs[o] = t.resvs[o]
  BY OwnInStep
<1>3. \A o : Held(u, order, o) = Held(t, order, o)
  BY DEF Held
<1>4. HeldResv(u, resv, u.o) = rs
  BY <1>1, <1>2, OwnInStep DEF HeldResv
<1>5. ASSUME NEW o \in Order PROVE SeesAgreement(u, order, resv, o)
  <2>1. CASE o = t.o
    BY <1>3, <1>4, <2>1 DEF SeesAgreement
  <2>2. CASE o # t.o
    <3>1. SeesAgreement(t, order, resv, o)
      BY AllSeen DEF SetStateSteps
    <3> QED
      BY <1>2, <1>3, <2>2, <3>1 DEF SeesAgreement, HeldResv
  <2> QED
    BY <2>1, <2>2
<1> QED
  BY <1>3, <1>4, <1>5

LEMMA InStepPutPay ==
    ASSUME InStepInv, SerialInv', OneAtATime, NEW p \in Process, PutPay(p)
    PROVE  InStepInv'
<1> DEFINE t == tx[p]
           u == [t EXCEPT !.orders[t.o] = t.old, !.goal = CONFIRMED, !.sync = FALSE,
                          !.then = "save"]
           k == IF order[t.o].free THEN "set_state" ELSE "save"
<1>t. t \in Transaction
  BY OwnInStep
<1>1. at[p] = "pay" /\ UNCHANGED <<order, resv>> /\ Step(p, k, u)
  BY DEF PutPay, rows
<1>2. /\ u.o = t.o /\ u.op = t.op /\ u.orders = [t.orders EXCEPT ![t.o] = t.old]
      /\ u.resvs = t.resvs /\ u.sync = FALSE /\ u.copy = t.copy /\ u.ask = t.ask
      /\ u.goal = CONFIRMED /\ u.then = "save"
  BY <1>t DEF Transaction
<1>3. t.op = "put"
  <2>1. ControlOK(at[p], t)
    BY OwnInformed DEF InStepInv
  <2> QED
    BY <1>1, <2>1 DEF ControlOK
<1> HIDE DEF u
<1>4. /\ \A o \in Order : Held(u, order, o) = Held(t, order, o)
      /\ \A o \in Order : SeesAgreement(u, order, resv, o)
  BY <1>1, <1>2, SavedAsRead
<1>5. WillAgree(u, order)
  BY <1>1, <1>2, <1>4, OwnInStep DEF InStep, WillAgree
<1>6. order[t.o].free => SetsBoth("set_state", u, order, resv)
  BY <1>2, <1>3 DEF SetsBoth
<1>7. InStep(k, u, order, resv)
  BY <1>2, <1>3, <1>4, <1>5, <1>6 DEF InStep, Cancelling, SetStateSteps
<1> QED
  BY <1>1, <1>7, OwnInStep, InStepKept

LEMMA InStepPutSave ==
    ASSUME InStepInv, SerialInv', OneAtATime, NEW p \in Process, PutSave(p)
    PROVE  InStepInv'
<1> DEFINE t == tx[p]
           u == [t EXCEPT !.resvs[t.o] = t.copy, !.restart = {"modified"}]
<1>t. t \in Transaction
  BY OwnInStep
<1>1. at[p] = "save" /\ UNCHANGED rows /\ Step(p, "state", u)
  BY DEF PutSave, rows
<1>2. /\ u.o = t.o /\ u.op = t.op /\ u.orders = t.orders /\ u.sync = t.sync
      /\ u.resvs = [t.resvs EXCEPT ![t.o] = t.copy] /\ u.copy = t.copy /\ u.ask = t.ask
  BY <1>t DEF Transaction
<1>3. t.copy \in ReservationState
  BY <1>t DEF Transaction
<1> HIDE DEF u
<1>4. WillAgree(t, order) /\ (t.op = "job" => t.sync)
  BY <1>1, OwnInStep DEF InStep
<1>5. Agrees(Held(t, order, t.o), t.copy, order[t.o].free)
  BY <1>4 DEF WillAgree
<1>6. \A o \in Order : SeesAgreement(u, order, resv, o)
  BY <1>1, <1>2, <1>3, <1>5, ResvWritten
<1>7. WillAgree(u, order)
  BY <1>2, <1>4 DEF WillAgree, Held
<1>8. InStep("state", u, order, resv)
  BY <1>2, <1>4, <1>6, <1>7 DEF InStep, Cancelling, SetStateSteps
<1> QED
  BY <1>1, <1>8, OwnInStep, InStepKept DEF rows

LEMMA InStepPutState ==
    ASSUME InStepInv, SerialInv', OneAtATime, NEW p \in Process, PutState(p)
    PROVE  InStepInv'
<1> DEFINE t == tx[p]
           saved == [t EXCEPT !.resvs[t.o] = t.ask, !.copy = t.ask]
           last == [saved EXCEPT !.goal = CONFIRMED, !.sync = TRUE, !.then = "log"]
<1>t. t \in Transaction
  BY OwnInStep
<1>0. at[p] = "state" /\ UNCHANGED rows
  BY DEF PutState
<1>1. \/ \E k \in {"notify", "log"} : Step(p, k, saved)
      \/ \E k \in {"notify", "set_state"} : Step(p, k, last)
  <2> HIDE DEF saved, last
  <2>1. Step(p, CASE t.ask = READY_FOR_PAYMENT -> "notify"
                  [] CashPaid(t.fresh, t.ask) -> "set_state"
                  [] OTHER -> "log",
             IF CashPaid(t.fresh, t.ask) THEN last ELSE saved)
    BY DEF PutState, saved, last
  <2> QED
    BY <2>1
<1>2. /\ saved.o = t.o /\ saved.op = t.op /\ saved.orders = t.orders /\ saved.sync = t.sync
      /\ saved.resvs = [t.resvs EXCEPT ![t.o] = t.ask]
  BY <1>t DEF Transaction
<1>3. /\ last.o = t.o /\ last.op = t.op /\ last.orders = t.orders /\ last.sync
      /\ last.resvs = [t.resvs EXCEPT ![t.o] = t.ask] /\ last.copy = t.ask /\ last.then = "log"
  BY <1>t DEF Transaction
<1>4. t.op = "put" /\ t.ask \in ReservationState
  <2>1. ControlOK(at[p], t)
    BY OwnInformed DEF InStepInv
  <2> QED
    BY <1>0, <1>t, <2>1 DEF ControlOK, Transaction
<1> HIDE DEF saved, last
<1>5. Agrees(Held(t, order, t.o), t.ask, order[t.o].free)
  BY <1>0, OwnInStep DEF InStep, WillAgree
<1>6. \A o \in Order : SeesAgreement(saved, order, resv, o)
  BY <1>0, <1>2, <1>4, <1>5, ResvWritten
<1>7. (\A o \in Order : SeesAgreement(last, order, resv, o)) /\ HeldResv(last, resv, last.o) = t.ask
  BY <1>0, <1>3, <1>4, <1>5, ResvWritten
<1>8. \A k \in {"notify", "log"} : InStep(k, saved, order, resv)
  BY <1>2, <1>4, <1>6 DEF InStep, Cancelling, SetStateSteps
<1>9. SetsBoth("set_state", last, order, resv)
  BY <1>3, <1>4, <1>7 DEF SetsBoth
<1>10. \A k \in {"notify", "set_state"} : InStep(k, last, order, resv)
  BY <1>3, <1>4, <1>7, <1>9 DEF InStep, Cancelling, SetStateSteps
<1> QED
  BY <1>0, <1>1, <1>8, <1>10, OwnInStep, InStepKept DEF rows

LEMMA InStepPutEnds ==
    ASSUME InStepInv, SerialInv', OneAtATime, NEW p \in Process, PutNotify(p) \/ PutLog(p)
    PROVE  InStepInv'
<1> DEFINE t == tx[p]
<1>t. t \in Transaction
  BY OwnInStep
<1>1. CASE PutNotify(p)
  <2> DEFINE u == [t EXCEPT !.orders[t.o] = t.old, !.restart = {"modified", "staff"}]
  <2>1. at[p] = "notify" /\ UNCHANGED rows /\ Step(p, "log", u)
    BY <1>1 DEF PutNotify, rows
  <2>2. /\ u.o = t.o /\ u.op = t.op /\ u.orders = [t.orders EXCEPT ![t.o] = t.old]
        /\ u.resvs = t.resvs /\ u.sync = t.sync
    BY <1>t DEF Transaction
  <2> HIDE DEF u
  <2>3. \A o \in Order : SeesAgreement(u, order, resv, o)
    BY <2>1, <2>2, SavedAsRead
  <2>4. InStep("log", u, order, resv)
    BY <2>2, <2>3, OwnInStep, ThenInStep DEF InStep
  <2> QED
    BY <2>1, <2>4, OwnInStep, InStepKept DEF rows
<1>2. CASE PutLog(p)
  <2>1. at[p] = "log" /\ UNCHANGED rows /\ Step(p, "commit", t)
    BY <1>2 DEF PutLog, rows
  <2>2. \A o \in Order : SeesAgreement(t, order, resv, o)
    BY <2>1, AllSeen DEF SetStateSteps
  <2>3. InStep("commit", t, order, resv)
    BY <2>2, OwnInStep, ThenInStep DEF InStep
  <2> QED
    BY <2>1, <2>3, OwnInStep, InStepKept DEF rows
<1> QED
  BY <1>1, <1>2

-----------------------------------------------------------------------------
(* The end of a transaction, and what happens outside                      *)

LEMMA InStepCommit ==
    ASSUME InStepInv, SerialInv', OneAtATime, NEW p \in Process, Commit(p)
    PROVE  InStepInv'
<1>1. at[p] = "commit" /\ at'[p] = "idle" /\ tx'[p] = NoTx
  BY OwnInStep DEF Commit, Step, OrderInv, TypeOK
<1>2. \A q \in Process : q = p
  BY DEF OneAtATime
<1>3. ASSUME NEW o \in Order PROVE Agrees(order'[o].state, resv'[o], order'[o].free)
  <2>1. SeesAgreement(tx[p], order, resv, o)
    BY <1>1, AllSeen DEF SetStateSteps
  <2>2. /\ order'[o].state = Held(tx[p], order, o) /\ order'[o].free = order[o].free
        /\ resv'[o] = HeldResv(tx[p], resv, o)
    BY OwnInStep DEF Commit, SeenOrder, SeenResv, Held, HeldResv, OrderInv, TypeOK
  <2> QED
    BY <2>1, <2>2 DEF SeesAgreement
<1>4. RowsAgree'
  BY <1>3 DEF RowsAgree
<1>5. InStep("idle", NoTx, order', resv')
  BY <1>3, IdleInStep
<1>6. (\A q \in Process : InStep(at[q], tx[q], order, resv))'
  BY <1>1, <1>2, <1>5
<1> QED
  BY <1>4, <1>6 DEF InStepInv

LEMMA InStepProceed ==
    ASSUME InStepInv, SerialInv', OneAtATime, NEW p \in Process, Proceed(p)
    PROVE  InStepInv'
BY InStepSetStateSkips, InStepSetState, InStepReadReservation, InStepSaveReservation,
   InStepJob, InStepCancelReservation, InStepPutRead, InStepPutPay, InStepPutSave,
   InStepPutState, InStepPutEnds, InStepCommit, NobodyWaits DEF Proceed

LEMMA InStepCreate ==
    ASSUME InStepInv, SerialInv', NEW o \in Order, NEW u \in By, NEW manual \in Manual,
           NEW m \in {CASH, ONLINE}, NEW free \in BOOLEAN, Create(o, u, manual, m, free)
    PROVE  InStepInv'
<1>1. /\ ~Present(o) /\ UNCHANGED <<at, tx>>
      /\ \A q \in Order \ {o} : order'[q] = order[q] /\ resv'[q] = resv[q]
      /\ order'[o].state = IF free THEN CONFIRMED ELSE WAITING
      /\ order'[o].free = free
  BY DEF Create, Present, InStepInv, SerialInv, OrderInv, TypeOK
<1>2. \A rs : Agrees(order'[o].state, rs, order'[o].free)
  BY <1>1 DEF Agrees, WAITING, CONFIRMED, REJECTED, EXPIRED, CANCELLED
<1>3. RowsAgree'
  BY <1>1, <1>2 DEF RowsAgree, InStepInv
<1>4. ASSUME NEW p \in Process PROVE InStep(at[p], tx[p], order', resv')
  <2> DEFINE t == tx[p]
             l == at[p]
  <2>0. InStep(l, t, order, resv) /\ ControlOK(l, t) /\ l \in Steps
    BY OwnInformed, OwnInStep DEF InStepInv, OrderInv, TypeOK
  <2>1. t.orders[o] = Unsaved /\ t.resvs[o] = Unsaved
    BY <1>1, <2>0 DEF ControlOK
  <2>2. l \notin {"idle", "query", "next", "commit"} => t.o # o
    BY <1>1, <2>0 DEF ControlOK
  <2>3. /\ \A q \in Order \ {o} : Held(t, order', q) = Held(t, order, q)
        /\ \A q \in Order \ {o} : HeldResv(t, resv', q) = HeldResv(t, resv, q)
    BY <1>1 DEF Held, HeldResv
  <2>4. ASSUME NEW q \in Order, ~(q = t.o /\ Cancelling(l, t))
        PROVE  SeesAgreement(t, order', resv', q)
    <3>1. CASE q = o
      BY <1>2, <2>1, <3>1 DEF SeesAgreement, Held
    <3>2. CASE q # o
      BY <1>1, <2>0, <2>3, <2>4, <3>2 DEF InStep, SeesAgreement
    <3> QED
      BY <3>1, <3>2
  <2>5. t.o \in Order
    BY OwnInStep
  <2>6. CASE l \in {"idle", "query", "next", "commit"}
    BY <2>0, <2>4, <2>6 DEF InStep, Cancelling, SetStateSteps
  <2>7. CASE l \notin {"idle", "query", "next", "commit"}
    <3>1. /\ order'[t.o] = order[t.o] /\ resv'[t.o] = resv[t.o]
          /\ Held(t, order', t.o) = Held(t, order, t.o)
          /\ HeldResv(t, resv', t.o) = HeldResv(t, resv, t.o)
      BY <1>1, <2>2, <2>3, <2>5, <2>7
    <3>2. AsRead(t, resv) => AsRead(t, resv')
      BY <3>1 DEF AsRead
    <3>3. WillAgree(t, order) => WillAgree(t, order')
      BY <3>1 DEF WillAgree
    <3>4. SetsBoth(l, t, order, resv) => SetsBoth(l, t, order', resv')
      BY <3>1 DEF SetsBoth
    <3> QED
      BY <2>0, <2>4, <3>1, <3>2, <3>3, <3>4 DEF InStep
  <2> QED
    BY <2>6, <2>7
<1>5. (\A p \in Process : InStep(at[p], tx[p], order, resv))'
  BY <1>1, <1>4
<1> QED
  BY <1>3, <1>5 DEF InStepInv

LEMMA InStepNext == OneAtATime /\ AsksInStep /\ InStepInv /\ [Next]_vars => InStepInv'
<1> SUFFICES ASSUME OneAtATime, AsksInStep, InStepInv, [Next]_vars PROVE InStepInv'
  OBVIOUS
<1>0. OrderInv /\ RowsAgree /\ SerialInv'
  BY SerialNext DEF InStepInv, SerialInv
<1>1. CASE UNCHANGED <<order, resv, at, tx>>
  BY <1>0, <1>1 DEF InStepInv, RowsAgree
<1>2. ASSUME NEW o \in Order PROVE /\ \A a : Answer(o, a) => UNCHANGED <<order, resv, at, tx>>
                                   /\ \A d : RunOut(o, d) => UNCHANGED <<order, resv, at, tx>>
  BY DEF Answer, RunOut, rows
<1>3. CASE UNCHANGED vars
  BY <1>1, <1>3 DEF vars
<1> QED
  BY <1>0, <1>1, <1>2, <1>3, InStepCreate, InStepArrive, InStepJobBegin, InStepProceed DEF Next

LEMMA InStepInit == Init => InStepInv
<1> SUFFICES ASSUME Init PROVE InStepInv
  OBVIOUS
<1>1. \A o \in Order : Agrees(order[o].state, resv[o], order[o].free)
  BY DEF Init, NoOrder, Agrees, Absent, CONFIRMED, REJECTED, EXPIRED, CANCELLED
<1>2. \A p \in Process : at[p] = "idle" /\ tx[p] = NoTx
  BY DEF Init
<1> QED
  BY <1>1, <1>2, IdleInStep, SerialInit DEF InStepInv, RowsAgree

\* If requests, callbacks and the job run one after the other, an order and its reservation agree
\* after each of them, cancellations and updates included, as long as staff neither denies nor
\* reverts what has been paid.
THEOREM SerialAgreement == OneAtATime /\ AsksInStep => (Spec => []OrderAndReservationAgree)
<1> SUFFICES ASSUME OneAtATime, AsksInStep PROVE Spec => []OrderAndReservationAgree
  OBVIOUS
<1>1. InStepInv /\ [Next]_vars => InStepInv'
  BY InStepNext
<1>2. InStepInv => OrderAndReservationAgree
  BY DEF InStepInv, RowsAgree, Agrees, OrderAndReservationAgree
<1> QED
  BY <1>1, <1>2, InStepInit, PTL DEF Spec

=============================================================================
