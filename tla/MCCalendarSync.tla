--------------------------- MODULE MCCalendarSync ---------------------------
(***************************************************************************)
(* An instance for TLC of the two synchronisations with calendars,         *)
(* CalendarSync (Outlook, respa_o365) and ExchangeSync.  A resource has    *)
(* the one or the other: each behaviour is one of the one or of the other. *)
(***************************************************************************)
EXTENDS Integers, Sequences, TLC

CONSTANTS
    Time, t1, t2, MaxEvents, None,
    OutlookRows, OutlookEvents, OutlookFaults,
    ExchangeRows, Item, Request, Listener, Download, ExchangeFaults

VARIABLES
    part, \* the component that runs
    phase, resv, events, rows, recent, fresh, queue, notices, at, job, left, hit,
    reservations, links, items, held, tx, list, listener, posted, chances, orphans, moved

\* One time is within the horizon; the other, too, or beyond
NearAndFar == {f \in [Time -> {"far", "near"}] : f[t1] = "near"}

O == INSTANCE CalendarSync WITH
       Reservation <- OutlookRows, Event <- OutlookEvents, Faults <- OutlookFaults,
       FirstPhase <- NearAndFar
E == INSTANCE ExchangeSync WITH
       Reservation <- ExchangeRows, Faults <- ExchangeFaults, MaxChanges <- MaxEvents,
       resv <- reservations, queue <- posted, left <- chances

ASSUME Constants == O!CalendarAssumption /\ E!ExchangeAssumption

outlook == <<phase, resv, events, rows, recent, fresh, queue, notices, at, job, left, hit>>
exchange == <<reservations, links, items, held, tx, list, listener, posted, chances, orphans, moved>>
vars == <<part, outlook, exchange>>

\* The component that does not run is at rest in its first state
Init ==
    /\ part \in {"Outlook", "Exchange"}
    /\ O!Init /\ E!Init
    /\ part = "Exchange" => phase = [t \in Time |-> "near"]

InOutlook == part = "Outlook" /\ O!Next /\ UNCHANGED <<part, exchange>>
InExchange == part = "Exchange" /\ E!Next /\ UNCHANGED <<part, outlook>>
Next == InOutlook \/ InExchange

Progress == part = "Exchange" /\ E!Progress /\ UNCHANGED <<part, outlook>>
Waiting(p) == part = "Exchange" /\ E!LockCalendar(p) /\ UNCHANGED <<part, outlook>>

\* The fairness of ExchangeSync!FairSpec
Spec == Init /\ [][Next]_vars /\ WF_vars(Progress) /\ \A p \in Request : SF_vars(Waiting(p))

\* Every variable of both components holds what it may.
TypeOK == O!TypeOK /\ E!TypeOK

\* Nothing is left to do: the calendar and Respa show the same (CalendarSync).
CalendarsAgree == O!CalendarsAgree

\* A booking is never there twice (CalendarSync).
NoDuplicates == O!NoDuplicates

\* Only a deleted event cancels its reservation (CalendarSync).
NoNeedlessCancel == O!NoNeedlessCancel

\* The process's own writes come to rest (CalendarSync).
EchoesDie == O!EchoesDie

\* No item is imported that a request is about to link (ExchangeSync).
NoEcho == E!NoEcho

\* All has settled: Exchange and Respa show the same, but for the times of imported reservations
\* that Respa has moved (ExchangeSync).
ExchangeAgrees == E!ExchangeAgrees

\* Requests, downloads and threads come to rest (ExchangeSync).
ExchangeSettles == part = "Exchange" => E!ExchangeSettles
=============================================================================
