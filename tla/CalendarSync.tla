---------------------------- MODULE CalendarSync ----------------------------
(***************************************************************************)
(* Synchronisation of a resource's reservations with an Outlook calendar   *)
(* (respa_o365): one link, its rows that map reservations to events, the   *)
(* queue of requests to synchronise, and the process that works it off.    *)
(*                                                                         *)
(* The process runs alone and in one transaction per queue item: what it   *)
(* writes to Respa is seen, and its rows are unlocked, at the commit; what *)
(* it writes to the calendar is seen at once and outlives a rollback.      *)
(* Between its steps the users of Respa and those of the calendar go on.   *)
(*                                                                         *)
(* A reservation and an event are abstracted to their time.  Keys of       *)
(* events are hashes of strings, which differ from process to process:     *)
(* they are never equal to a stored one and are left out.  The calendar is *)
(* external.                                                               *)
(***************************************************************************)
EXTENDS Integers, FiniteSets

CONSTANTS
    Reservation, \* rows of Reservation
    Event,       \* events of the calendar
    Time,        \* times of reservations and events
    FirstPhase,  \* where they may be at first
    Faults,      \* what may go wrong: "abort", "short", "late"
    MaxEvents,   \* bound: changes by users, and faults
    None         \* none of these

CalendarAssumption ==
    /\ Reservation \subseteq Nat /\ Event \subseteq Nat
    /\ Reservation \cap Event = {}
    /\ None \notin Reservation \cup Event \cup Time
    /\ FirstPhase \subseteq [Time -> {"far", "near", "past"}]
    /\ Faults \subseteq {"abort", "short", "late"}
    /\ MaxEvents \in Nat

VARIABLES
    phase,   \* where a time is: beyond the horizon of synchronisation, within it, before it
    resv,    \* reservations of the resource
    events,  \* external: the events of the calendar
    rows,    \* OutlookCalendarReservation: event and Respa change key of a reservation
    recent,  \* reservations modified after respa_reservation_sync_memento
    fresh,   \* events modified after exchange_reservation_sync_memento
    queue,   \* the link is in OutlookSyncQueue
    notices, \* external: the calendar has changes still to notify
    at, job, \* where the process is, and what it holds in memory
    left,    \* changes and faults left
    hit      \* history: bookings struck by a fault, a rollback or the horizon

vars == <<phase, resv, events, rows, recent, fresh, queue, notices, at, job, left, hit>>

Booking == Reservation \cup Event

\* A booking is known by the reservation or event that was there first
NoResv == [state |-> "none", time |-> None, origin |-> None]
NoEvent == NoResv
NoRow == [event |-> None, key |-> None]

\* What the process has read and decided; changes it has not committed yet
Idle == [respa |-> [r \in Reservation |-> "absent"], remote |-> [e \in Event |-> "absent"],
         listed |-> {}, rows |-> [r \in Reservation |-> NoRow], readR |-> {}, readE |-> {},
         todo |-> {}, draft |-> [r \in Reservation |-> NoResv], made |-> {}]

\* ChangeType, where created and updated are "changed"; absent is no entry
ChangeType == {"absent", "no change", "changed", "deleted", "expired"}

TypeOK ==
    /\ phase \in [Time -> {"far", "near", "past"}]
    /\ resv \in [Reservation -> [state : {"none", "booked", "cancelled"},
                                 time : Time \cup {None}, origin : Booking \cup {None}]]
    /\ events \in [Event -> [state : {"none", "there", "gone"},
                             time : Time \cup {None}, origin : Booking \cup {None}]]
    /\ rows \in [Reservation -> [event : Event \cup {None}, key : Time \cup {None}]]
    /\ recent \subseteq Reservation /\ fresh \subseteq Event
    /\ queue \in BOOLEAN /\ notices \in BOOLEAN
    /\ at \in {"idle", "plan", "ops"}
    /\ job.respa \in [Reservation -> ChangeType \ {"expired"}]
    /\ job.remote \in [Event -> ChangeType]
    /\ job.todo \subseteq [act : {"update Respa", "delete in Respa", "create in calendar",
                               "update calendar", "delete in calendar", "remove mapping"},
                        r : Reservation, e : Event]
                      \cup [act : {"create in Respa"}, r : {None}, e : Event]
                      \cup [act : {"create in calendar"}, r : Reservation, e : {None}]
    /\ job.rows \in [Reservation -> [event : Event \cup {None}, key : Time \cup {None}]]
    /\ left \in 0 .. MaxEvents
    /\ hit \subseteq Booking

Init ==
    /\ phase \in FirstPhase
    /\ resv = [r \in Reservation |-> NoResv]
    /\ events = [e \in Event |-> NoEvent]
    /\ rows = [r \in Reservation |-> NoRow]
    /\ recent = {} /\ fresh = {} /\ queue = FALSE /\ notices = FALSE
    /\ at = "idle" /\ job = Idle
    /\ left = MaxEvents
    /\ hit = {}

-----------------------------------------------------------------------------
(* Users *)

Booked(r) == resv[r].state = "booked"
There(e) == events[e].state = "there"
Near(x) == x.time # None /\ phase[x.time] = "near"
NotPast(x) == phase[x.time] # "past"

\* Bookings beyond the horizon are not followed
Beyond(t, o) == IF phase[t] = "far" THEN {o} ELSE {}

Spend == left > 0 /\ left' = left - 1

\* handle_reservation_save: any save by a user puts the link into the queue
Saved(r, row) ==
    /\ Spend
    /\ resv' = [resv EXCEPT ![r] = row]
    /\ recent' = recent \cup {r}
    /\ job' = [job EXCEPT !.readR = @ \ {r}]
    /\ queue' = TRUE
    /\ UNCHANGED <<phase, events, rows, fresh, notices, at>>

\* A row the process has written is locked until the commit
Written(r) == job.draft[r] # NoResv

\* A request commits after it has saved; in between the process may have read later changes
\* and taken its memento from them
SavedLate(r, row) ==
    /\ Spend /\ "late" \in Faults
    /\ resv' = [resv EXCEPT ![r] = row]
    /\ \/ /\ r \notin recent /\ \E s \in Reservation : s # r /\ resv[s].state # "none" /\ s \notin recent
          /\ UNCHANGED <<recent, job>>
       \/ /\ job.readR # {}
          /\ recent' = recent \cup {r}
          /\ job' = [job EXCEPT !.readR = @ \cup {r}]
    /\ queue' = TRUE
    /\ hit' = hit \cup {row.origin}
    /\ UNCHANGED <<phase, events, rows, fresh, notices, at>>

Free(r) == resv[r].state = "none" /\ ~Written(r)

Book(t) ==
    /\ phase[t] # "past"
    /\ \E r \in Reservation :
        /\ Free(r) /\ \A s \in Reservation : Free(s) => r <= s
        /\ LET row == [state |-> "booked", time |-> t, origin |-> r] IN
           (Saved(r, row) /\ hit' = hit \cup Beyond(t, r)) \/ SavedLate(r, row)

Move(r, t) ==
    /\ Booked(r) /\ NotPast(resv[r]) /\ phase[t] # "past" /\ t # resv[r].time
    /\ ~Written(r)
    /\ LET row == [resv[r] EXCEPT !.time = t] IN
       (Saved(r, row) /\ hit' = hit \cup Beyond(t, row.origin)) \/ SavedLate(r, row)

Cancel(r) ==
    /\ Booked(r) /\ NotPast(resv[r])
    /\ ~Written(r)
    /\ LET row == [resv[r] EXCEPT !.state = "cancelled"] IN
       (Saved(r, row) /\ UNCHANGED hit) \/ SavedLate(r, row)

\* The calendar's side of a change, whoever makes it
Touched(e, row) ==
    /\ events' = [events EXCEPT ![e] = row]
    /\ fresh' = fresh \cup {e}
    /\ notices' = TRUE

UserTouches(e, row) ==
    /\ Spend
    /\ Touched(e, row)
    /\ job' = [job EXCEPT !.readE = @ \ {e}]
    /\ UNCHANGED <<phase, resv, rows, recent, queue, at>>

NextEvent(e) == events[e].state = "none" /\ \A f \in Event : events[f].state = "none" => e <= f

Meet(t) ==
    /\ phase[t] # "past"
    /\ \E e \in Event :
        /\ NextEvent(e)
        /\ UserTouches(e, [state |-> "there", time |-> t, origin |-> e])
        /\ hit' = hit \cup Beyond(t, e)

MoveEvent(e, t) ==
    /\ There(e) /\ NotPast(events[e]) /\ phase[t] # "past" /\ t # events[e].time
    /\ UserTouches(e, [events[e] EXCEPT !.time = t])
    /\ hit' = hit \cup Beyond(t, events[e].origin)

DeleteEvent(e) ==
    /\ There(e) /\ NotPast(events[e])
    /\ UserTouches(e, [events[e] EXCEPT !.state = "gone"])
    /\ UNCHANGED hit

\* handle_notification: the last one outstanding; those before it do what QueueAll does
Notified ==
    /\ notices /\ notices' = FALSE
    /\ queue' = TRUE
    /\ UNCHANGED <<phase, resv, events, rows, recent, fresh, at, job, left, hit>>

\* o365_queue_all_resources_for_sync.  While the process works, its item makes no difference:
\* what it is worked off for is read, or queues an item itself.
QueueAll ==
    /\ at = "idle" /\ queue' = TRUE
    /\ UNCHANGED <<phase, resv, events, rows, recent, fresh, notices, at, job, left, hit>>

-----------------------------------------------------------------------------
(* The process: one queue item *)

Fault(f) == f \in Faults /\ Spend

InCalendar == {e \in Event : There(e) /\ Near(events[e])}

\* (mutant) no change keys
MutSeen(row, r) == FALSE

\* ChangeKeyWrapper.filter_seen: Respa is as it was when the process last looked or wrote
Seen(row, r) == row.event # None /\ row.key = resv[r].time

\* status and filter_seen
RespaType(row, r) ==
    IF r \notin recent THEN "no change"
    ELSE IF resv[r].state = "cancelled" THEN "deleted"
    ELSE IF Seen(row, r) THEN "no change"
    ELSE "changed"

\* (mutant) an event that is no longer listed is deleted
MutUnlistedType(r) == "deleted"

\* An event that is not listed: the time of its reservation decides
UnlistedType(r) == IF Near(resv[r]) THEN "deleted" ELSE "expired"

Reread(row, r) == [row EXCEPT !.key = resv[r].time]

\* process_queue, _perform_sync, RespaReservations.get_changes, O365Calendar.get_changes.
\* A memento is the latest change read: changes not read may be older.
Start(listed) ==
    LET known == {r \in Reservation : rows[r].event # None}
        read == {r \in recent : resv[r].state # "none" /\ Near(resv[r])}
        lost == {r \in known : rows[r].event \notin listed}
        shown == listed \cap fresh
    IN  /\ at' = "plan" /\ queue' = FALSE
        /\ \E overR \in SUBSET (recent \ read), overE \in SUBSET (fresh \ shown) :
            /\ read = {} => overR = {}
            /\ shown = {} => overE = {}
            /\ job' = [Idle EXCEPT
                 !.respa = [r \in Reservation |->
                              IF r \in read THEN RespaType(rows[r], r) ELSE "absent"],
                 !.remote = [e \in Event |->
                               IF e \in shown THEN "changed"
                               ELSE IF \E r \in lost : rows[r].event = e
                               THEN UnlistedType(CHOOSE r \in lost : rows[r].event = e)
                               ELSE "absent"],
                 !.listed = listed,
                 !.rows = [r \in Reservation |-> IF r \in read THEN Reread(rows[r], r) ELSE rows[r]],
                 !.readR = read \cup overR, !.readE = shown \cup overE]

Begin ==
    /\ at = "idle" /\ queue
    /\ Start(InCalendar)
    /\ UNCHANGED <<phase, resv, events, rows, recent, fresh, notices, left, hit>>

\* get_events: an error ends the list
BeginShort ==
    /\ at = "idle" /\ queue /\ Fault("short")
    /\ \E listed \in SUBSET InCalendar :
        /\ listed # InCalendar
        /\ Start(listed)
        /\ hit' = hit \cup {events[e].origin : e \in InCalendar \ listed}
    /\ UNCHANGED <<phase, resv, events, rows, recent, fresh, notices>>

\* build_reservation_sync_actions_dict
ActionFor(rt, et) ==
    CASE et = "expired" \/ (rt = "deleted" /\ et = "deleted") -> "remove mapping"
      [] rt = "absent" /\ et \in {"no change", "changed"} -> "create in Respa"
      [] rt = "no change" /\ et = "changed" -> "update Respa"
      [] rt = "no change" /\ et = "deleted" -> "delete in Respa"
      [] rt \in {"no change", "changed"} /\ et = "absent" -> "create in calendar"
      [] rt = "changed" /\ et = "deleted" -> "create in calendar"
      [] rt = "changed" /\ et \in {"no change", "changed"} -> "update calendar"
      [] rt = "deleted" /\ et \in {"no change", "changed"} -> "delete in calendar"
      [] OTHER -> "none"

\* (mutant) the other side of what is not mapped has not changed
MutTypeOf(f, x) == IF x = None THEN "no change" ELSE f[x]

TypeOf(f, x) == IF x = None THEN "absent" ELSE f[x]

\* One entry for a reservation with its event, for each without one, for each event without one
Pairs(map, respa, remote) ==
    {<<r, map[r].event>> : r \in {r \in Reservation :
        respa[r] # "absent" \/ (map[r].event # None /\ remote[map[r].event] # "absent")}}
    \cup {<<None, e>> : e \in {e \in Event :
        remote[e] # "absent" /\ \A r \in Reservation : map[r].event # e}}

\* _sync: the other sides of what has changed are asked for, the calendar by a second list
Plan ==
    /\ at = "plan"
    /\ job.listed \subseteq InCalendar
    /\ LET map == job.rows
           asked == {r \in Reservation : map[r].event # None /\ job.respa[r] # "absent"
                                         /\ job.remote[map[r].event] = "absent"}
           remote == [e \in Event |->
                        IF \E r \in asked : map[r].event = e
                        THEN IF e \in fresh THEN "changed" ELSE "no change"
                        ELSE job.remote[e]]
           other == {r \in Reservation : map[r].event # None /\ job.respa[r] = "absent"
                                         /\ remote[map[r].event] # "absent"}
           respa == [r \in Reservation |->
                       IF r \in other THEN RespaType(map[r], r) ELSE job.respa[r]]
           action(p) == ActionFor(TypeOf(respa, p[1]), TypeOf(remote, p[2]))
       IN job' = [job EXCEPT
            !.rows = [r \in Reservation |-> IF r \in other THEN Reread(map[r], r) ELSE map[r]],
            !.todo = {[act |-> action(p), r |-> p[1], e |-> p[2]] :
                        p \in {p \in Pairs(map, respa, remote) : action(p) # "none"}},
            !.respa = Idle.respa, !.remote = Idle.remote, !.listed = {}]
    /\ at' = "ops"
    /\ UNCHANGED <<phase, resv, events, rows, recent, fresh, queue, notices, left, hit>>

\* An exception in the process: the item is left in the queue, the calendar as it is
Fails ==
    /\ at' = "idle" /\ job' = Idle /\ queue' = TRUE
    /\ hit' = hit \cup {events[e].origin : e \in job.made}
    /\ UNCHANGED <<phase, resv, events, rows, recent, fresh, notices>>

\* The calendar cannot be reached, or the process dies
Abort ==
    /\ at # "idle" /\ Fault("abort")
    /\ Fails

\* An event deleted since the first list has no time the second can look at
PlanFails ==
    /\ at = "plan" /\ ~(job.listed \subseteq InCalendar)
    /\ Fails
    /\ UNCHANGED left

-----------------------------------------------------------------------------
(* OpVisitor: the actions, in any order *)

Without(o) == [job EXCEPT !.todo = @ \ {o}]
Write(j, r, row) == [j EXCEPT !.draft[r] = row, !.rows[r].key = row.time]

\* (mutant) the mapping is not kept
MutMap(j, r, e) == j

Map(j, r, e) == [j EXCEPT !.rows[r].event = e]
Unmap(j, r) == [j EXCEPT !.rows[r] = NoRow]

CreateInRespa(o) ==
    /\ o.act = "create in Respa" /\ There(o.e)
    /\ \E r \in Reservation :
        /\ Free(r) /\ \A s \in Reservation : Free(s) => r <= s
        /\ job' = Map(Write(Without(o), r, [events[o.e] EXCEPT !.state = "booked"]), r, o.e)
    /\ UNCHANGED <<events, fresh, notices>>

UpdateRespa(o) ==
    /\ o.act = "update Respa" /\ There(o.e)
    /\ job' = Write(Without(o), o.r, [resv[o.r] EXCEPT !.time = events[o.e].time])
    /\ UNCHANGED <<events, fresh, notices>>

DeleteInRespa(o) ==
    /\ o.act = "delete in Respa"
    /\ job' = Unmap(Write(Without(o), o.r, [resv[o.r] EXCEPT !.state = "cancelled"]), o.r)
    /\ UNCHANGED <<events, fresh, notices>>

CreateInCalendar(o) ==
    /\ o.act = "create in calendar"
    /\ \E e \in Event :
        /\ NextEvent(e)
        /\ Touched(e, [resv[o.r] EXCEPT !.state = "there"])
        /\ job' = [Map(Without(o), o.r, e) EXCEPT !.made = @ \cup {e}]

UpdateCalendar(o) ==
    /\ o.act = "update calendar" /\ There(o.e)
    /\ Touched(o.e, [events[o.e] EXCEPT !.time = resv[o.r].time])
    /\ job' = [Without(o) EXCEPT !.readE = @ \ {o.e}]

DeleteInCalendar(o) ==
    /\ o.act = "delete in calendar"
    /\ IF There(o.e) THEN Touched(o.e, [events[o.e] EXCEPT !.state = "gone"])
       ELSE UNCHANGED <<events, fresh, notices>>
    /\ job' = Unmap(Without(o), o.r)

RemoveMapping(o) ==
    /\ o.act = "remove mapping"
    /\ job' = Unmap(Without(o), o.r)
    /\ UNCHANGED <<events, fresh, notices>>

Operate ==
    /\ at = "ops"
    /\ \E o \in job.todo :
        \/ CreateInRespa(o) \/ UpdateRespa(o) \/ DeleteInRespa(o)
        \/ CreateInCalendar(o) \/ UpdateCalendar(o) \/ DeleteInCalendar(o)
        \/ RemoveMapping(o)
    /\ UNCHANGED <<phase, resv, rows, recent, queue, at, left, hit>>

\* There is no item to copy from, or no event to copy to
OperateFails ==
    /\ at = "ops"
    /\ \E o \in job.todo :
        o.act \in {"create in Respa", "update Respa", "update calendar"} /\ ~There(o.e)
    /\ Fails
    /\ UNCHANGED left

\* (mutant) the memento is the time of the commit
MutUnread == {}

Unread == recent \ job.readR

\* The rows and mementos are saved, the item is deleted, and all is committed
Commit ==
    /\ at = "ops" /\ job.todo = {}
    /\ resv' = [r \in Reservation |-> IF Written(r) THEN job.draft[r] ELSE resv[r]]
    /\ rows' = [r \in Reservation |-> IF job.rows[r].event = None THEN NoRow ELSE job.rows[r]]
    /\ recent' = Unread \cup {r \in Reservation : Written(r)}
    /\ fresh' = fresh \ job.readE
    /\ at' = "idle" /\ job' = Idle
    /\ UNCHANGED <<phase, events, queue, notices, left, hit>>

-----------------------------------------------------------------------------
\* Nothing is left to be noticed or synchronised
Quiet == at = "idle" /\ ~queue /\ ~notices

\* Synchronisation takes minutes, its horizon days: time passes when the calendars are in step
TimePasses(t) ==
    /\ Quiet
    /\ phase[t] # "past"
    /\ phase' = [phase EXCEPT ![t] = IF @ = "far" THEN "near" ELSE "past"]
    /\ UNCHANGED <<resv, events, rows, recent, fresh, queue, notices, at, job, left, hit>>

InRespa == (\E t \in Time : Book(t)) \/ \E r \in Reservation : Cancel(r) \/ \E t \in Time : Move(r, t)

InOutlook == (\E t \in Time : Meet(t)) \/ Notified
             \/ \E e \in Event : DeleteEvent(e) \/ \E t \in Time : MoveEvent(e, t)

Process == Begin \/ BeginShort \/ Plan \/ PlanFails \/ Operate \/ OperateFails \/ Commit

Next == InRespa \/ InOutlook \/ QueueAll \/ Process \/ Abort \/ \E t \in Time : TimePasses(t)

Spec == Init /\ [][Next]_vars

-----------------------------------------------------------------------------
(* Properties *)

\* When nothing is left to do, the two calendars show the same within the horizon.
CalendarsAgree == Quiet =>
    /\ \A r \in Reservation : Booked(r) /\ Near(resv[r]) /\ resv[r].origin \notin hit =>
          \E e \in Event : rows[r].event = e /\ There(e) /\ events[e].time = resv[r].time
    /\ \A e \in Event : There(e) /\ Near(events[e]) /\ events[e].origin \notin hit =>
          \E r \in Reservation : rows[r].event = e /\ Booked(r) /\ events[e].time = resv[r].time

\* A booking is never there twice, on either side, and an event is of one reservation: else it
\* would take the changes of both.
NoDuplicates ==
    /\ \A r, s \in Reservation : Booked(r) /\ Booked(s) /\ resv[r].origin = resv[s].origin
                                  => r = s \/ resv[r].origin \in hit
    /\ \A d, e \in Event : There(d) /\ There(e) /\ events[d].origin = events[e].origin
                            => d = e \/ events[d].origin \in hit
    /\ \A r, s \in Reservation : rows[r].event # None /\ rows[r].event = rows[s].event => r = s

\* The process cancels a reservation only when its event has been deleted.
NoNeedlessCancel == [][\A r \in Reservation :
    Commit /\ Booked(r) /\ resv'[r].state = "cancelled" /\ resv[r].origin \notin hit =>
        rows[r].event # None /\ events[rows[r].event].state = "gone"]_vars

\* ReservationSync: the process does not answer its own changes, which come back to it as
\* changes of either side, for ever.  (Users make finitely many; no fairness is needed.)
EchoesDie == <>[][FALSE]_<<resv, events, recent, fresh>>
=============================================================================
