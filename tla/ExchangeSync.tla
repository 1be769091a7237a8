---------------------------- MODULE ExchangeSync ----------------------------
(***************************************************************************)
(* Synchronisation of a resource's reservations with an Exchange calendar  *)
(* (respa_exchange).  Requests upload what they save within their own      *)
(* transaction (signals, uploader); the listener daemon and a command      *)
(* download the whole calendar (downloader) when the listener's threads    *)
(* report a change (listener).                                             *)
(*                                                                         *)
(* The row of ExchangeResource is locked by an upload until its request    *)
(* ends, and by a download; rows a request has saved are locked, too, and  *)
(* for as long.  What is written to Exchange is seen at once and outlives  *)
(* a rollback.  Exchange and its users are external.                       *)
(*                                                                         *)
(* A reservation and an item are abstracted to their time.  One resource;  *)
(* sync_after_start is set, as it is for the daemon (README.md:250-267).   *)
(* Booking has the rules a request obeys: here it asks for any change.     *)
(***************************************************************************)
EXTENDS Integers, FiniteSets, Sequences

CONSTANTS
    Reservation, \* rows of Reservation
    Item,        \* items of the calendar
    Time,        \* times of reservations and items
    Request,     \* requests to Respa
    Listener,    \* the listener daemon
    Download,    \* processes that download, among them the listener
    Faults,      \* what may fail: "request", "download", "thread", "subscribe", "unsubscribe"
    MaxChanges,  \* bound: requests, changes by users of the calendar, commands and faults
    None         \* none of these

ExchangeAssumption ==
    /\ Reservation \subseteq Nat /\ Item \subseteq Nat
    /\ Listener \in Download /\ Request \cap Download = {}
    /\ None \notin Item \cup Time \cup Request \cup Download
    /\ Faults \subseteq {"request", "download", "thread", "subscribe", "unsubscribe"}
    /\ MaxChanges \in Nat

VARIABLES
    resv,     \* reservations of the resource
    links,    \* ExchangeReservation: item, change key and origin of a reservation
    items,    \* external: the items of the calendar
    held,     \* who has locked the row of ExchangeResource
    tx,       \* the transaction of a request
    list,     \* the calendar as a download has read it; None if it has not, or does not run
    listener, \* the daemon: its main loop, its subscription, its threads
    queue,    \* NotificationListener.events
    left,     \* changes and faults left
    orphans,  \* history: items whose creation was rolled back in Respa
    moved     \* history: imported reservations that Respa has moved since their last download

vars == <<resv, links, items, held, tx, list, listener, queue, left, orphans, moved>>

NoResv == [state |-> "none", time |-> None]
NoItem == [state |-> "none", time |-> None, key |-> 0, by |-> None]
NoLink == [item |-> None, key |-> 0, managed |-> FALSE]
NoTx == [at |-> "idle", r |-> None, row |-> NoResv, link |-> NoLink, todo |-> <<>>]

\* NotificationListener.__init__ and start: changed is a variable of handle_events; stopped is a
\* thread told to stop that still waits for its answer; stream a notification on its way
Started(subscribed) ==
    [at |-> "wait", changed |-> FALSE, subscribed |-> subscribed, thread |-> TRUE,
     stopped |-> FALSE, stream |-> FALSE]

ReservationState ==
    {"none", "created", "requested", "confirmed", "denied", "waiting", "cancelled"}
ItemRow == [state : {"none", "there", "gone"}, time : Time \cup {None}, key : Nat,
            by : {None, "calendar", "Respa"}]
ResvRow == [state : ReservationState, time : Time \cup {None}]
LinkRow == [item : Item \cup {None}, key : Nat, managed : BOOLEAN]

TypeOK ==
    /\ resv \in [Reservation -> ResvRow]
    /\ links \in [Reservation -> LinkRow]
    /\ items \in [Item -> ItemRow]
    /\ held \in Request \cup Download \cup {None}
    /\ \A p \in Request :
        /\ tx[p].at \in {"idle", "save", "saved", "upload"}
        /\ tx[p].r \in Reservation \cup {None} /\ tx[p].row \in ResvRow /\ tx[p].link \in LinkRow
        /\ tx[p].at # "idle" => tx[p].row.time # None
        /\ Len(tx[p].todo) <= 2
        /\ \A i \in DOMAIN tx[p].todo : tx[p].todo[i] \in ReservationState \ {"none"}
    /\ \A d \in Download : list[d] = None \/ list[d] \in [Item -> ItemRow]
    /\ listener.at \in {"wait", "sync", "down"}
    /\ \A i \in DOMAIN queue : queue[i] \in {"change", "dying", "replaced"}
    /\ left \in 0 .. MaxChanges
    /\ orphans \subseteq Item
    /\ moved \subseteq Reservation

Init ==
    /\ resv = [r \in Reservation |-> NoResv]
    /\ links = [r \in Reservation |-> NoLink]
    /\ items = [i \in Item |-> NoItem]
    /\ held = None
    /\ tx = [p \in Request |-> NoTx]
    /\ list = [d \in Download |-> None]
    /\ listener = Started(TRUE)
    /\ queue = <<"change">>
    /\ left = MaxChanges
    /\ orphans = {}
    /\ moved = {}

Spend == left > 0 /\ left' = left - 1
Fault(f) == f \in Faults /\ Spend

\* An event next to an equal one makes no difference to the loop that gathers them
Posted(q, e) == IF q # <<>> /\ q[Len(q)] = e THEN q ELSE Append(q, e)

-----------------------------------------------------------------------------
(* Exchange *)

There(i) == items[i].state = "there"
NextItem(i) == items[i].state = "none" /\ \A j \in Item : items[j].state = "none" => i <= j

\* Any change gives the item a new change key, and is notified to who has subscribed
Changes(i, row) ==
    /\ items' = [items EXCEPT ![i] = [row EXCEPT !.key = items[i].key + 1]]
    /\ listener' = [listener EXCEPT !.stream = listener.subscribed]

UserChanges(i, row) ==
    /\ Spend
    /\ Changes(i, row)
    /\ UNCHANGED <<resv, links, held, tx, list, queue, orphans, moved>>

Meet == \E i \in Item, t \in Time :
    NextItem(i) /\ UserChanges(i, [state |-> "there", time |-> t, key |-> 0, by |-> "calendar"])

MoveItem == \E i \in Item, t \in Time :
    There(i) /\ t # items[i].time /\ UserChanges(i, [items[i] EXCEPT !.time = t])

DeleteItem == \E i \in Item : There(i) /\ UserChanges(i, [items[i] EXCEPT !.state = "gone"])

-----------------------------------------------------------------------------
(* Requests *)

\* todo: the states the row is saved with, one save after the other
Begin(p, r, row, todo) ==
    /\ tx[p].at = "idle" /\ Spend
    /\ tx' = [tx EXCEPT ![p] =
         [at |-> "save", r |-> r, row |-> row, link |-> NoLink, todo |-> todo]]
    /\ UNCHANGED <<resv, links, items, held, list, listener, queue, orphans, moved>>

Free(r) == resv[r].state = "none" /\ \A p \in Request : tx[p].r # r

\* perform_create
Post(p) == \E r \in Reservation, t \in Time, s \in {"requested", "confirmed"} :
    /\ Free(r) /\ \A q \in Reservation : Free(q) => r <= q
    /\ Begin(p, r, [state |-> "created", time |-> t], <<"created", s>>)

\* perform_update.  Who may change a reservation may have it wait for payment, an imported one, too,
\* which stays "created" until then; any other update of that fails, as set_state refuses "created".
\* One that waits is not changed again.
Put(p) == \E r \in Reservation, t \in Time, s \in {"requested", "confirmed", "denied", "waiting"} :
    LET was == resv[r].state IN
    /\ was \in {"created", "requested", "confirmed", "denied"}
    /\ was = "created" => s = "waiting"
    /\ s # was \/ t # resv[r].time
    /\ Begin(p, r, [resv[r] EXCEPT !.time = t],
             IF s = was /\ s # "denied" THEN <<s>> ELSE <<was, s>>)

\* ReservationAdmin: any field of any reservation
Edit(p) == \E r \in Reservation, row \in [state : ReservationState \ {"none"}, time : Time] :
    /\ resv[r].state # "none"
    /\ Begin(p, r, row, <<row.state>>)

\* perform_destroy
Cancel(p) == \E r \in Reservation :
    /\ resv[r].state \notin {"none", "cancelled"}
    /\ Begin(p, r, resv[r], <<"cancelled">>)

\* A row is locked from the first save to the end of the transaction
Locked(r) == \E p \in Request : tx[p].r = r /\ tx[p].at \in {"saved", "upload"}

\* Reservation.save: the row of the copy, whatever has become of the one it was read from
Save(p) ==
    /\ tx[p].at = "save" /\ ~Locked(tx[p].r)
    /\ tx' = [tx EXCEPT ![p].at = "saved"]
    /\ UNCHANGED <<resv, links, items, held, list, listener, queue, left, orphans, moved>>

\* (mutant) handle_reservation_save without select_for_update
MutCalendarFree(d) == TRUE

CalendarFree(d) == held = None

\* handle_reservation_save: the lock, then the link
LockCalendar(p) ==
    /\ tx[p].at = "saved" /\ CalendarFree(p)
    /\ held' = p
    /\ tx' = [tx EXCEPT ![p].at = "upload", ![p].link = links[tx[p].r]]
    /\ UNCHANGED <<resv, links, items, list, listener, queue, left, orphans, moved>>

\* One save is done, and leaves this link
SavedAs(p, link) ==
    tx' = [tx EXCEPT ![p].row.state = Head(tx[p].todo), ![p].todo = Tail(@), ![p].link = link]

\* The reservation's own item: a reservation that came from Exchange has none
Own(p) == IF tx[p].link.managed THEN None ELSE tx[p].link.item

CreateOnRemote(p) ==
    /\ Own(p) = None
    /\ IF Head(tx[p].todo) # "confirmed"
       THEN SavedAs(p, tx[p].link) /\ UNCHANGED <<items, listener>>
       ELSE \E i \in Item :
            /\ NextItem(i)
            /\ Changes(i, [state |-> "there", time |-> tx[p].row.time, key |-> 0, by |-> "Respa"])
            /\ SavedAs(p, [item |-> i, key |-> 1, managed |-> FALSE])

\* AlwaysOverwrite: whatever the change key
UpdateOnRemote(p) ==
    /\ Own(p) # None /\ There(Own(p))
    /\ Head(tx[p].todo) \notin {"denied", "cancelled"}
    /\ Changes(Own(p), [items[Own(p)] EXCEPT !.time = tx[p].row.time])
    /\ SavedAs(p, [tx[p].link EXCEPT !.key = items[Own(p)].key + 1])

\* An item that is gone is no error
DeleteOnRemote(p) ==
    /\ Own(p) # None
    /\ Head(tx[p].todo) \in {"denied", "cancelled"}
    /\ IF There(Own(p)) THEN Changes(Own(p), [items[Own(p)] EXCEPT !.state = "gone"])
       ELSE UNCHANGED <<items, listener>>
    /\ SavedAs(p, NoLink)

\* A second link of a reservation, which the database refuses (OneToOneField)
Twice(p) == links[tx[p].r].managed /\ ~tx[p].link.managed

Upload(p) ==
    /\ tx[p].at = "upload" /\ tx[p].todo # <<>> /\ ~Twice(p)
    /\ CreateOnRemote(p) \/ UpdateOnRemote(p) \/ DeleteOnRemote(p)
    /\ UNCHANGED <<resv, links, held, list, queue, left, orphans, moved>>

Unlocked(p) == held' = IF held = p THEN None ELSE held

\* A copy of an imported reservation is saved with its time, and nothing tells Exchange
Moves(p) == tx[p].link.managed /\ tx[p].row.time # resv[tx[p].r].time

CommitRequest(p) ==
    /\ tx[p].at = "upload" /\ tx[p].todo = <<>> /\ ~Twice(p)
    /\ moved' = moved \cup IF Moves(p) THEN {tx[p].r} ELSE {}
    /\ resv' = [resv EXCEPT ![tx[p].r] = tx[p].row]
    /\ links' = [links EXCEPT ![tx[p].r] = tx[p].link]
    /\ tx' = [tx EXCEPT ![p] = NoTx]
    /\ Unlocked(p)
    /\ UNCHANGED <<items, list, listener, queue, left, orphans>>

\* The request fails; what it did in Exchange stays
Rollback(p) ==
    /\ orphans' = orphans \cup {i \in Item : tx[p].link.item = i /\ links[tx[p].r].item # i}
    /\ tx' = [tx EXCEPT ![p] = NoTx]
    /\ Unlocked(p)
    /\ UNCHANGED <<resv, links, items, list, listener, queue, moved>>

RequestFails(p) == tx[p].at = "upload" /\ Fault("request") /\ Rollback(p)

\* An update of an item that is gone has no item id in its answer
UpdateFails(p) ==
    /\ tx[p].at = "upload" /\ tx[p].todo # <<>>
    /\ Own(p) # None /\ ~There(Own(p)) /\ Head(tx[p].todo) \notin {"denied", "cancelled"}
    /\ Rollback(p)
    /\ UNCHANGED left

\* An item has been created for a reservation that came from Exchange
LinkFails(p) == tx[p].at = "upload" /\ Twice(p) /\ Rollback(p) /\ UNCHANGED left

-----------------------------------------------------------------------------
(* Downloads *)

\* respa_exchange_download
Command(d) ==
    /\ d # Listener /\ held # d /\ Spend
    /\ CalendarFree(d) /\ held' = d
    /\ UNCHANGED <<resv, links, items, tx, list, listener, queue, orphans, moved>>

\* handle_events: the queue has been empty for a second
Sync ==
    /\ listener.at = "wait" /\ listener.changed /\ queue = <<>>
    /\ CalendarFree(Listener) /\ held' = Listener
    /\ listener' = [listener EXCEPT !.at = "sync", !.changed = FALSE]
    /\ UNCHANGED <<resv, links, items, tx, list, queue, left, orphans, moved>>

Find(d) ==
    /\ held = d /\ list[d] = None
    /\ list' = [list EXCEPT ![d] = items]
    /\ UNCHANGED <<resv, links, items, held, tx, listener, queue, left, orphans, moved>>

InList(d) == {i \in Item : list[d][i].state = "there"}

\* items_to_delete
Obsolete(d) == {r \in Reservation : links[r].managed /\ links[r].item \notin InList(d)}

\* _update_reservation_from_exchange: the change key differs
Outdated(d) == {r \in Reservation : links[r].item \in InList(d)
                                    /\ list[d][links[r].item].key # links[r].key}

\* _create_reservation_from_exchange
Unknown(d) == {i \in InList(d) : \A r \in Reservation : links[r].item # i}

\* The rows that are created: one for each unknown item, of which there are enough
RowChoices(d) == {f \in [Unknown(d) -> {r \in Reservation : Free(r)}] :
    \A i, j \in Unknown(d) : f[i] = f[j] => i = j}

Rows(d) == CHOOSE f \in RowChoices(d) : TRUE

MainLoop(d) == listener' = IF d = Listener THEN [listener EXCEPT !.at = "wait"] ELSE listener

\* sync_from_exchange: deletions, then creations and changes, then the commit
Apply(d) ==
    /\ held = d /\ list[d] # None
    /\ \A r \in Obsolete(d) \cup Outdated(d) : ~Locked(r)
    /\ RowChoices(d) # {}
    /\ LET new == Rows(d)
           from(r) == CHOOSE i \in Unknown(d) : new[i] = r
           created == {new[i] : i \in Unknown(d)}
       IN  /\ resv' = [r \in Reservation |->
                IF r \in Obsolete(d) THEN NoResv
                ELSE IF r \in Outdated(d) THEN [resv[r] EXCEPT !.time = list[d][links[r].item].time]
                ELSE IF r \in created THEN [state |-> "created", time |-> list[d][from(r)].time]
                ELSE resv[r]]
           /\ links' = [r \in Reservation |->
                IF r \in Obsolete(d) THEN NoLink
                ELSE IF r \in Outdated(d) THEN [links[r] EXCEPT !.key = list[d][links[r].item].key]
                ELSE IF r \in created
                THEN [item |-> from(r), key |-> list[d][from(r)].key, managed |-> TRUE]
                ELSE links[r]]
    /\ moved' = moved \ (Obsolete(d) \cup Outdated(d))
    /\ held' = None /\ list' = [list EXCEPT ![d] = None]
    /\ MainLoop(d)
    /\ UNCHANGED <<items, tx, queue, left, orphans>>

\* An exception in a download ends its process, with the listener its subscription and threads
Dies(d) ==
    /\ held' = None /\ list' = [list EXCEPT ![d] = None]
    /\ listener' = IF d = Listener THEN [Started(FALSE) EXCEPT !.at = "down", !.thread = FALSE]
                   ELSE listener
    /\ queue' = IF d = Listener THEN <<>> ELSE queue
    /\ UNCHANGED <<resv, links, items, orphans, moved>>

DownloadFails(d) == held = d /\ Fault("download") /\ Dies(d) /\ UNCHANGED tx

\* A request has saved a row and waits for the calendar; the download has the calendar and waits
\* for the row.  The database ends either.
Deadlock(d) ==
    /\ held = d /\ list[d] # None
    /\ \E p \in Request :
        /\ tx[p].at = "saved" /\ tx[p].r \in Obsolete(d) \cup Outdated(d)
        /\ \/ Rollback(p)
           \/ Dies(d) /\ UNCHANGED tx
    /\ UNCHANGED left

-----------------------------------------------------------------------------
(* The listener *)

Loop == listener.at = "wait"

\* EventAwaiterThread.run, post_event
Deliver ==
    /\ listener.stream /\ listener.thread
    /\ listener' = [listener EXCEPT !.stream = FALSE]
    /\ queue' = Posted(queue, "change")
    /\ UNCHANGED <<resv, links, items, held, tx, list, left, orphans, moved>>

ThreadEnds ==
    /\ listener.thread
    /\ listener' = [listener EXCEPT !.thread = FALSE]
    /\ queue' = Posted(queue, "dying")
    /\ UNCHANGED <<resv, links, items, held, tx, list, orphans, moved>>

\* Five failures, or a subscription that has run out
ThreadDies == listener.subscribed /\ Fault("thread") /\ ThreadEnds

\* A thread without a subscription has nothing to wait for
IdleThreadDies == ~listener.subscribed /\ ThreadEnds /\ UNCHANGED left

\* A thread that was stopped ends with its present answer
StoppedThreadDies ==
    /\ listener.stopped
    /\ listener' = [listener EXCEPT !.stopped = FALSE]
    /\ queue' = Posted(queue, "dying")
    /\ UNCHANGED <<resv, links, items, held, tx, list, left, orphans, moved>>

\* handle_events: a change of a resource
TakeChange ==
    /\ Loop /\ queue # <<>> /\ Head(queue) = "change"
    /\ listener' = [listener EXCEPT !.changed = TRUE]
    /\ queue' = Tail(queue)
    /\ UNCHANGED <<resv, links, items, held, tx, list, left, orphans, moved>>

\* (mutant) sync_after_start is not set
MutSyncEvent(q) == q

\* ExchangeListener.manage_subscriptions: SyncEvent
SyncEvent(q) == Posted(q, "change")

\* subscribe_resource, which may fail
Subscribes(b) == IF b THEN UNCHANGED left ELSE Fault("subscribe")

\* close: the threads of a listener that is closed post nothing more
Closed == [listener EXCEPT !.stopped = FALSE, !.stream = FALSE, !.changed = FALSE]

\* handle_events: close the listener and start another; changed is dropped
TakeDying ==
    /\ Loop /\ queue # <<>> /\ Head(queue) = "dying"
    /\ \E b \in BOOLEAN :
        /\ Subscribes(b)
        /\ listener' = [Closed EXCEPT !.subscribed = b, !.thread = TRUE]
    /\ queue' = SyncEvent([i \in 1 .. Len(queue) - 1 |->
                             IF queue[i + 1] = "dying" THEN "replaced" ELSE queue[i + 1]])
    /\ UNCHANGED <<resv, links, items, held, tx, list, orphans, moved>>

\* A thread of a listener that has been replaced: changed is dropped
TakeReplaced ==
    /\ Loop /\ queue # <<>> /\ Head(queue) = "replaced"
    /\ listener' = [listener EXCEPT !.changed = FALSE]
    /\ queue' = Tail(queue)
    /\ UNCHANGED <<resv, links, items, held, tx, list, left, orphans, moved>>

\* (mutant) a resource read again is not the one subscribed to
MutNew == TRUE

\* new_resources: the resource, if it has no subscription
New == ~listener.subscribed

\* manage_subscriptions, on its timer
ManageSubscriptions ==
    /\ Loop /\ ~listener.changed /\ New
    /\ \E b \in BOOLEAN :
        /\ Subscribes(b)
        /\ listener' = [listener EXCEPT !.subscribed = b, !.stopped = @ \/ listener.thread,
                                        !.thread = TRUE]
    /\ queue' = SyncEvent(queue)
    /\ UNCHANGED <<resv, links, items, held, tx, list, orphans, moved>>

\* The unsubscription in close fails, outside of any handler: the process ends
CloseFails ==
    /\ Loop /\ queue # <<>> /\ Head(queue) = "dying" /\ listener.subscribed
    /\ Fault("unsubscribe")
    /\ listener' = [Started(FALSE) EXCEPT !.at = "down", !.thread = FALSE]
    /\ queue' = <<>>
    /\ UNCHANGED <<resv, links, items, held, tx, list, orphans, moved>>

\* uWSGI starts the daemon again
Respawn ==
    /\ listener.at = "down"
    /\ \E b \in BOOLEAN : Subscribes(b) /\ listener' = Started(b)
    /\ queue' = SyncEvent(<<>>)
    /\ UNCHANGED <<resv, links, items, held, tx, list, orphans, moved>>

-----------------------------------------------------------------------------
\* Steps nobody has to ask for
Progress ==
    \/ \E p \in Request :
         \/ Save(p) \/ LockCalendar(p) \/ Upload(p) \/ CommitRequest(p)
         \/ UpdateFails(p) \/ LinkFails(p)
    \/ \E d \in Download : Find(d) \/ Apply(d) \/ Deadlock(d)
    \/ Sync \/ Deliver \/ IdleThreadDies \/ StoppedThreadDies
    \/ TakeChange \/ TakeDying \/ TakeReplaced \/ ManageSubscriptions \/ Respawn

Next ==
    \/ Meet \/ MoveItem \/ DeleteItem
    \/ \E p \in Request : Post(p) \/ Put(p) \/ Edit(p) \/ Cancel(p) \/ RequestFails(p)
    \/ \E d \in Download : Command(d) \/ DownloadFails(d)
    \/ ThreadDies \/ CloseFails
    \/ Progress

Spec == Init /\ [][Next]_vars

\* Requests, downloads and the listener go on as long as any of them can, and a request that waits
\* for the calendar gets it before those that come later
FairSpec == Spec /\ WF_vars(Progress) /\ \A p \in Request : SF_vars(LockCalendar(p))

-----------------------------------------------------------------------------
(* Properties *)

\* Nobody has anything to do or to report
Settled ==
    /\ held = None /\ \A p \in Request : tx[p].at = "idle"
    /\ listener = Started(TRUE) /\ queue = <<>>

\* The lock of ExchangeResource, "to avoid race conditions with the Respa API processes": no item
\* is taken for a new one while the request that creates it, or another download, is about to link
\* it.  Only what a request created and rolled back comes back as a reservation.
NoEcho ==
    /\ \A r \in Reservation : links[r].managed =>
          items[links[r].item].by = "calendar" \/ links[r].item \in orphans
    /\ \A r, s \in Reservation : links[r].item = links[s].item /\ links[r].item # None => r = s

\* When all has settled, every item has a reservation, at its time unless Respa has moved an imported
\* one since, which is never uploaded; nothing is left of imported reservations whose item was
\* deleted, and every confirmed reservation was uploaded: neither stale copies, nor rollbacks, dead
\* threads or restarts lose a change for good.
ExchangeAgrees == Settled =>
    /\ \A i \in Item : There(i) =>
          \E r \in Reservation : links[r].item = i
                                 /\ (r \notin moved => resv[r].time = items[i].time)
    /\ \A r \in Reservation :
          /\ links[r].managed => There(links[r].item)
          /\ resv[r].state = "confirmed" => links[r].item # None

\* Requests that wait for downloads and downloads that wait for requests, threads that report
\* each other's death, restarts: all of it comes to rest.
ExchangeSettles == []<>Settled
=============================================================================
