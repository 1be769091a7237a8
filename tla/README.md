# Respa in TLA+

Specifications of Respa, a Django service in which people reserve shared rooms and
equipment, with TLC configurations that check them on small instances and TLAPS
proofs of what matters most.

## The system

Respa is a set of Django applications over one PostgreSQL database. Every HTTP request
runs in one transaction (`ATOMIC_REQUESTS`) at isolation level READ COMMITTED; cron
commands and callbacks of other services run beside the requests and touch the same
rows. There is no message bus and no lock but the row locks that the code asks for.

| Component | State | Operations | Meets |
| --- | --- | --- | --- |
| Reservation requests (`resources/api/reservation.py`, `resources/models/reservation.py`) | reservation rows: resource, user, begin, end, state | create, update, cancel, cancel a range, create in bulk | resources, orders, access grants, synchronisation |
| Resources (`resources/models/resource.py`) | limits, cooldown, manual confirmation; the row that is locked | the checks of a reservation | reservation requests |
| Permissions (`resources/models/unit.py`, `permissions.py`, `resources/auth.py`, `enums.py`; the form in `respa_admin`) | levels of users in units, groups of units, permissions by name | edit a user's levels, create a unit, ask what a user may do | every check and every list |
| Opening hours (`resources/models/availability.py`, `Resource.update_opening_hours`) | periods of units and resources, daily hours derived from them | edit periods, recompute hours | the checks of a reservation, the search |
| Search (`resources/api/resource.py`) | none | which resources are free in a range | opening hours, reservations |
| Payments (`payments/models.py`, `payments/api`) | an order per paid reservation: state, log, staff confirmation | create, update, provider callbacks, expiry, cancellation | reservation states, the payment service |
| Products and prices (`payments/models.py`, `utils.py`, `admin.py`) | versions of products, time slots, prices of customer groups | edit, compute prices | orders |
| Payment providers (`payments/providers`) | none | initiate a payment, success, failure, notification | orders |
| Access control (`kulkunen`) | grants of access codes: state, times, removal | grant, install, remove, cancel, synchronise | reservation changes, the access control system |
| Calendar synchronisation (`respa_o365`, `respa_exchange`, `respa_outlook`) | mappings of reservations to remote events, change keys, a queue of links | create, change and remove on either side | reservation rows (unchecked writes), remote calendars |
| Caterings, comments, notifications, quality tool, reports, maintenance, accessibility, users, admin, importers | rows of their own | storage, mails, exports, forms | read the above |

What makes it hard:

* requests check a condition on many rows and then write one of them; only where the code
  locks a row for the time between do these two steps belong together;
* a request holds copies of rows in memory and writes whole rows back: `Model.save`
  overwrites fields the request never meant to change;
* the lock is on a resource, while some rules are about a unit, an order or a user;
* a payment service calls back several times, late, or not at all, beside a job that
  expires orders; jobs of the access control overlap and die;
* time passes between a check and the write that relies on it.

What would make the components correct:

* reservations: no resource booked twice, the cooldown and the rule about units kept, the
  limit per user kept, decisions of approvers not undone, every request answered;
* orders: order and reservation agree, a state changes only along the allowed edges, a
  paid order is not lost, a waiting order ends;
* access grants: at most one code in force per reservation, everything installed is
  removed in the end;
* synchronisation: both calendars converge, nothing is created twice, no echo of one's
  own change, nothing is cancelled that nobody has cancelled;
* prices and hours: what is derived from rows that administrators edit fits them, and an
  order keeps the price it was placed with;
* permissions: who has a level has those below it, and lists show what the checks allow.

`PROJECT.json` lists the components with their status, and the hazards line by line.

## Modules

### Booking

`Booking.tla` models the requests on reservations as concurrent workers over one table.
`MCBooking.tla` gives the constants values for TLC, `BookingProofs.tla` has the proofs.

State. `res` is the table of committed rows; `now` the clock; `pc[w]` says where the
request of worker `w` is and `req[w]` what it asks and which copies of rows it holds.
`checked[i]` is history: the checks under which the period of row `i` was written
(`"collision"`, `"cooldown"`, `"unit"`, as they apply to the user who asked); it is empty
for periods written by the writers that check nothing at commit.

| Code | Actions |
| --- | --- |
| `POST /reservation/` | `PostBegin` (permissions, "not in the past"), `PostValidate` (the resource lock, the limit, `Reservation.clean`), `PostCommit` (insert, `set_state`, commit) |
| `PUT /reservation/i/` | `PutBegin` (`get_object`, `validate_state`), `PutValidate` (lock, `clean`), `PutReload` (the second `get_object` in `perform_update`), `PutCommit` (`save` of the first copy, `set_state`, commit) |
| `DELETE /reservation/i/`, `DELETE .../cancel_reservations/` | `DeleteBegin`, `CancelRangeBegin`, `CancelCommit` |
| `POST /reservation_bulk/` | `BulkBegin`, `BulkCommit` |
| calendar synchronisation | `SyncCreate`, `SyncBegin`, `SyncSet`, `SyncRemove` |
| the clock | `Tick` |

A request whose validation fails ends without a trace (`Validated`), because its
transaction rolls back. The lock is not a variable: `Holds(w, r)` says that worker `w` is
between its validation and its commit. READ COMMITTED is modelled by reading `res` when
the statement runs, and by writing only at the commit: nobody sees uncommitted rows.
A writer whose row is locked by another's uncommitted write waits for it; the model's
single commit step has the same outcomes.

Abstractions. A user's permissions are a set (`Perm`). A period is a pair of clock
values, and `Period` holds those that pass opening hours, slots and minimum lengths.
Reservations have no payment order, are of type `normal` and belong to a known user;
anonymous creation is left out. Edits in Django's admin are left out: they write
like the synchronisation does, without lock or check. `SyncCreate`, `SyncSet` and
`SyncRemove` are those of `respa_o365`; the Exchange and Outlook synchronisations write
reservations in the same way.

### OrderPayments

`OrderPayments.tla` models the order of a paid reservation and the reservation itself,
with everything that changes the state of either. `MCOrderPayments.tla` serves TLC,
`OrderPaymentsProofs.tla` has the proofs. It stands beside `Booking`, not on top of it:
an order and its reservation are one name here, and requests are those that pass the
checks `Booking` is about.

State. `order` and `resv` are the committed rows, `olock` and `rlock` their row locks,
`due` the waiting times that have run out. `initiated` and `answers` belong to the
payment service, which is external: what it has been asked for and what it may call back.
A process `p` is at step `at[p]` of transaction `tx[p]`, which holds the copies of the
rows in memory, the uncommitted writes and what is left to do.

| Code | Actions |
| --- | --- |
| `POST /reservation/` with an order | `Create`, in one step: nobody can see the rows before the commit |
| `Order.set_state` | `SetStateSkips` (nothing to do, or `NOWAIT` fails and the error is swallowed), `SetState` (lock, the table of valid changes), `ReadReservation`, `SaveReservation` (`Reservation.set_state`, then the order is saved) |
| callbacks of the payment service | `Callback`, then `set_state` |
| `expire_too_old_unpaid_orders` | `JobBegin`, `JobQuery` and `JobNext` for each of its three queries, then `set_state` for each order found |
| `OrderAdmin.delete_model` | `AdminBegin`, then `set_state` |
| `DELETE /reservation/i/`, `DELETE .../cancel_reservations/` | `DeleteBegin`, `CancelRangeBegin`, `CancelReservation`, then `set_state` |
| `PUT /reservation/i/` | `PutBegin` (`get_object`), `PutValidate` (the lock of the resource), `PutReload` (`perform_update` reads again), `PutPay` (the order serializer), `PutSave` (the first copy of the reservation), `PutState` (`set_state` of reservation and, for a cash payment, of the order), `PutNotify` (the order's staff confirmation), `PutLog` |
| PostgreSQL | `Commit`, `Rollback`, `Deadlock` |
| the customer, the clock | `Answer`, `RunOut` |

Transactions are READ COMMITTED: a query sees committed rows and the transaction's own
writes. An ordinary write waits for its row; `Mine` is the guard of those steps. An
error rolls everything back, but for the two errors the code catches: a lock that `NOWAIT`
does not get, and `OrderStateTransitionError` in a callback. `Deadlock` fails one of the
transactions that wait in a circle. One wait is easily overlooked: the log entry
that an update adds refers to the order, and PostgreSQL checks deferred references at the
commit, with a lock on the order's row (`PutLog`). So updates lock first the reservation
and then the order, and `set_state` the other way round.

Abstractions. Amounts, order lines and products are left out: an order is free or not.
`need_manual_confirmation` is chosen when the order is created and does not change; cash
is only offered with it, as `Resource.clean` asks. A range cancellation works on one
reservation, a transaction of its own for each in the model, one for all in the code.
What an update does to the order's other fields, its payment method included, is left out, and so is
maintenance mode. Log entries count only in that they restart a waiting time. The three
payment providers make the same state changes; there is one `Callback`.

### AccessGrants and GrantLife

`AccessGrants.tla` models the grants of access codes, the signals of reservations that
create and withdraw them, and the cron job `sync_kulkunen`, which may overlap with itself.
`GrantLife.tla` is what access control promises, and `AccessGrants` is shown to implement
it: `GrantsLive` is `Life!Spec` under the mapping `StageOf`. `MCAccessGrants` serves TLC,
`AccessGrantsProofs` has the proofs.

State. `grants` are the rows of `AccessControlGrant`, `users` the codes that are taken,
`wait` the grants whose delay before a retry runs, `remote` the cardholders or tokens of
the remote system, which is external. `at[c]` and `job[c]` are where a job is and what it holds:
the rest of its list as it was read, and the grant in hand. `setting` fixes the driver, the
jobs, how many grants there may be and what may go wrong. `hit` is history: grants whose answer was
lost, whose job died while it worked on them, whose notification failed, that were cancelled from an
old copy, or that another job of Abloy's driver has struck (below).

| Code | Actions |
| --- | --- |
| signals of a reservation | `Confirm`, `Modify`, `Cancel`; `Deny` sends none |
| `Command.sync_system` | `JobBegin`, `JobTurn`, `JobEnd`: the two lists |
| `AccessControlGrant.remove`, the drivers' `remove_grant` | `RemoveBegin`, `RemoveRead`, `RemoveSend`, `RemoveSave`, and `RemoveReadFails`, `RemoveSendFails` |
| `AccessControlGrant.install`, the drivers' `install_grant` | `InstallBegin`, `CreateUser`, `InstallSend`, `InstallSave`, `Notify`, and `InstallSendFails`, `NotifyFails` |
| death of a job, time | `Crash`, `TimePasses`, `Retry` |

A job commits after every statement, so every write is a step; a request holds the rows it
has selected until its commit and is one step. The two drivers differ in what a removal does:
SiPass deletes one cardholder, Abloy reads the tokens of the person and writes the rest back.
Nothing keeps two runs of the job from overlapping, and with Abloy's driver they can undo each other's
work in two ways. A token that was added or withdrawn between the read and the write comes to
be as it was read (`Overwritten`). And a code that was used before is free until the grant it is given to
is saved, so that two jobs may choose it (`ChosenTwice`): the lock that `create_access_user` takes "to
protect against race conditions" ends before. `hit` takes the grants concerned, which the
properties are not about: they say that no other grant suffers.

In `GrantLife` a grant is wanted, may open its door, is closed, and stays closed; the
promise ends where the code gives it up (`hit`, stage `"unknown"`).

### CalendarSync

`CalendarSync.tla` models the synchronisation of a resource with an Outlook calendar
(`respa_o365`): the classification of changes on both sides, the table of operations, the
mapping of reservations to events, the two mementos, the queue and the notifications.
The process reads both sides (`Begin`, or `BeginShort` when an error ends the list of
events), asks for the other side of what has changed (`Plan`), does the operations in any
order (`Operate`) and commits (`Commit`). Its writes to Respa are drafts until then; those
to the calendar are seen at once and outlive a rollback (`Abort`, `PlanFails`,
`OperateFails`). Users book, move and cancel on both sides between any two of its steps,
and a request of Respa may commit late, behind the memento (`SavedLate`).

A booking is followed on both sides by its `origin`. `hit` collects the bookings that
were struck by something the code does not handle: a list that came short, a rollback
after an event was created, a late commit, a booking beyond the horizon. The properties
are about all others. `EchoesDie` needs no exception: the process does not answer its own
changes for ever.

### ExchangeSync

`ExchangeSync.tla` models the synchronisation with an Exchange calendar
(`respa_exchange`). It has another shape: a request uploads each save within its own
transaction, and downloads read the whole calendar and make Respa follow it.

| Code | Actions |
| --- | --- |
| requests, `handle_reservation_save`, uploader | `Post`, `Put`, `Cancel`, `Edit` (Django's admin); `Save`, `LockCalendar`, `Upload` (create, update or delete the item), `CommitRequest`, `RequestFails`, `UpdateFails`, `LinkFails` |
| `sync_from_exchange`, by the daemon or a command | `Sync` or `Command`, `Find`, `Apply`, `DownloadFails` |
| PostgreSQL | `Deadlock` |
| the listener's loop and timer | `TakeChange`, `TakeDying`, `TakeReplaced`, `ManageSubscriptions`, `CloseFails`, `Respawn` |
| its threads | `Deliver`, `ThreadDies`, `IdleThreadDies`, `StoppedThreadDies` |
| users of the calendar | `Meet`, `MoveItem`, `DeleteItem` |

The row of `ExchangeResource` is the lock (`held`); a request takes it after it has written
its reservation, a download before, so the two can wait for each other. The daemon runs
with `sync_after_start`, as its command does when it is daemonized, and uWSGI starts it again
when it has ended. What a request does to a reservation that was imported is not uploaded. An update
of it fails in `set_state`, but for one that asks for `waiting_for_payment`, and Django's admin may
edit anything: then the reservation has another time than its item, which keeps its change key. `moved`
is history and collects such reservations until a change of their item is downloaded. A thread posts its last event in one step with the check that it was not
told to stop.

### Products and Pricing

`Pricing.tla` has the three computations of a price as operators: in total, in detail, and
for fixed prices. `Products.tla` extends it with the rows they read: versions of a product,
slots with prices of groups, prices of groups for a product, and the orders that refer to them.
Administrators save the pages of a product, a slot or a group from what they have read
before (`Open`, `SaveProduct`, `SaveSlot`, `SaveGroup`, `Refused`) and delete (`DeleteSlot`,
`DeleteGroup`); customers fill a basket and place the order (`Basket`, `Place`). What a page writes
it writes at the end of its request and in one step: the unique constraint on versions
makes a second save fail. The page of a product edits, deletes and adds any of its slots at once
(`MaxRows` bounds how many); each row is checked against the slots that were read (`Valid`,
`Fits`), not against the other rows of the request, so one request may leave slots that clash. Slots
that are equal in every column count as one. Which of two slots of one time comes
first is the database's choice, and may be another one each time: nothing is claimed
of prices that depend on it (`Apart`). `struck` collects the orders whose version lost a slot or got
a price for their group, which the code does without a new version. `ProductsProofs.tla` has
the proofs.

### OpeningHours

`OpeningHours.tla` models the daily hours of the resources of a unit. `Outcomes` is
`get_opening_hours`, with its sorting of periods by priority and length; a request saves a
period and then, for each resource it concerns, reads the rows there are (`ReadRows`), the
periods (`ReadPeriods`), deletes the difference (`Delete`) and inserts the rest (`Insert`),
before it commits (`Commit`). Each of these statements sees what others have committed and
waits for rows that others have written. An error of the database rolls a request back (`Abort`).
The page of a resource catches every exception of a save and answers as if the form was
wrong, so its request commits: when an assertion of `update_opening_hours` fails, the period stays
and so does the deletion of rows, without the new ones (`Swallow`). The API writes
periods of resources and units and updates no hours at all (`ApiSave`).
`strayed` collects the resources whose periods were last changed in one of these ways, or whose update
overlapped another's commit, until their next update that does none of this. `HoursMatch` compares
the rows of all others with a reference: the shortest period of the resource, else of its unit. That an
update brings hours back from whatever they were is what it claims after such a change.
The resources a save concerns are taken in one order, that of their names (`FirstOf`).
`OpeningHoursProofs.tla` has the proofs.

### AvailabilitySearch

`AvailabilitySearch.tla` has the two searches behind `available_between` as operators:
whether a resource is free for a whole range, by a query, and whether it has a free slot
of some length in it, by a walk over its reservations. `SearchesAgree` compares
them. It presumes that no reservation lies within another or wholly outside the hours; for
those the walk gives other answers than the query (see *Findings*).

### UnitPermissions

`UnitPermissions.tla` has the levels of one user in units (admin, manager, viewer), the edits
of them, and the checks and queries that rest on them. What others may do is independent
of it. A resource is as its unit.

| Code | Model |
| --- | --- |
| `ManageUserPermissionsView.post`: the form set reads the rows | `Post` |
| `forms_valid`: rows saved and deleted, `can_approve_reservation`, `_ensure_lower_auth` (`EnsureLower`), `_manage_staff_status` | `Save`, with `Write` and `Approvals` |
| `POST /unit/` with authorizations (`create_authorization`) | `CreateUnit`, with `Authorize` |
| Django Admin: a row, or the flag of staff | `AdminRow`, `AdminStaff` |
| `Resource._has_perm`, `_has_role_perm`, `_has_explicit_perm` | `HasPerm`, `HasRolePerm` |
| `by_roles`, `with_perm`, `managed_by`, `extra_fields_visible`, `can_modify_resource` | `ByRoles`, `WithPerm`, `ManagedBy`, `ExtraFieldsVisible`, `CanModify` |

A form reads before it validates and writes later, so others may have changed rows in
between: `posted` keeps what it has read. From its first write on (the row of the user)
a form holds that row to the end of its request, so that two are saved one after the other and
`Save` is one step. `EnsureLower` has both orders of the code: the query compares levels by name
(`Less`), Python by rank (`Rank`). `uneven` collects the units for which nothing can
be promised: Django Admin edits one row and no other, and a form that saves some rows and
deletes others looks only at the units of the former. The flags of a user, the units of groups
he administers and what is granted to him by name, which no action here changes, range
over all they may be in `Account`. Of the table `UNIT_ROLE_PERMISSIONS` there are four rows, one of each
kind: for nobody, for all, without viewers, for administrators alone.

`ListsAgree` has two limits that are the code's. Limits of age refuse in the check and
are in no query, so users whom they exclude are left out. And the check lets managers and
administrators pass whatever the table says of a permission (`resource.py:799`), so the
queries are only shown to list no more than it allows; for the extra fields, which the code
says are written twice, they are shown to be equal. `UnitPermissionsProofs.tla` has the proofs.

## Runs

Keys, workers and other interchangeable names are symmetric where no liveness is checked. Deadlock is not checked
in any run: in each of these systems users may stop asking for anything, rows are not
deleted for ever, and clocks and counts of changes stop at their bounds.

A resource has one of the two calendars, and products, hours, permissions and searches share no row.
`MCCalendarSync` and `MCAdminEdits` each instantiate such modules side by side: a
variable `part` chooses the one that runs, and the others stay in their first state.
`AdminEditsProofs.tla` carries what is proved of a part over to the composition.

| Run | Question | Bounds |
| --- | --- | --- |
| `booking_core` | Do creations, updates and cancellations, with stale copies, time passing and writers that take no lock beside them, ever book a resource twice? Do cooldown and limit still hold at commit? Is the invariant of the proof true? | 1 resource, 2 rows, 2 workers, 2 users (one bound by the cooldown, one by the limit), 2 adjacent periods, clock 0..1, all kinds of request |
| `booking_decisions` | Can an update from an older copy undo an approver's decision, or change a reservation confirmed meanwhile? Does every request end, although workers wait for a lock? | 1 resource, 2 rows, 2 workers; states confirmed, requested and denied may be asked for, manual confirmation, clock stopped |
| `booking_unit` | Is the rule about overlaps in a unit kept? It is not. | 2 resources of an exclusive unit, 2 rows, 2 workers, creations only |
| `orders_serial` | One process at a time, all kinds of request: do orders change only as documented, and do order and reservation agree? | 1 order, 1 process |
| `orders_agree` | Callbacks, the job and the admin at once: do order and reservation agree, and does an unpaid online order end? | 1 order, 2 workers, 1 job |
| `orders_race` | Updates and callbacks at once, with stale copies: is a confirmed order always paid, is the invariant of the proof true, does every transaction end? | 1 order, 2 workers, manual confirmation |
| `orders_changes` | Callbacks and the job at once: not only documented changes. | 1 order, 2 workers, 1 job |
| `orders_cancel_race` | A cancellation beside callbacks: order and reservation do not agree. | 1 order, 2 workers, 1 job |
| `grants` | Is a grant worked on alone, is a code forgotten or shared, does an installed grant open, does the module implement `GrantLife`? | 1 reservation, 2 codes, 2 periods; either driver with 2 grants and one job and every fault, or two jobs, refusals and crashes; with 3 grants and two jobs, SiPass without faults and Abloy with crashes |
| `grants_live` | Is every grant removed in the end? | either driver, 2 grants, one job, refusals and crashes |
| `calendar` | Do the calendars agree once nothing is left to do, is a booking doubled, cancelled for nothing or taken for a new one, does it come to rest? | Outlook: 4 rows, 5 events, 2 times, near and far. Exchange: 3 rows, 3 items, 1 request, 2 downloads. 3 changes or faults of either. |
| `admin_edits` | Do orders keep their price, do slots follow the current version, does one that keeps its time stay clear of the others', do details add up, are the hours what the periods give once they are updated, do the searches agree? Has who has a level those below it, and do lists and checks of permissions agree? | Products: 2 administrators, 1 order, 1 group, 3 versions, 2 slots of a request, 3 times of slots, one price each of slots, groups and versions. Hours: 2 resources, 2 periods of 4, 2 requests, 3 edits, those of the API included. Search: times 0..4, at most 3 reservations. Permissions: 2 units, 2 forms of at most 2 rows, 3 edits. |

In `Booking`, two rows and two workers are enough for each of these questions to go wrong: every
property speaks of two rows, or of a row and a request, and a conflict needs one writer
between a check and a write of another. The mutants in `PROJECT.json` show for each
property of each run a plausible bug that its bounds reveal.

What `NoDoubleBooking` does not say: a reservation that has ended is ignored by the
check (`active` asks for `end >= now`), so one made later for a period that began earlier
may overlap it; and a period written by bulk creation or by synchronisation may overlap
anything. The property is about rows in force, both written under the check.

In `OrderPayments` every property is about one order, and transactions on different
orders meet only in the job, which the model lets hold the locks of all it has changed;
one order and three transactions at once are the smallest instance in which a row can be
stale, locked and waited for. `orders_serial` lets staff ask for the states `confirmed`,
`ready_for_payment` and `cancelled` only: an approver may as well deny a reservation whose order is
paid, or revert it, and the code then leaves the order as it is. `ConfirmedIsPaid` counts an order whose method is
cash as paid, because staff takes the money; it presumes that staff asks no update to set
`waiting_for_cash_payment`, which the code allows for orders with any method and which the
runs do not ask for.

In `AccessGrants` a second grant arises when a reservation is moved, and two are what a
pair of jobs, or a removal and an installation of one person, need to get in each other's
way. A third lets two jobs of Abloy's driver remove and install beside a grant that neither
of them works on; and two may choose the code that a third had. In `Products` three prices, all
different, tell by what slot, group or version an order is charged; two rows of a request are
what it takes to clash within it, or to move one slot and add another. In the calendars three changes are a change on each side and one more, or a change, a
fault and one more; rows and items are as many as those can use up. (`ExchangeSync` was
also checked alone with two requests at once and with four changes.) In `AvailabilitySearch` two
reservations are the fewest between which a gap can lie, with one before and one after; a third may
overlap them, or lie before or after them.
In `UnitPermissions` three edits are one that gives levels and two that overlap, and two rows
are what a form needs to save one and delete another.

### Findings

`booking_unit` shows a disagreement. The comment above the lock says concurrent requests
cannot be validated incorrectly, but the lock is on one resource and the rule of
`disallow_overlapping_reservations` is about all resources of a unit. Two workers that
create reservations in two rooms of such a unit both pass, and both commit.

`orders_changes` shows that an order that has ended can come to life again. `set_state`
locks the row and compares it with the new state, but looks up the valid changes by the
state it had read before. A callback that reads a waiting order just before the job
commits confirms an expired order and its cancelled reservation; the documentation and
`test_order.py` exclude it.

`orders_cancel_race` shows a cancelled reservation with a confirmed order. A cancellation that
meets a callback's lock on the order keeps the cancellation of the reservation and drops
that of the order.

Other behaviour worth knowing is listed under "hazards" in `PROJECT.json` with a note: no
statement of the repository denies it, so no run counts it as an error. Among it: a denial
leaves the access grant in force; the Outlook synchronisation cancels a reservation without
withdrawing its grant or its order; an exception in one link keeps later links waiting; the
search for a free slot misjudges nested reservations. Two more are in the permissions:
`docs/permissions.rst` has a table by which managers may not approve reservations, while
`_has_perm` lets them; and the form takes the flag of staff from a user without levels in units,
also from one who administers a group of units.

And four by which rows that belong together come apart, each a step of its module:

* `handle_reservation_save` uploads no change of a reservation that was imported from Exchange. It
  can be moved all the same, by an update that asks for `waiting_for_payment`
  (`resources/api/reservation.py:198`, which takes that state from anyone who may modify the
  reservation) or in Django's admin; item and reservation then differ until the item changes again.
* The page of a product saves slots that overlap each other, when both are new or
  changed in one request (`payments/admin.py:66-86`, `payments/models.py:108-123`).
* Hours stay behind the periods after every write of periods by the API (`resources/api/base.py:254-297`),
  and after a failed assertion that the page of a resource swallows
  (`respa_admin/views/resources.py:499-508`). The help text of the table says that it is "calculated
  automatically for each day the resource is open" (`resources/models/resource.py:1359`).
* Two overlapping runs of `sync_kulkunen` with Abloy's driver can bring back a token that one of them
  removed or drop one that was installed meanwhile, and can give one used code to two grants.

### Fairness

`FairSpec` asks for strong fairness of `Proceed(w)` for every worker: a request whose next
step is possible again and again takes it in the end. Steps other than the lock are only
a matter of the worker running. The lock needs the strong form because another worker
may hold it whenever this one would look; PostgreSQL grants a row lock in the order of
its queue, so a waiter is not overtaken forever. Requests are not assumed to arrive.

`FairSpec` of `OrderPayments` asks the same of `Proceed(p)`, with the locks of both rows
in mind. It adds weak fairness of `JobBegin`, because cron starts the job again and
again, and of `RunOut` for the time since creation, because time passes. Neither customers
nor the payment service have to do anything. `UnpaidOrderEnds` is checked beside
callbacks and the admin, which are finitely often in the way of a waiting order. It is
not claimed beside updates: the job passes over an order that is locked when it comes, and
nothing keeps staff from updating the reservation each time.

`FairSpec` of `AccessGrants` asks for weak fairness of the job, which cron starts again and
again, of time and of the delays before retries, and for strong fairness of the two calls that
remove a grant: a call that is repeated goes through in the end. Installations may fail for
ever. `GrantsEnd` leaves out the grants in `hit`: nothing looks again at a grant whose
job has died while it worked on it.

`CalendarSync` needs no fairness: `EchoesDie` says that changes end, not that they are made.
`ExchangeSync` asks for weak fairness of all steps that nobody has to ask for together, the
restart of the daemon by uWSGI among them (`README.md:248-267`), and for strong fairness of a
request that waits for the calendar's row, which PostgreSQL grants in the order of its queue.
Without the latter the model shows a request and the daemon that end each other's turn for ever: a
download dies in a deadlock with the request, and its successor has the row before it.

## Proofs

`BookingProofs.tla` proves, for every number of resources, users, rows and workers and
every value of the constants that satisfies `BookingAssumption`:

* `TypeInvariant`: `Spec => []TypeOK`.
* `BookingInvariant`: `Spec => []BookingInv`.
* `NothingBookedTwice`: `Spec => []NoDoubleBooking`.
* `CooldownAlwaysKept`: `Spec => []CooldownKept`.
* `DecisionsAreKept`: `Spec => DecisionKept`, `ConfirmedStaysAsItIs`: `Spec => ConfirmedStaysPut`.
* `LimitIsKept`: `Spec => CreateWithinLimit`.
* `UnitRuleKeptSerially`: `Spec => []NoOverlapInUnit`, if there is one worker (`booking_unit` shows why).

`NoDoubleBooking` is not inductive: it says nothing of the requests under way. `BookingInv`
adds `OneCritical` (one request per resource is past its validation), `Targets` (a creation
targets no row, an update one) and `StillClear` (what such a request found clear is clear).
The proof sorts the steps by what they do to a row that counts, that is, one in force and
written under the check. Most steps are `Quiet`: they change no such row, take no lock
and leave the requests past their validation alone; time only takes rows out of
force. A validation establishes `StillClear` for its own request by the very query it
runs, and `OneCritical` by the lock. A commit writes one row, in the resource whose lock
it holds; the requests past validation in other resources do not care, and in
its own there is none but itself.

The query of the cooldown alone would not do: it overlooks a reservation that begins and ends
exactly one cooldown outside the period asked for. Such a reservation overlaps the period, so
the query for collisions finds it (`FarApart`); and whoever is held to the cooldown is held to
that one, too (`CollisionFirst`). With it the argument is that of `NoDoubleBooking`, with
`StillSpaced` in the place of `StillClear`: every step is quiet, a validation or a write
(`StepKinds`), and each kind keeps the distance (`QuietSpaced`, `ValidateSpaced`, `WriteSpaced`).

The next three are about steps: what a commit may do to a row that others may have changed
since the request read it. `DecisionInv` says of a request past its validation that
the row is as it was read again under the lock, or has been cancelled or moved, since no other request
writes it meanwhile and the writers without lock do nothing else to it. `PlaceInv` does
the same for the limit: between validation and commit of a creation, the reservations that
count for the limit of its user only become fewer, since every creation in the resource waits for its lock
and time only ends reservations. It is the one proof that counts, and asks for finitely many rows.

The rule about units needs no lock if there is one worker; what has to be shown is that the query misses
nothing. `FourAlternatives` says that its four alternatives are the two comparisons `Meets`, for
periods that end after they begin. With it `StillAlone` takes the place of `StillClear`, over all
resources of the unit, and the three kinds of steps are those of the other proofs
(`QuietUnit`, `ValidateUnit`, `WriteUnit`). Only the last of these asks for one worker.

`OrderPaymentsProofs.tla` proves, for any number of orders and processes, every set of
requests, permissions and states an update may ask for that satisfies `OrderAssumption`:

* `TypeInvariant`: `Spec => []TypeOK`.
* `OrderInvariant`: `Spec => []OrderInv`.
* `ConfirmedOrdersArePaid`: `Spec => []ConfirmedIsPaid`, if staff asks no update for
  `waiting_for_cash_payment`.
* `CallbacksKeepAgreement`: `Spec => []OrderAndReservationAgree`, if orders change by callbacks,
  the job and the admin alone (`orders_cancel_race` shows why).
* `SerialChangesAreDocumented`: `Spec => OnlyDocumentedChanges`, if there is one process, which
  may do anything (`orders_changes` shows why).
* `SerialAgreement`: `Spec => []OrderAndReservationAgree`, if there is one process and staff asks
  no update for a denial, a return to `requested` or a state of waiting (`AsksInStep`); the code
  leaves the order alone on those.

`ConfirmedIsPaid` is about committed rows and not inductive: a transaction may be about to
commit anything. `OrderInv` says of each step which transactions can be there.
`ControlOK` keeps them to orders that exist and to the steps of their kind of request,
`PaidOK` says that every order they have written or are about to write as confirmed is paid,
and that a reservation they hold as waiting for cash has an order of that method. Both
lean on the rows only through facts that stay true (an order exists, is paid, is in cash),
so one lemma, `StepKept`, carries the invariant of all other processes through any step
(`Grows`), and each action has to show only that its own transaction fits (`Fit`). No
part of the argument needs the locks: payments are safe from the races that break the
agreement of order and reservation.

The agreement does need them. Its invariant says that whoever has written a reservation, or is
about to, has the lock of its order and has written that order or will before the end; so
the two rows change in one commit, for any number of workers and jobs. The last two
theorems need no locks either, but one process: then the state in memory by which `set_state`
judges a change is that of the row as the transaction sees it (`Informed`), and what a
transaction has written continues the committed state along documented changes (`Continues`).

For the agreement, `InStep` adds what the transaction sees of both rows, its own writes included. They agree
at every step but those of a cancellation that has saved the reservation and not yet got to the order
(`Cancelling`), and those of `set_state` between its two writes (`SetsBoth`). An update decides
on a state from the order it has read; `AsRead` and `WillAgree` say that what it is about to
save agrees with the order as it is by then. The job's batch goes through many orders in one transaction,
so agreement as seen is said of all orders, not of the one at hand.

`AccessGrantsProofs.tla` proves, for any number of reservations, grants, jobs, codes and
periods, both drivers and every set of faults:

* `TypeInvariant`: `Spec => []TypeOK`.
* `WorkedOnAlone`: `Spec => []ExclusiveAccess`.

`ExclusiveAccess` is not inductive, because a job works from a list: the copies in it say in
which state the grants were, and the exclusion rests on the comparison of a copy with the
row. The invariant `GrantInv` adds `Fit`: a job that removes has copies of installed or
cancelled grants, one that installs has copies of requested ones, so a grant whose row
says `installing` or `removing` is taken by nobody. A request never changes a row in
those states (`CancelTo`), and a job changes only the row it works on (`Put`).

And, with no further assumption, of what opens the doors:

* `NoCodeForgotten`: `Spec => []NoForgottenCode`.
* `ImplementsGrantLife`: `Spec => Life!Spec`.
* `CodesAreApart`: `Spec => []NoSharedCode`.
* `InstalledCodesOpen`: `Spec => []InstalledOpens`.

Abloy's driver writes back the tokens it has read, so a removal beside another job brings back a token
or drops one; the step itself marks the owners of these tokens (`OverwrittenGrants`), and the proofs show
that it leaves all others their codes, and none with a code that should be gone. The invariant `LifeInv` relates four places that are written at
different times: the row of a grant, the remote system, the lists of the jobs and the copy in a
job's hand. `RowOK` says that a grant opens the door only with the code of its row, while it is
installed or being removed, or with that of the job which is about to save it; `MemOf` says that a
copy of an installed grant still has the row's code, since what has been installed is never
installed again (`Settled`), and that after the call that removes it nothing of it is left.
`GrantStep` lists the seven things that a step does to a grant that is not struck. Each action is
shown to be one of them for each grant (`LifeStep`); that they keep `RowOK` and follow `GrantLife`
(`StageStep`) is shown once, without looking at the actions again.

All four need `Codes`, too (`CodeInv`): what one removal takes is no concern of another grant only if
codes are apart. A code is claimed by the row that holds it and by the job about to save it;
`ClaimsOK` says that kulkunen has an active user for each claim, which keeps the code from being given
again, and that no two grants claim one. `TokensOK` says that each code that has to open is at the
remote system, from the call that installs it until the one that removes it. A code used before can be given
once more: `PinsAreFree` shows that no row has it then, and a job that is about to save it makes the choice
one that strikes (`ChosenTwice`).

`UnitPermissionsProofs.tla` proves, for any number of units, requests, edits and rows of a form:

* `TypeInvariant`: `Spec => []TypeOK`.
* `LevelsInvariant`: `Spec => []LevelsClosed`.
* `ListsInvariant`: `Spec => []ListsAgree`.

`LevelsClosed` is inductive with the types. Its core is `EnsureCloses`: `_ensure_lower_auth` closes
a set of levels whichever row of the set it is called for, because the query by name finds
exactly the levels that are higher, and the highest of them is looked at. (The comment of the
code has it the other way round; `level__lt` finds what is lower in the alphabet.) So a form
closes the units it looks at (`WriteCloses`) and leaves the others as they were but for the
rows it deletes (`WriteKeeps`), whatever others have done since it was read. `ListsAgree` holds in
every state of the right types; no step has to be looked at.

`ProductsProofs.tla` proves, for any number of administrators, orders, groups, slots and
versions, and both kinds of a product's price:

* `ProductInvariant`: the invariant `ProductInv` below.
* `SlotsFollowProduct`: `Spec => []SlotsFollow`, `KeptAlwaysStayClear`: `Spec => KeptStayClear`.
* `PricesAreKept`: `Spec => []PriceKept`.
* `DetailsAlwaysAddUp`: `Spec => []DetailsAddUp`, `ProductsTyped`: `Spec => []TypeOK`.

A page writes slots as it read them before others saved theirs. `ProductInv` says that a request
which may still be saved has read every slot in force (`FormOf`), because any save in between adds a
version, and the unique constraint refuses the second. So a row that is added or moved has been checked against
every slot that keeps its time, which is `KeptStayClear`. That the slots of a version are apart is no part
of the invariant, as rows of one request are not checked against each other. Archived ones
belong to versions before the current, so the copies that `Product.save` leaves are all that an old order's
price is computed from (`TotalPut`: copies of slots that are apart cost what the slots did; the terms of the
sum are equal, so its value is not needed). For orders that nothing struck, a price of a group on their version was
there when they were placed (`OrdersInv`), and their cost is what they were quoted (`QuotesInv`).

The last two are about what a sum over chunks of time is, which is defined by a recursive function on finite
sets. That such a sum exists, is natural and may be split in any way is shown by least
counterexamples: of the sets for which it fails one has the fewest members, and it can be
reduced by one. The details are the same chunks, grouped by the slot they are charged by (`TotalOfGroups`).

`OpeningHoursProofs.tla` proves, for any number of resources, periods and requests:

* `HoursInvariant`: the invariant `HoursInv` below.
* `HoursAlwaysMatch`: `Spec => []HoursMatch`.
* `HoursTyped`: `Spec => []TypeOK`.

A transaction writes differences from what it has read, so the rows after its commit depend on
those that are there by then. `HoursInv` says of each transaction, for the resources it has
updated and none has overtaken (`Updated`), that the committed rows with its own differences are what
the periods with its own give, and the same for the resource at hand after each of its statements
(`Updating`). A commit of another, a save by the API and a swallowed assertion mark the resources they touch
as stale for whoever has read them, and as astray for all; two transactions never change one
period. Nothing is said of a resource that has gone astray, so an update has to show the whole of what it
leaves from what it reads and writes itself. That the shortest of the periods that win the
sorting is the reference's is `Deciding` against `Decide`, with a least length that exists by
well-foundedness.

`AdminEditsProofs.tla` has the same statements, and those about levels and lists, for the
composition `MCAdminEdits` that TLC runs: every step of it is a step of one part or a stutter of it.
Its assumptions are those of the parts, which TLC evaluates for the constants of the run. Among them:
days open before they close, which the range constraint of `Day.save` sees to, and a product has at least one
version. It also proves

* `SearchesAlwaysAgree`: `Spec => []SearchesAgree`, for any times, hours and finite number of reservations that
  keep the hours and are not nested.

The search has no steps: the invariant is that its input is one that `Init` admits. The
theorem is about the loop over the reservations in the order of their beginning. That such an order exists,
that the recursive function which stands for the loop does, and that it knows at each turn how
long the resource has been free (`Known`) are shown by least counterexamples again.
The loop looks at the end of the last reservation only; that the last to begin is the last to end is what
the exclusion of nested reservations gives.

`CalendarProofs.tla` proves, for any number of rows, events, items, requests, downloads and times,
every bound on the changes and every set of faults, again in the composition that TLC runs:

* `ExchangeInvariant`: the invariant `ExchangeInv` below.
* `NothingIsEchoed`: `Spec => []NoEcho`.
* `RestMeansAgreement`: `Spec => []ExchangeAgrees`.
* `OutlookInvariant`: the invariant `OutlookInv` below.
* `BookedOnce`: `Spec => []NoDuplicates`, `RestMeansInStep`: `Spec => []CalendarsAgree`.
* `CancelledForCause`: `Spec => NoNeedlessCancel`.
* `CalendarsTyped`: `Spec => []TypeOK`, of both synchronisations.

Each action is first reduced to what it does to the rows, items and events the argument is about
(`BeginStep`, `UploadStep`, `ApplyStep`, ...; `ExchangeSteps` says that there are no others).
`ExchangeInv` has four parts. `Base` has the types and the lock: a transaction that uploads holds it, a
download that has its list holds it, and both cannot be. `Linking` is about what is linked: an item in the
calendar that a request created is linked by a row or by the transaction that holds the lock, or its
creation was rolled back (`Shown`); links are of one row (`OneLink`). With it an import can only be of a
user's item. `Copies` is about times: a link with the item's key has a row with its time (`Rows`), though
requests save old copies, unless the row was imported and moved since (`moved`). `Noticed` is the argument for agreement at rest: an item and its row differ only
while a change is to be delivered or is queued, the listener has no subscription or is down, it is about to
synchronise, or a download has a list as new as the item (`Synced`, `Pending`). The event of a thread
that dies makes the loop drop the changes it had gathered; `Replaced` says that a change is
queued behind each such event. A download imports when there are enough unused rows, which the
code always has and `RowChoices` asks for.

For Outlook each action is reduced in the same way (`RespaChanges`, `CalendarChanges`, `Queues`, and the
steps of the process; `OutlookSteps` says that there are no others), and one lemma says that a kind of
step keeps a part of `OutlookInv`. The three properties are far from inductive, as the process decides on
what it read and commits it later. `OutlookInv` says:

* what is one booking: `Origins` and `Mappings` (an event is mapped to one row and has its origin, as
  committed and as the process means to commit), `OneRow`, `OneEvent`, and `Paired`: a row and an event of one
  booking are mapped to each other, or the process has made the event and not committed yet. `NoDuplicates`
  alone does not exclude a second creation; `Paired` with `OpMeant` does. `PastAlike` and `NotFar` are about
  the edges of the horizon.
* that what differs is noted: `Recorded` for the committed rows (a row that differs from its event is
  after the memento of one side), `Noted` for what the process holds (it is to be read, in its list of
  operations, or equal). At rest there is no list and nothing to be read, and agreement follows.
* that operations are still meant: `Todo` (each has its cause, or its row was changed since and is to be read
  again; no two are of one row or event), and `Justified` for the cancellations that wait for the commit.
* what was read: `Reading` ties the two change lists to what is there now. It is stronger than what a
  decision needs because users go on between the reading of a list and the decision.

Families, differences and causes are said of bookings that no fault has struck (`hit`), as in the
properties; types, origins and mappings of all. The proof
assumes `CalendarAssumption` and that bookings begin within or beyond the horizon (`NearAndFar`); times become
near and past as they go.

Only model-checked, and why:

* liveness (`RequestEnds`, `UnpaidOrderEnds`, `GrantsEnd`, `EchoesDie`, `ExchangeSettles`) is out of
  the prover's reach.

Every invariant and every action property of a passing run is stated by a theorem. Three statements are
false for several processes at once, as the runs under *Findings* show, and are proved for one: the rule
about units, the documented changes of orders, and the agreement of orders with reservations (which is
also proved for any number of callbacks, jobs and admins).

## Not modelled

* Outlook polling (`respa_outlook`): its loop decides by whether a lookup raised any
  exception, and what the external library raises when is not to be had from this
  repository. Its writes of reservations are those of the synchronisation in `Booking`.
* Synchronisation of opening hours with Outlook (`respa_o365/respa_availabilility_repository.py`) and
  importers of hours, which write periods and update hours statement by statement outside of
  one request; units that change their time zone; subscriptions at Microsoft.
* For the Exchange calendar: deletion of reservation rows in Django's admin, and a reservation that is moved
  to another resource.
* Caterings, comments, notifications, quality tool, reports, maintenance mode,
  accessibility: rows that are stored and shown, mails, exports; no protocol.
* Users and authentication: Django's own, but for groups and tokens; in `Booking` permissions
  are a constant. Which units an editor of permissions may edit, groups of units and of
  resources, and permissions of groups of users.
* Other forms of the admin, importers, sanitizers, settings, migrations, deployment.
* Arithmetic on time zones, taxes and roundings.

## Plan

1. *Done*: `Booking`, its runs and the proofs of its exclusion and of the cooldown.
2. *Done*: `OrderPayments`, its runs and the proof that confirmed orders are paid.
3. *Done*: `AccessGrants`, and the proofs that jobs work alone and that it implements `GrantLife`.
4. *Done*: `CalendarSync` and `ExchangeSync`.
5. *Done*: `Products`, `Pricing`, `OpeningHours`, `AvailabilitySearch`.
6. *Done*: `UnitPermissions` and the proof of its invariants.
7. *Done*: proofs of the limit and of decisions, of the agreement of orders, of codes, of
   `Products` and `OpeningHours`, and of the synchronisations with Exchange and Outlook.
8. *Done*: the agreement of order and reservation, and the rule about units, for one process; the sums
   of `Products`; the searches.
9. *Open*: the hazards that `PROJECT.json` lists with a note, above all denials that leave a grant in
   force; the limit per user, to which an update that moves or revives a reservation is not held.
