--------------------------- MODULE CalendarProofs ---------------------------
(***************************************************************************)
(* What holds of the calendars for any number of rows, events, items,      *)
(* times, requests, downloads and changes: first the synchronisation with  *)
(* Exchange (ExchangeSync), then the one with Outlook (CalendarSync).  An  *)
(* inductive invariant of each is built from named parts; one lemma says   *)
(* that a kind of step keeps a part; the theorems close each half.         *)
(***************************************************************************)
EXTENDS MCCalendarSync, SequenceTheorems, TLAPS

-----------------------------------------------------------------------------
(* A behaviour of the whole is one of each component                       *)

LEMMA ExchangePart == Spec => E!Init /\ [][E!Next]_exchange
<1>1. Init => E!Init
  BY DEF Init
<1>2. [Next]_vars => [E!Next]_exchange
  BY DEF Next, InOutlook, InExchange, vars
<1> QED
  BY <1>1, <1>2, PTL DEF Spec

LEMMA ExchangeConstants ==
    /\ ExchangeRows \subseteq Nat /\ Item \subseteq Nat
    /\ Listener \in Download /\ Request \cap Download = {}
    /\ None \notin Item \cup Time \cup Request \cup Download
    /\ MaxEvents \in Nat
BY Constants DEF E!ExchangeAssumption

USE ExchangeConstants

-----------------------------------------------------------------------------
(* ExchangeSync: types, and who holds the lock                             *)

Saves == E!ReservationState \ {"none"}
Kinds == {"change", "dying", "replaced"}

TxRow == [at : {"idle", "save", "saved", "upload"}, r : ExchangeRows \cup {None},
          row : E!ResvRow, link : E!LinkRow, todo : Seq(Saves)]

ListenerRow == [at : {"wait", "sync", "down"}, changed : BOOLEAN, subscribed : BOOLEAN,
                thread : BOOLEAN, stopped : BOOLEAN, stream : BOOLEAN]

Items == [Item -> E!ItemRow]

\* A row or an item has a time once it is there
Timed(row) == row.state # "none" => row.time \in Time

\* A transaction has a row that it means to save
Meant(t) ==
    /\ t.at # "idle" => t.r \in ExchangeRows /\ t.row.state # "none" /\ Timed(t.row)
    /\ t.at # "upload" => t.link = E!NoLink
    /\ t.at \in {"save", "saved"} => t.todo # <<>>
    /\ Len(t.todo) <= 2

ExchangeTypes ==
    /\ reservations \in [ExchangeRows -> E!ResvRow]
    /\ links \in [ExchangeRows -> E!LinkRow]
    /\ items \in Items
    /\ held \in Request \cup Download \cup {None}
    /\ tx \in [Request -> TxRow]
    /\ list = [d \in Download |-> list[d]]
    /\ \A d \in Download : list[d] = None \/ list[d] \in Items
    /\ listener \in ListenerRow
    /\ posted \in Seq(Kinds)
    /\ chances \in 0 .. MaxEvents
    /\ orphans \subseteq Item /\ moved \subseteq ExchangeRows

Timing ==
    /\ \A r \in ExchangeRows : Timed(reservations[r])
    /\ \A i \in Item : Timed(items[i])
    /\ \A d \in Download, i \in Item : list[d] # None => Timed(list[d][i])
    /\ \A p \in Request : Meant(tx[p])

\* Uploads hold the lock, and downloads that have read
Locks ==
    /\ \A p \in Request : tx[p].at = "upload" <=> held = p
    /\ \A d \in Download : list[d] # None => held = d
    /\ listener.at = "sync" <=> held = Listener

Base == ExchangeTypes /\ Timing /\ Locks

LEMMA BaseInit == E!Init => Base
<1> SUFFICES ASSUME E!Init PROVE Base
  OBVIOUS
<1>1. E!NoTx \in TxRow /\ Meant(E!NoTx) /\ E!NoTx.at = "idle"
  BY DEF E!NoTx, TxRow, Meant, E!NoResv, E!NoLink, E!ResvRow, E!LinkRow, E!ReservationState
<1>2. ExchangeTypes
  BY <1>1 DEF E!Init, ExchangeTypes, E!NoResv, E!NoLink, E!NoItem, E!ResvRow, E!LinkRow, E!ItemRow,
     E!ReservationState, Items, E!Started, ListenerRow, Kinds
<1>3. Timing
  BY <1>1 DEF E!Init, Timing, Timed, E!NoResv, E!NoItem
<1>4. Locks
  BY <1>1 DEF E!Init, Locks, E!Started
<1> QED
  BY <1>2, <1>3, <1>4 DEF Base

\* One more event in the queue, or the one that is already the last
LEMMA PostedLast ==
    ASSUME NEW q \in Seq(Kinds), NEW e \in Kinds, NEW s, s = E!Posted(q, e)
    PROVE  /\ s \in Seq(Kinds) /\ Len(s) \in Nat /\ Len(s) > 0 /\ s[Len(s)] = e
           /\ Len(q) <= Len(s) /\ \A n \in 1 .. Len(q) : s[n] = q[n]
           /\ \A n \in 1 .. Len(s) : n > Len(q) => s[n] = e
<1>1. CASE q # <<>> /\ q[Len(q)] = e
  BY <1>1 DEF E!Posted
<1>2. CASE ~(q # <<>> /\ q[Len(q)] = e)
  BY <1>2 DEF E!Posted
<1> QED
  BY <1>1, <1>2

\* The ends of other threads, when a listener is replaced
LEMMA QueueReplaced ==
    ASSUME NEW s \in Seq(Kinds), s # <<>>
    PROVE  [n \in 1 .. Len(s) - 1 |->
              IF s[n + 1] = "dying" THEN "replaced" ELSE s[n + 1]] \in Seq(Kinds)
<1> DEFINE q == [n \in 1 .. Len(s) - 1 |-> IF s[n + 1] = "dying" THEN "replaced" ELSE s[n + 1]]
<1>1. Len(s) \in Nat /\ Len(s) > 0 /\ "replaced" \in Kinds
  BY DEF Kinds
<1>2. \A n \in 1 .. Len(s) - 1 : s[n + 1] \in Kinds
  BY <1>1
<1>3. q \in [1 .. Len(s) - 1 -> Kinds] /\ Len(s) - 1 \in Nat
  BY <1>1, <1>2
<1> HIDE DEF q
<1>4. q \in Seq(Kinds)
  BY <1>3, SeqDef
<1> QED
  BY <1>4 DEF q

LEMMA TodoTail ==
    ASSUME NEW s \in Seq(Saves), s # <<>>
    PROVE  /\ Head(s) \in Saves /\ Tail(s) \in Seq(Saves) /\ Len(Tail(s)) = Len(s) - 1
           /\ Head(s) = s[1] /\ 1 \in DOMAIN s
           /\ \A n \in DOMAIN Tail(s) : n + 1 \in DOMAIN s /\ Tail(s)[n] = s[n + 1]
OBVIOUS

-----------------------------------------------------------------------------
(* What each step of ExchangeSync does                                     *)

\* The listener, its threads and their queue
ListenerStep ==
    /\ UNCHANGED <<reservations, links, items, held, tx, list, orphans, moved>>
    /\ listener' \in ListenerRow /\ posted' \in Seq(Kinds) /\ chances' \in 0 .. MaxEvents
    /\ listener'.at = "sync" <=> listener.at = "sync"

LEMMA ListenerSteps ==
    ASSUME Base,
           \/ E!Deliver \/ E!ThreadDies \/ E!IdleThreadDies \/ E!StoppedThreadDies
           \/ E!TakeChange \/ E!TakeDying \/ E!TakeReplaced \/ E!ManageSubscriptions
           \/ E!CloseFails \/ E!Respawn
    PROVE  ListenerStep
<1>0. /\ listener \in ListenerRow /\ posted \in Seq(Kinds) /\ chances \in 0 .. MaxEvents
      /\ {"change", "dying", "replaced"} \subseteq Kinds
  BY DEF Base, ExchangeTypes, Kinds
<1>p. \A q \in Seq(Kinds), e \in Kinds : E!Posted(q, e) \in Seq(Kinds)
  BY PostedLast
<1>f. \A f : E!Fault(f) => chances' \in 0 .. MaxEvents
  BY <1>0 DEF E!Fault, E!Spend
<1>s. \A b : E!Subscribes(b) => chances' \in 0 .. MaxEvents
  BY <1>0, <1>f DEF E!Subscribes
<1>1. CASE E!Deliver
  BY <1>0, <1>p, <1>1 DEF E!Deliver, ListenerStep, ListenerRow
<1>2. CASE E!ThreadDies \/ E!IdleThreadDies
  <2>1. E!ThreadEnds /\ chances' \in 0 .. MaxEvents
    BY <1>0, <1>2, <1>f DEF E!ThreadDies, E!IdleThreadDies
  <2> QED
    BY <1>0, <1>p, <2>1 DEF E!ThreadEnds, ListenerStep, ListenerRow
<1>3. CASE E!StoppedThreadDies
  BY <1>0, <1>p, <1>3 DEF E!StoppedThreadDies, ListenerStep, ListenerRow
<1>4. CASE E!TakeChange \/ E!TakeReplaced
  <2>1. posted' = Tail(posted) /\ posted # <<>>
    BY <1>4 DEF E!TakeChange, E!TakeReplaced
  <2>2. posted' \in Seq(Kinds)
    BY <1>0, <2>1
  <2> QED
    BY <1>0, <2>2, <1>4 DEF E!TakeChange, E!TakeReplaced, ListenerStep, ListenerRow
<1>5. CASE E!TakeDying
  <2> DEFINE q == [n \in 1 .. Len(posted) - 1 |->
                     IF posted[n + 1] = "dying" THEN "replaced" ELSE posted[n + 1]]
  <2>1. q \in Seq(Kinds)
    BY <1>0, <1>5, QueueReplaced DEF E!TakeDying
  <2>2. posted' = E!Posted(q, "change")
    BY <1>5 DEF E!TakeDying, E!SyncEvent
  <2>3. posted' \in Seq(Kinds)
    BY <1>0, <1>p, <2>1, <2>2
  <2> HIDE DEF q
  <2> QED
    BY <1>0, <1>s, <2>3, <1>5 DEF E!TakeDying, E!Closed, E!Loop, ListenerStep, ListenerRow
<1>6. CASE E!ManageSubscriptions
  BY <1>0, <1>p, <1>s, <1>6
     DEF E!ManageSubscriptions, E!SyncEvent, E!Loop, ListenerStep, ListenerRow
<1>7. CASE E!CloseFails
  <2>1. chances' \in 0 .. MaxEvents
    BY <1>7, <1>f DEF E!CloseFails
  <2>2. listener' \in ListenerRow /\ listener'.at = "down"
    BY <1>7 DEF E!CloseFails, E!Started, ListenerRow
  <2>3. posted' \in Seq(Kinds)
    BY <1>7 DEF E!CloseFails
  <2> QED
    BY <1>7, <2>1, <2>2, <2>3 DEF E!CloseFails, E!Loop, ListenerStep
<1>8. CASE E!Respawn
  <2>1. posted' = E!Posted(<<>>, "change") /\ <<>> \in Seq(Kinds)
    BY <1>8 DEF E!Respawn, E!SyncEvent
  <2> QED
    <3>1. PICK b \in BOOLEAN : E!Subscribes(b) /\ listener' = E!Started(b)
      BY <1>8 DEF E!Respawn
    <3>2. listener' \in ListenerRow /\ listener'.at = "wait"
      BY <3>1 DEF E!Started, ListenerRow
    <3> QED
      BY <1>0, <1>p, <1>s, <2>1, <1>8, <3>1, <3>2 DEF E!Respawn, ListenerStep
<1> QED
  BY <1>1, <1>2, <1>3, <1>4, <1>5, <1>6, <1>7, <1>8

\* A download is on its way, or will be
Queued(e) == \E n \in DOMAIN posted : posted[n] = e
Pending ==
    \/ listener.stream \/ listener.changed \/ ~listener.subscribed \/ listener.at = "down"
    \/ listener.at = "sync" /\ list[Listener] = None
    \/ Queued("change") \/ Queued("dying")

\* A change is queued behind the end of a thread that was replaced
Replaced == \A n \in DOMAIN posted : posted[n] = "replaced" =>
    \E m \in DOMAIN posted : m > n /\ posted[m] = "change"

\* The listener, its threads and restarts lose no change
Reports == Replaced => Replaced' /\ (Pending => Pending')

LEMMA Posts ==
    ASSUME posted \in Seq(Kinds), Replaced,
           NEW e \in {"change", "dying"}, posted' = E!Posted(posted, e)
    PROVE  Replaced' /\ Queued(e)'
<1>1. e \in Kinds
  BY DEF Kinds
<1>2. /\ posted' \in Seq(Kinds) /\ Len(posted') \in Nat /\ Len(posted') > 0
      /\ posted'[Len(posted')] = e
      /\ Len(posted) <= Len(posted') /\ \A n \in 1 .. Len(posted) : posted'[n] = posted[n]
      /\ \A n \in 1 .. Len(posted') : n > Len(posted) => posted'[n] = e
  BY <1>1, PostedLast
<1>3. Len(posted) \in Nat /\ DOMAIN posted = 1 .. Len(posted) /\ DOMAIN posted' = 1 .. Len(posted')
  BY <1>2
<1>4. Queued(e)'
  BY <1>2, <1>3 DEF Queued
<1>5. ASSUME NEW n \in DOMAIN posted', posted'[n] = "replaced"
      PROVE  \E m \in DOMAIN posted' : m > n /\ posted'[m] = "change"
  <2>1. n \in 1 .. Len(posted)
    BY <1>2, <1>3, <1>5
  <2>2. PICK m \in 1 .. Len(posted) : m > n /\ posted[m] = "change"
    BY <1>2, <1>3, <1>5, <2>1 DEF Replaced
  <2> QED
    BY <1>2, <1>3, <2>2
<1> QED
  BY <1>4, <1>5 DEF Replaced

LEMMA PostsChange ==
    ASSUME NEW q \in Seq(Kinds), posted' = E!Posted(q, "change")
    PROVE  Replaced' /\ Queued("change")'
<1>0. "change" \in Kinds
  BY DEF Kinds
<1>1. \A e \in Kinds : LET s == E!Posted(q, e) IN
         s \in Seq(Kinds) /\ Len(s) \in Nat /\ Len(s) > 0 /\ s[Len(s)] = e
  BY PostedLast
<1>2. /\ posted' \in Seq(Kinds) /\ Len(posted') \in Nat /\ Len(posted') > 0
      /\ posted'[Len(posted')] = "change"
  BY <1>0, <1>1
<1>3. DOMAIN posted' = 1 .. Len(posted')
  BY <1>2
<1>4. \A n \in DOMAIN posted' : posted'[n] = "replaced" => Len(posted') > n
  BY <1>2, <1>3
<1>5. Len(posted') \in DOMAIN posted'
  BY <1>2, <1>3
<1> QED
  BY <1>2, <1>4, <1>5 DEF Replaced, Queued

LEMMA Takes ==
    ASSUME posted \in Seq(Kinds), posted # <<>>, posted' = Tail(posted), Replaced
    PROVE  Replaced' /\ (Head(posted) = "replaced" => Queued("change")')
<1>1. /\ DOMAIN posted = 1 .. Len(posted) /\ Len(posted) \in Nat /\ Len(posted) > 0
      /\ DOMAIN posted' = 1 .. Len(posted) - 1
      /\ \A n \in 1 .. Len(posted) - 1 : posted'[n] = posted[n + 1]
      /\ Head(posted) = posted[1]
  OBVIOUS
<1>2. ASSUME NEW n \in 1 .. Len(posted), posted[n] = "replaced"
      PROVE  \E m \in 1 .. Len(posted) - 1 : m > n - 1 /\ posted'[m] = "change"
  <2>1. PICK m \in 1 .. Len(posted) : m > n /\ posted[m] = "change"
    BY <1>1, <1>2 DEF Replaced
  <2>2. m - 1 \in 1 .. Len(posted) - 1 /\ m - 1 > n - 1 /\ posted'[m - 1] = posted[m - 1 + 1]
    BY <1>1, <2>1
  <2>3. m - 1 + 1 = m
    BY <2>1
  <2> QED
    BY <2>1, <2>2, <2>3
<1>3. ASSUME Head(posted) = "replaced" PROVE Queued("change")'
  <2>1. 1 \in 1 .. Len(posted) /\ posted[1] = "replaced"
    BY <1>1, <1>3
  <2>2. \E m \in DOMAIN posted' : posted'[m] = "change"
    BY <1>1, <1>2, <2>1
  <2> QED
    BY <2>2 DEF Queued
<1>4. ASSUME NEW n \in 1 .. Len(posted) - 1, posted'[n] = "replaced"
      PROVE  \E m \in 1 .. Len(posted) - 1 : m > n /\ posted'[m] = "change"
  <2>1. n + 1 \in 1 .. Len(posted) /\ posted[n + 1] = "replaced"
    BY <1>1, <1>4
  <2>2. n + 1 - 1 = n
    BY <1>4
  <2> QED
    BY <1>2, <2>1, <2>2
<1> QED
  BY <1>1, <1>3, <1>4 DEF Replaced

LEMMA ListenerReports ==
    ASSUME Base,
           \/ E!Deliver \/ E!ThreadDies \/ E!IdleThreadDies \/ E!StoppedThreadDies
           \/ E!TakeChange \/ E!TakeDying \/ E!TakeReplaced \/ E!ManageSubscriptions
           \/ E!CloseFails \/ E!Respawn
    PROVE  Reports
<1> SUFFICES ASSUME Replaced PROVE Replaced' /\ Pending'
  BY DEF Reports
<1>0. listener \in ListenerRow /\ posted \in Seq(Kinds)
  BY DEF Base, ExchangeTypes
<1>1. CASE E!Deliver
  BY <1>0, <1>1, Posts DEF E!Deliver, Pending
<1>2. CASE E!ThreadDies \/ E!IdleThreadDies \/ E!StoppedThreadDies
  <2>1. posted' = E!Posted(posted, "dying")
    BY <1>2 DEF E!ThreadDies, E!IdleThreadDies, E!StoppedThreadDies, E!ThreadEnds
  <2> QED
    BY <1>0, <2>1, Posts DEF Pending
<1>3. CASE E!TakeChange
  <2>1. posted # <<>> /\ posted' = Tail(posted) /\ listener' = [listener EXCEPT !.changed = TRUE]
    BY <1>3 DEF E!TakeChange
  <2>2. listener'.changed
    BY <1>0, <2>1 DEF ListenerRow
  <2> QED
    BY <1>0, <2>1, <2>2, Takes DEF Pending
<1>4. CASE E!TakeReplaced
  <2>1. posted # <<>> /\ posted' = Tail(posted) /\ Head(posted) = "replaced"
    BY <1>4 DEF E!TakeReplaced
  <2> QED
    BY <1>0, <2>1, Takes DEF Pending
<1>5. CASE E!TakeDying
  <2> DEFINE q == [n \in 1 .. Len(posted) - 1 |->
                     IF posted[n + 1] = "dying" THEN "replaced" ELSE posted[n + 1]]
  <2>0. posted' = E!Posted(q, "change") /\ posted # <<>>
    BY <1>5 DEF E!TakeDying, E!SyncEvent
  <2>1. q \in Seq(Kinds)
    BY <1>0, <2>0, QueueReplaced
  <2> HIDE DEF q
  <2> QED
    BY <2>0, <2>1, PostsChange DEF Pending
<1>6. CASE E!ManageSubscriptions
  <2>1. posted' = E!Posted(posted, "change")
    BY <1>6 DEF E!ManageSubscriptions, E!SyncEvent
  <2> QED
    BY <1>0, <2>1, Posts DEF Pending
<1>7. CASE E!CloseFails
  <2>1. posted' = <<>> /\ listener'.at = "down"
    BY <1>7 DEF E!CloseFails, E!Started
  <2>2. DOMAIN posted' = {}
    BY <2>1
  <2> QED
    BY <2>1, <2>2 DEF Pending, Replaced
<1>8. CASE E!Respawn
  <2>1. posted' = E!Posted(<<>>, "change") /\ <<>> \in Seq(Kinds)
    BY <1>8 DEF E!Respawn, E!SyncEvent
  <2> QED
    BY <2>1, PostsChange DEF Pending
<1> QED
  BY <1>1, <1>2, <1>3, <1>4, <1>5, <1>6, <1>7, <1>8

LEMMA BaseListener == ASSUME Base, ListenerStep PROVE Base'
BY DEF Base, ListenerStep, ExchangeTypes, Timing, Locks, Meant

\* An item changes, and the listener is notified if it has subscribed
ItemStep(i, row) ==
    /\ i \in Item /\ row \in E!ItemRow /\ row.state # "none" /\ Timed(row)
    /\ items' = [items EXCEPT ![i] = [row EXCEPT !.key = items[i].key + 1]]
    /\ listener' = [listener EXCEPT !.stream = listener.subscribed]

\* A user of the calendar changes one
UserStep(i, row) ==
    /\ ItemStep(i, row)
    /\ \/ E!NextItem(i) /\ row.state = "there" /\ row.by = "calendar"
       \/ E!There(i) /\ row.by = items[i].by
    /\ chances' \in 0 .. MaxEvents
    /\ UNCHANGED <<reservations, links, held, tx, list, posted, orphans, moved>>

LEMMA UserSteps ==
    ASSUME Base, E!Meet \/ E!MoveItem \/ E!DeleteItem
    PROVE  \E i \in Item, row \in E!ItemRow : UserStep(i, row)
<1>0. items \in Items /\ \A i \in Item : items[i] \in E!ItemRow /\ Timed(items[i])
  BY DEF Base, ExchangeTypes, Timing, Items
<1>s. E!Spend => chances' \in 0 .. MaxEvents
  BY DEF Base, ExchangeTypes, E!Spend
<1>1. CASE E!Meet
  <2>1. PICK i \in Item, t \in Time :
             /\ E!NextItem(i)
             /\ E!UserChanges(i, [state |-> "there", time |-> t, key |-> 0, by |-> "calendar"])
    BY <1>1 DEF E!Meet
  <2> DEFINE row == [state |-> "there", time |-> t, key |-> 0, by |-> "calendar"]
  <2>2. row \in E!ItemRow /\ Timed(row) /\ row.state = "there" /\ row.by = "calendar"
    BY DEF E!ItemRow, Timed
  <2> HIDE DEF row
  <2>3. E!NextItem(i) /\ E!UserChanges(i, row)
    BY <2>1 DEF row
  <2> QED
    BY <1>s, <2>2, <2>3 DEF UserStep, ItemStep, E!UserChanges, E!Changes
<1>2. CASE E!MoveItem
  <2>1. PICK i \in Item, t \in Time : E!There(i) /\ E!UserChanges(i, [items[i] EXCEPT !.time = t])
    BY <1>2 DEF E!MoveItem
  <2> DEFINE row == [items[i] EXCEPT !.time = t]
  <2>2. row \in E!ItemRow /\ Timed(row) /\ row.state = "there" /\ row.by = items[i].by
    BY <1>0, <2>1 DEF E!ItemRow, Timed, E!There
  <2> HIDE DEF row
  <2>3. E!UserChanges(i, row)
    BY <2>1 DEF row
  <2> QED
    BY <1>s, <2>1, <2>2, <2>3 DEF UserStep, ItemStep, E!UserChanges, E!Changes
<1>3. CASE E!DeleteItem
  <2>1. PICK i \in Item : E!There(i) /\ E!UserChanges(i, [items[i] EXCEPT !.state = "gone"])
    BY <1>3 DEF E!DeleteItem
  <2> DEFINE row == [items[i] EXCEPT !.state = "gone"]
  <2>2. row \in E!ItemRow /\ Timed(row) /\ row.state = "gone" /\ row.by = items[i].by
    BY <1>0, <2>1 DEF E!ItemRow, Timed, E!There
  <2> HIDE DEF row
  <2>3. E!UserChanges(i, row)
    BY <2>1 DEF row
  <2> QED
    BY <1>s, <2>1, <2>2, <2>3 DEF UserStep, ItemStep, E!UserChanges, E!Changes
<1> QED
  BY <1>1, <1>2, <1>3

\* What an item's change does to the items
LEMMA ItemChanged ==
    ASSUME Base, NEW i \in Item, NEW row \in E!ItemRow, ItemStep(i, row)
    PROVE  /\ items' \in Items /\ listener' \in ListenerRow /\ listener'.at = listener.at
           /\ items'[i].state = row.state /\ items'[i].time = row.time /\ items'[i].by = row.by
           /\ items'[i].key = items[i].key + 1
           /\ items[i].key \in Nat
           /\ \A j \in Item \ {i} : items'[j] = items[j]
           /\ \A j \in Item : Timed(items'[j])
<1>1. items \in Items /\ listener \in ListenerRow /\ \A j \in Item : Timed(items[j])
  BY DEF Base, ExchangeTypes, Timing
<1>2. listener' \in ListenerRow /\ listener'.at = listener.at
  BY <1>1 DEF ItemStep, ListenerRow
<1> DEFINE new == [row EXCEPT !.key = items[i].key + 1]
<1>3. items[i].key \in Nat
  BY <1>1 DEF Items, E!ItemRow
<1>4. /\ new \in E!ItemRow /\ new.state = row.state /\ new.time = row.time /\ new.by = row.by
      /\ new.key = items[i].key + 1
  BY <1>3 DEF E!ItemRow
<1>5. items' = [items EXCEPT ![i] = new] /\ Timed(row)
  BY DEF ItemStep
<1> HIDE DEF new
<1>6. items' \in Items /\ items'[i] = new /\ \A j \in Item \ {i} : items'[j] = items[j]
  BY <1>1, <1>4, <1>5 DEF Items
<1>7. Timed(new)
  BY <1>4, <1>5 DEF Timed
<1> QED
  BY <1>1, <1>2, <1>3, <1>4, <1>6, <1>7

LEMMA BaseUser ==
    ASSUME Base, NEW i \in Item, NEW row \in E!ItemRow, UserStep(i, row) PROVE Base'
<1>1. ItemStep(i, row)
  BY DEF UserStep
<1> QED
  BY <1>1, ItemChanged DEF Base, UserStep, ExchangeTypes, Timing, Locks, Meant

\* Transactions of others stay as they are
TxOf(p) == tx' \in [Request -> TxRow] /\ \A q \in Request \ {p} : tx'[q] = tx[q]

\* A request begins: it creates a row, or changes one
BeginStep(p) ==
    /\ TxOf(p) /\ Meant(tx'[p])
    /\ tx[p].at = "idle" /\ tx'[p].at = "save"
    /\ chances' \in 0 .. MaxEvents
    /\ UNCHANGED <<reservations, links, items, held, list, listener, posted, orphans, moved>>

SaveStep(p) ==
    /\ TxOf(p) /\ Meant(tx'[p])
    /\ tx[p].at = "save" /\ tx'[p].at = "saved"
    /\ tx'[p].r = tx[p].r /\ tx'[p].row = tx[p].row /\ tx'[p].todo = tx[p].todo
    /\ UNCHANGED <<reservations, links, items, held, list, listener, posted, chances, orphans, moved>>

LockStep(p) ==
    /\ TxOf(p) /\ Meant(tx'[p])
    /\ tx[p].at = "saved" /\ tx'[p].at = "upload" /\ held = None /\ held' = p
    /\ tx'[p].r = tx[p].r /\ tx'[p].row = tx[p].row /\ tx'[p].todo = tx[p].todo
    /\ tx'[p].link = links[tx[p].r]
    /\ UNCHANGED <<reservations, links, items, list, listener, posted, chances, orphans, moved>>

LEMMA BeginSteps ==
    ASSUME Base, NEW p \in Request, E!Post(p) \/ E!Put(p) \/ E!Edit(p) \/ E!Cancel(p)
    PROVE  BeginStep(p)
<1>0. /\ tx \in [Request -> TxRow] /\ reservations \in [ExchangeRows -> E!ResvRow]
      /\ \A r \in ExchangeRows : Timed(reservations[r])
  BY DEF Base, ExchangeTypes, Timing
<1>1. ASSUME NEW r \in ExchangeRows, NEW row \in E!ResvRow, NEW todo \in Seq(Saves),
             E!Begin(p, r, row, todo), row.state # "none", Timed(row),
             todo # <<>>, Len(todo) <= 2
      PROVE  BeginStep(p)
  <2> DEFINE t == [at |-> "save", r |-> r, row |-> row, link |-> E!NoLink, todo |-> todo]
  <2>1. t \in TxRow /\ Meant(t) /\ t.at = "save" /\ t.r = r /\ t.todo = todo
    BY <1>1 DEF TxRow, Meant, E!NoLink, E!LinkRow
  <2> HIDE DEF t
  <2>2. tx' = [tx EXCEPT ![p] = t]
    BY <1>1 DEF E!Begin, t
  <2>3. tx'[p] = t /\ TxOf(p)
    BY <1>0, <2>1, <2>2 DEF TxOf
  <2>4. chances' \in 0 .. MaxEvents
    BY <1>1 DEF E!Begin, E!Spend, Base, ExchangeTypes
  <2> QED
    BY <1>1, <2>1, <2>3, <2>4 DEF E!Begin, BeginStep
<1>2. CASE E!Post(p)
  <2>1. PICK r \in ExchangeRows, t \in Time, s \in {"requested", "confirmed"} :
          /\ E!Free(r)
          /\ E!Begin(p, r, [state |-> "created", time |-> t], <<"created", s>>)
    BY <1>2 DEF E!Post
  <2> DEFINE row == [state |-> "created", time |-> t]
             todo == <<"created", s>>
  <2>2. row \in E!ResvRow /\ row.state # "none" /\ Timed(row)
    BY DEF E!ResvRow, E!ReservationState, Timed
  <2>3. todo \in Seq(Saves) /\ Len(todo) <= 2 /\ todo # <<>>
    BY DEF Saves, E!ReservationState
  <2> HIDE DEF row, todo
  <2>4. E!Begin(p, r, row, todo)
    BY <2>1 DEF row, todo
  <2> QED
    BY <1>1, <2>2, <2>3, <2>4
<1>3. CASE E!Put(p)
  <2>1. PICK r \in ExchangeRows, t \in Time,
             s \in {"requested", "confirmed", "denied", "waiting"} :
          /\ reservations[r].state \in {"created", "requested", "confirmed", "denied"}
          /\ E!Begin(p, r, [reservations[r] EXCEPT !.time = t],
                     IF s = reservations[r].state /\ s # "denied"
                     THEN <<s>> ELSE <<reservations[r].state, s>>)
    BY <1>3 DEF E!Put
  <2> DEFINE was == reservations[r].state
             row == [reservations[r] EXCEPT !.time = t]
             todo == IF s = was /\ s # "denied" THEN <<s>> ELSE <<was, s>>
  <2>2. row \in E!ResvRow /\ row.state = was /\ Timed(row) /\ was # "none"
    BY <1>0, <2>1 DEF E!ResvRow, Timed
  <2>3. was \in Saves /\ s \in Saves
    BY <2>1 DEF Saves, E!ReservationState
  <2>4. todo \in Seq(Saves) /\ Len(todo) <= 2 /\ todo # <<>>
    <3> HIDE DEF was
    <3>1. /\ <<s>> \in Seq(Saves) /\ Len(<<s>>) = 1 /\ <<s>> # <<>>
          /\ <<was, s>> \in Seq(Saves) /\ Len(<<was, s>>) = 2 /\ <<was, s>> # <<>>
      BY <2>3
    <3> QED
      BY <3>1
  <2> HIDE DEF row, todo
  <2>5. E!Begin(p, r, row, todo)
    BY <2>1 DEF row, todo
  <2> QED
    BY <1>1, <2>2, <2>4, <2>5
<1>4. CASE E!Cancel(p)
  <2>1. PICK r \in ExchangeRows :
          /\ reservations[r].state \notin {"none", "cancelled"}
          /\ E!Begin(p, r, reservations[r], <<"cancelled">>)
    BY <1>4 DEF E!Cancel
  <2> DEFINE todo == <<"cancelled">>
  <2>2. todo \in Seq(Saves) /\ Len(todo) <= 2 /\ todo # <<>>
    BY DEF Saves, E!ReservationState
  <2>3. todo = <<"cancelled">>
    OBVIOUS
  <2> HIDE DEF todo
  <2>4. E!Begin(p, r, reservations[r], todo)
    BY <2>1, <2>3
  <2>5. reservations[r] \in E!ResvRow /\ Timed(reservations[r])
    BY <1>0
  <2> QED
    BY <1>1, <2>1, <2>2, <2>3, <2>4, <2>5
<1>5. CASE E!Edit(p)
  <2>1. PICK r \in ExchangeRows, row \in [state : Saves, time : Time] :
          E!Begin(p, r, row, <<row.state>>)
    BY <1>5 DEF E!Edit, Saves
  <2> DEFINE todo == <<row.state>>
  <2>2. row.state \in Saves /\ row.state # "none" /\ row \in E!ResvRow /\ Timed(row)
    BY DEF Saves, E!ResvRow, Timed
  <2>3. todo \in Seq(Saves) /\ Len(todo) <= 2 /\ todo # <<>>
    BY <2>2
  <2> HIDE DEF todo
  <2>4. E!Begin(p, r, row, todo)
    BY <2>1 DEF todo
  <2> QED
    BY <1>1, <2>2, <2>3, <2>4
<1> QED
  BY <1>2, <1>3, <1>4, <1>5

LEMMA SaveSteps ==
    ASSUME Base, NEW p \in Request, E!Save(p)
    PROVE  SaveStep(p)
<1>0. tx \in [Request -> TxRow] /\ Meant(tx[p])
  BY DEF Base, ExchangeTypes, Timing
<1>1. tx[p].at = "save" /\ tx' = [tx EXCEPT ![p].at = "saved"]
  BY DEF E!Save
<1>2. /\ TxOf(p) /\ tx'[p].at = "saved"
      /\ tx'[p].r = tx[p].r /\ tx'[p].row = tx[p].row /\ tx'[p].todo = tx[p].todo
      /\ tx'[p].link = tx[p].link
  BY <1>0, <1>1 DEF TxOf, TxRow
<1>3. Meant(tx'[p])
  BY <1>0, <1>1, <1>2 DEF Meant
<1> QED
  BY <1>1, <1>2, <1>3 DEF SaveStep, E!Save

LEMMA LockSteps ==
    ASSUME Base, NEW p \in Request, E!LockCalendar(p)
    PROVE  LockStep(p)
<1>0. tx \in [Request -> TxRow] /\ Meant(tx[p]) /\ links \in [ExchangeRows -> E!LinkRow]
  BY DEF Base, ExchangeTypes, Timing
<1>1. /\ tx[p].at = "saved" /\ held = None
      /\ tx' = [tx EXCEPT ![p].at = "upload", ![p].link = links[tx[p].r]]
  BY DEF E!LockCalendar, E!CalendarFree
<1>2. links[tx[p].r] \in E!LinkRow
  BY <1>0, <1>1 DEF Meant
<1>3. /\ TxOf(p) /\ tx'[p].at = "upload"
      /\ tx'[p].r = tx[p].r /\ tx'[p].row = tx[p].row /\ tx'[p].todo = tx[p].todo
      /\ tx'[p].link = links[tx[p].r]
  BY <1>0, <1>1, <1>2 DEF TxOf, TxRow
<1>4. Meant(tx'[p])
  BY <1>0, <1>1, <1>3 DEF Meant
<1> QED
  BY <1>1, <1>3, <1>4 DEF LockStep, E!LockCalendar

\* One save of an upload is done, and leaves this link
SavedStep(p, link) ==
    /\ TxOf(p) /\ Meant(tx'[p])
    /\ tx[p].at = "upload" /\ tx'[p].at = "upload" /\ tx'[p].r = tx[p].r /\ ~E!Twice(p)
    /\ tx[p].todo # <<>> /\ tx'[p].todo = Tail(tx[p].todo)
    /\ tx'[p].row.state = Head(tx[p].todo) /\ tx'[p].row.time = tx[p].row.time
    /\ tx'[p].link = link
    /\ UNCHANGED <<reservations, links, held, list, posted, chances, orphans, moved>>

\* The item is not there to be changed, and need not be
NothingStep(p) ==
    /\ SavedStep(p, tx[p].link) /\ UNCHANGED <<items, listener>>
    /\ E!Own(p) = None /\ Head(tx[p].todo) # "confirmed"

CreateStep(p, i) ==
    /\ SavedStep(p, [item |-> i, key |-> 1, managed |-> FALSE])
    /\ E!Own(p) = None /\ Head(tx[p].todo) = "confirmed" /\ E!NextItem(i)
    /\ \E row \in E!ItemRow : ItemStep(i, row) /\ row.state = "there" /\ row.by = "Respa"
                              /\ row.time = tx[p].row.time

UpdateStep(p, i) ==
    /\ SavedStep(p, [tx[p].link EXCEPT !.key = items[i].key + 1])
    /\ E!Own(p) = i /\ E!There(i) /\ Head(tx[p].todo) \notin {"denied", "cancelled"}
    /\ \E row \in E!ItemRow : ItemStep(i, row) /\ row.state = "there" /\ row.by = items[i].by
                              /\ row.time = tx[p].row.time

DeleteStep(p, i) ==
    /\ SavedStep(p, E!NoLink)
    /\ E!Own(p) = i /\ Head(tx[p].todo) \in {"denied", "cancelled"}
    /\ \/ E!There(i) /\ \E row \in E!ItemRow : ItemStep(i, row) /\ row.state = "gone"
                                               /\ row.by = items[i].by
       \/ ~E!There(i) /\ UNCHANGED <<items, listener>>

UploadStep(p) ==
    \/ NothingStep(p)
    \/ \E i \in Item : CreateStep(p, i) \/ UpdateStep(p, i) \/ DeleteStep(p, i)

LEMMA SavedSteps ==
    ASSUME Base, NEW p \in Request, NEW link \in E!LinkRow, E!SavedAs(p, link),
           tx[p].at = "upload", tx[p].todo # <<>>, ~E!Twice(p),
           UNCHANGED <<reservations, links, held, list, posted, chances, orphans, moved>>
    PROVE  SavedStep(p, link)
<1>0. tx \in [Request -> TxRow] /\ Meant(tx[p]) /\ tx[p] \in TxRow
  BY DEF Base, ExchangeTypes, Timing
<1> DEFINE t == [tx[p] EXCEPT !.row.state = Head(tx[p].todo), !.todo = Tail(tx[p].todo),
                              !.link = link]
<1>1. tx' = [tx EXCEPT ![p] = t]
  BY <1>0 DEF E!SavedAs
<1>2. /\ Head(tx[p].todo) \in Saves /\ Tail(tx[p].todo) \in Seq(Saves)
      /\ Len(Tail(tx[p].todo)) = Len(tx[p].todo) - 1
  <2>1. tx[p].todo \in Seq(Saves)
    BY <1>0 DEF TxRow
  <2> QED
    BY <2>1, TodoTail
<1>3. tx[p].row \in E!ResvRow
  BY <1>0 DEF TxRow
<1>4. /\ t.at = "upload" /\ t.r = tx[p].r /\ t.todo = Tail(tx[p].todo) /\ t.link = link
      /\ t.row.state = Head(tx[p].todo) /\ t.row.time = tx[p].row.time /\ t.row \in E!ResvRow
  BY <1>0, <1>2, <1>3 DEF TxRow, E!ResvRow, Saves
<1>5. t \in TxRow
  BY <1>0, <1>2, <1>4 DEF TxRow
<1>6. Meant(t)
  <2>1. Len(tx[p].todo) <= 2 /\ Len(tx[p].todo) \in Nat
    BY <1>0 DEF Meant, TxRow
  <2>2. t.row.state # "none" /\ Timed(t.row) /\ t.r \in ExchangeRows
    BY <1>0, <1>2, <1>4 DEF Meant, Saves, Timed
  <2>3. Len(t.todo) <= 2
    BY <1>2, <1>4, <2>1
  <2> HIDE DEF t
  <2> QED
    BY <1>4, <2>2, <2>3 DEF Meant
<1> HIDE DEF t
<1>7. tx'[p] = t /\ TxOf(p)
  BY <1>0, <1>1, <1>5 DEF TxOf
<1> QED
  BY <1>4, <1>6, <1>7 DEF SavedStep

LEMMA UploadSteps ==
    ASSUME Base, NEW p \in Request, E!Upload(p)
    PROVE  UploadStep(p)
<1>0. /\ tx[p] \in TxRow /\ items \in Items /\ Meant(tx[p])
      /\ tx[p].row \in E!ResvRow /\ tx[p].link \in E!LinkRow
      /\ \A i \in Item : items[i] \in E!ItemRow /\ Timed(items[i])
  BY DEF Base, ExchangeTypes, Timing, TxRow, Items
<1>1. /\ tx[p].at = "upload" /\ tx[p].todo # <<>> /\ ~E!Twice(p)
      /\ UNCHANGED <<reservations, links, held, list, posted, chances, orphans, moved>>
  BY DEF E!Upload
<1>2. tx[p].row.time \in Time
  BY <1>0, <1>1 DEF Meant, Timed
<1>3. E!Own(p) \in Item \cup {None}
  BY <1>0 DEF E!Own, E!LinkRow
<1>4. CASE E!CreateOnRemote(p)
  <2>1. E!Own(p) = None
    BY <1>4 DEF E!CreateOnRemote
  <2>2. CASE Head(tx[p].todo) # "confirmed"
    <3>1. E!SavedAs(p, tx[p].link) /\ UNCHANGED <<items, listener>>
      BY <1>4, <2>2 DEF E!CreateOnRemote
    <3>2. SavedStep(p, tx[p].link)
      BY <1>0, <1>1, <3>1, SavedSteps
    <3> QED
      BY <2>1, <2>2, <3>1, <3>2 DEF UploadStep, NothingStep
  <2>3. CASE Head(tx[p].todo) = "confirmed"
    <3> DEFINE row == [state |-> "there", time |-> tx[p].row.time, key |-> 0, by |-> "Respa"]
               link(i) == [item |-> i, key |-> 1, managed |-> FALSE]
    <3>1. PICK i \in Item : E!NextItem(i) /\ E!Changes(i, row) /\ E!SavedAs(p, link(i))
      BY <1>4, <2>3 DEF E!CreateOnRemote
    <3>2. row \in E!ItemRow /\ row.state = "there" /\ row.by = "Respa" /\ row.time = tx[p].row.time
          /\ Timed(row)
      BY <1>2 DEF E!ItemRow, Timed
    <3>3. link(i) \in E!LinkRow
      BY DEF E!LinkRow
    <3> HIDE DEF row
    <3>4. SavedStep(p, link(i))
      BY <1>1, <3>1, <3>3, SavedSteps
    <3>5. ItemStep(i, row)
      BY <3>1, <3>2 DEF ItemStep, E!Changes
    <3>6. CreateStep(p, i)
      BY <2>1, <2>3, <3>1, <3>2, <3>4, <3>5 DEF CreateStep
    <3> QED
      BY <3>6 DEF UploadStep
  <2> QED
    BY <2>2, <2>3
<1>5. CASE E!UpdateOnRemote(p)
  <2> DEFINE i == E!Own(p)
             row == [items[i] EXCEPT !.time = tx[p].row.time]
             link == [tx[p].link EXCEPT !.key = items[i].key + 1]
  <2>1. /\ E!Own(p) # None /\ E!There(i) /\ Head(tx[p].todo) \notin {"denied", "cancelled"}
        /\ E!Changes(i, row) /\ E!SavedAs(p, link)
    BY <1>5 DEF E!UpdateOnRemote
  <2>2. i \in Item
    BY <1>3, <2>1
  <2>3. row \in E!ItemRow /\ row.state = "there" /\ row.by = items[i].by
        /\ row.time = tx[p].row.time /\ Timed(row)
    BY <1>0, <1>2, <2>1, <2>2 DEF E!ItemRow, Timed, E!There
  <2>4. link \in E!LinkRow
    BY <1>0, <2>2 DEF E!LinkRow, E!ItemRow
  <2> HIDE DEF row, i
  <2>5. SavedStep(p, link)
    BY <1>1, <2>1, <2>4, SavedSteps
  <2>6. ItemStep(i, row)
    BY <2>1, <2>2, <2>3 DEF ItemStep, E!Changes
  <2>7. UpdateStep(p, i)
    BY <2>1, <2>3, <2>5, <2>6 DEF UpdateStep, i
  <2> QED
    BY <2>2, <2>7 DEF UploadStep
<1>6. CASE E!DeleteOnRemote(p)
  <2> DEFINE i == E!Own(p)
             row == [items[i] EXCEPT !.state = "gone"]
  <2>1. /\ E!Own(p) # None /\ Head(tx[p].todo) \in {"denied", "cancelled"}
        /\ IF E!There(i) THEN E!Changes(i, row) ELSE UNCHANGED <<items, listener>>
        /\ E!SavedAs(p, E!NoLink)
    BY <1>6 DEF E!DeleteOnRemote
  <2>2. i \in Item
    BY <1>3, <2>1
  <2>3. E!There(i) => row \in E!ItemRow /\ row.state = "gone" /\ row.by = items[i].by /\ Timed(row)
    BY <1>0, <2>2 DEF E!ItemRow, Timed, E!There
  <2>4. E!NoLink \in E!LinkRow
    BY DEF E!LinkRow, E!NoLink
  <2> HIDE DEF row, i
  <2>5. SavedStep(p, E!NoLink)
    BY <1>1, <2>1, <2>4, SavedSteps
  <2>6. E!There(i) => ItemStep(i, row)
    BY <2>1, <2>2, <2>3 DEF ItemStep, E!Changes
  <2>7. DeleteStep(p, i)
    BY <2>1, <2>3, <2>5, <2>6 DEF DeleteStep, i
  <2> QED
    BY <2>2, <2>7 DEF UploadStep
<1> QED
  BY <1>4, <1>5, <1>6 DEF E!Upload

\* The end of a request
EndOf(p) == TxOf(p) /\ tx'[p] = E!NoTx

CommitStep(p) ==
    /\ EndOf(p) /\ tx[p].at = "upload" /\ tx[p].todo = <<>> /\ held = p /\ held' = None
    /\ reservations' = [reservations EXCEPT ![tx[p].r] = tx[p].row]
    /\ links' = [links EXCEPT ![tx[p].r] = tx[p].link]
    /\ ~E!Twice(p) /\ moved' = moved \cup IF E!Moves(p) THEN {tx[p].r} ELSE {}
    /\ UNCHANGED <<items, list, listener, posted, chances, orphans>>

RollbackStep(p) ==
    /\ EndOf(p) /\ tx[p].at \in {"saved", "upload"}
    /\ held' = IF tx[p].at = "upload" THEN None ELSE held
    /\ orphans' = orphans \cup {i \in Item : tx[p].link.item = i /\ links[tx[p].r].item # i}
    /\ chances' \in 0 .. MaxEvents
    /\ UNCHANGED <<reservations, links, items, list, listener, posted, moved>>

LEMMA NoTxMeant == E!NoTx \in TxRow /\ Meant(E!NoTx) /\ E!NoTx.at = "idle" /\ E!NoTx.link = E!NoLink
BY DEF E!NoTx, TxRow, Meant, E!NoResv, E!NoLink, E!ResvRow, E!LinkRow, E!ReservationState

LEMMA Ends ==
    ASSUME Base, NEW p \in Request, tx' = [tx EXCEPT ![p] = E!NoTx]
    PROVE  EndOf(p)
BY NoTxMeant DEF Base, ExchangeTypes, EndOf, TxOf

LEMMA CommitSteps ==
    ASSUME Base, NEW p \in Request, E!CommitRequest(p)
    PROVE  CommitStep(p)
<1>1. tx' = [tx EXCEPT ![p] = E!NoTx] /\ tx[p].at = "upload"
  BY DEF E!CommitRequest
<1>2. held = p
  BY <1>1 DEF Base, Locks
<1>3. held' = None
  BY <1>2 DEF E!CommitRequest, E!Unlocked
<1> QED
  BY <1>1, <1>2, <1>3, Ends DEF E!CommitRequest, CommitStep

LEMMA RollbackSteps ==
    ASSUME Base, NEW p \in Request, E!Rollback(p), tx[p].at \in {"saved", "upload"},
           chances' \in 0 .. MaxEvents
    PROVE  RollbackStep(p)
<1>1. held' = IF tx[p].at = "upload" THEN None ELSE held
  BY DEF E!Rollback, E!Unlocked, Base, Locks
<1> QED
  BY <1>1, Ends DEF E!Rollback, RollbackStep

LEMMA FailureSteps ==
    ASSUME Base, NEW p \in Request, E!RequestFails(p) \/ E!UpdateFails(p) \/ E!LinkFails(p)
    PROVE  RollbackStep(p)
<1>1. E!Rollback(p) /\ tx[p].at = "upload"
  BY DEF E!RequestFails, E!UpdateFails, E!LinkFails
<1>2. chances' \in 0 .. MaxEvents
  BY DEF E!RequestFails, E!UpdateFails, E!LinkFails, E!Fault, E!Spend, Base, ExchangeTypes
<1> QED
  BY <1>1, <1>2, RollbackSteps

\* A download has the lock: a command, or the listener that has seen a change
GrabStep(d) ==
    /\ d \in Download /\ held = None /\ held' = d
    /\ \/ d # Listener /\ UNCHANGED listener
       \/ d = Listener /\ listener'.at = "sync"
    /\ listener' \in ListenerRow /\ chances' \in 0 .. MaxEvents
    /\ UNCHANGED <<reservations, links, items, tx, list, posted, orphans, moved>>

FindStep(d) ==
    /\ d \in Download /\ held = d /\ list[d] = None
    /\ list' = [list EXCEPT ![d] = items]
    /\ UNCHANGED <<reservations, links, items, held, tx, listener, posted, chances, orphans, moved>>

\* A download dies, and with the listener its subscription
DieStep(d) ==
    /\ d \in Download /\ held = d /\ held' = None /\ list' = [list EXCEPT ![d] = None]
    /\ listener' \in ListenerRow /\ listener'.at # "sync"
    /\ IF d = Listener THEN ~listener'.subscribed /\ posted' = <<>>
       ELSE UNCHANGED <<listener, posted>>
    /\ chances' \in 0 .. MaxEvents
    /\ UNCHANGED <<reservations, links, items, tx, orphans, moved>>

\* What a download makes of a row
Deleted(r) == reservations'[r] = E!NoResv /\ links'[r] = E!NoLink
Refreshed(d, r) ==
    /\ reservations'[r] = [reservations[r] EXCEPT !.time = list[d][links[r].item].time]
    /\ links'[r] = [links[r] EXCEPT !.key = list[d][links[r].item].key]
Imports(d, r, i) ==
    /\ reservations'[r] = [state |-> "created", time |-> list[d][i].time]
    /\ links'[r] = [item |-> i, key |-> list[d][i].key, managed |-> TRUE]
Kept(r) == reservations'[r] = reservations[r] /\ links'[r] = links[r]

\* new: the rows of the unknown items
ApplyStep(d, new) ==
    /\ d \in Download /\ held = d /\ list[d] # None
    /\ held' = None /\ list' = [list EXCEPT ![d] = None]
    /\ new \in E!RowChoices(d)
    /\ reservations' = [r \in ExchangeRows |-> reservations'[r]]
    /\ links' = [r \in ExchangeRows |-> links'[r]]
    /\ \A r \in E!Obsolete(d) : Deleted(r)
    /\ \A r \in E!Outdated(d) \ E!Obsolete(d) : Refreshed(d, r)
    /\ \A i \in E!Unknown(d) :
          new[i] \notin E!Obsolete(d) \cup E!Outdated(d) => Imports(d, new[i], i)
    /\ \A r \in ExchangeRows \ (E!Obsolete(d) \cup E!Outdated(d)) :
          (\A i \in E!Unknown(d) : new[i] # r) => Kept(r)
    /\ listener' = IF d = Listener THEN [listener EXCEPT !.at = "wait"] ELSE listener
    /\ moved' = moved \ (E!Obsolete(d) \cup E!Outdated(d))
    /\ UNCHANGED <<items, tx, posted, chances, orphans>>

LEMMA GrabSteps ==
    ASSUME Base, NEW d \in Download, E!Command(d) \/ (d = Listener /\ E!Sync)
    PROVE  GrabStep(d)
<1>0. listener \in ListenerRow /\ chances \in 0 .. MaxEvents
  BY DEF Base, ExchangeTypes
<1>1. CASE E!Command(d)
  BY <1>0, <1>1 DEF E!Command, E!Spend, E!CalendarFree, GrabStep
<1>2. CASE d = Listener /\ E!Sync
  <2>1. listener' \in ListenerRow /\ listener'.at = "sync"
    BY <1>0, <1>2 DEF E!Sync, ListenerRow
  <2> QED
    BY <1>0, <1>2, <2>1 DEF E!Sync, E!CalendarFree, GrabStep
<1> QED
  BY <1>1, <1>2

LEMMA FindSteps == ASSUME NEW d \in Download, E!Find(d) PROVE FindStep(d)
BY DEF E!Find, FindStep

LEMMA DieSteps ==
    ASSUME Base, NEW d \in Download, E!Dies(d), held = d, UNCHANGED tx, chances' \in 0 .. MaxEvents
    PROVE  DieStep(d)
<1>0. listener \in ListenerRow
  BY DEF Base, ExchangeTypes
<1>1. CASE d = Listener
  <2>1. listener' \in ListenerRow /\ listener'.at = "down" /\ ~listener'.subscribed
    BY <1>1 DEF E!Dies, E!Started, ListenerRow
  <2> QED
    BY <1>1, <2>1 DEF E!Dies, DieStep
<1>2. CASE d # Listener
  BY <1>0, <1>2 DEF E!Dies, DieStep, Base, Locks
<1> QED
  BY <1>1, <1>2

LEMMA ApplySteps ==
    ASSUME Base, NEW d \in Download, E!Apply(d)
    PROVE  \E new \in E!RowChoices(d) : ApplyStep(d, new)
<1> DEFINE new == E!Rows(d)
           from(r) == CHOOSE i \in E!Unknown(d) : new[i] = r
           created == {new[i] : i \in E!Unknown(d)}
<1>1. new \in E!RowChoices(d)
  BY DEF E!Apply, E!Rows
<1>2. /\ new \in [E!Unknown(d) -> ExchangeRows]
      /\ \A i, j \in E!Unknown(d) : new[i] = new[j] => i = j
  BY <1>1 DEF E!RowChoices
<1>3. \A i \in E!Unknown(d) : from(new[i]) = i /\ new[i] \in created /\ new[i] \in ExchangeRows
  BY <1>2
<1>4. /\ reservations' = [r \in ExchangeRows |->
            IF r \in E!Obsolete(d) THEN E!NoResv
            ELSE IF r \in E!Outdated(d)
            THEN [reservations[r] EXCEPT !.time = list[d][links[r].item].time]
            ELSE IF r \in created THEN [state |-> "created", time |-> list[d][from(r)].time]
            ELSE reservations[r]]
      /\ links' = [r \in ExchangeRows |->
            IF r \in E!Obsolete(d) THEN E!NoLink
            ELSE IF r \in E!Outdated(d)
            THEN [links[r] EXCEPT !.key = list[d][links[r].item].key]
            ELSE IF r \in created
            THEN [item |-> from(r), key |-> list[d][from(r)].key, managed |-> TRUE]
            ELSE links[r]]
  BY DEF E!Apply
<1>5. \A r : r \in created <=> \E i \in E!Unknown(d) : new[i] = r
  OBVIOUS
<1> HIDE DEF new, from, created
<1>6. /\ \A r \in E!Obsolete(d) : Deleted(r)
      /\ \A r \in E!Outdated(d) \ E!Obsolete(d) : Refreshed(d, r)
  BY <1>4 DEF Deleted, Refreshed, E!Obsolete, E!Outdated
<1>7. ASSUME NEW i \in E!Unknown(d), new[i] \notin E!Obsolete(d) \cup E!Outdated(d)
      PROVE  Imports(d, new[i], i)
  BY <1>3, <1>4, <1>7 DEF Imports
<1>8. \A r \in ExchangeRows \ (E!Obsolete(d) \cup E!Outdated(d)) :
         (\A i \in E!Unknown(d) : new[i] # r) => Kept(r)
  BY <1>4, <1>5 DEF Kept
<1>9. /\ reservations' = [r \in ExchangeRows |-> reservations'[r]]
      /\ links' = [r \in ExchangeRows |-> links'[r]]
  BY <1>4
<1>10. /\ held = d /\ list[d] # None /\ held' = None /\ list' = [list EXCEPT ![d] = None]
       /\ listener' = IF d = Listener THEN [listener EXCEPT !.at = "wait"] ELSE listener
       /\ moved' = moved \ (E!Obsolete(d) \cup E!Outdated(d))
       /\ UNCHANGED <<items, tx, posted, chances, orphans>>
  BY DEF E!Apply, E!MainLoop
<1> QED
  BY <1>1, <1>6, <1>7, <1>8, <1>9, <1>10 DEF ApplyStep

-----------------------------------------------------------------------------
(* Types and locks are kept                                                *)

\* A transaction goes on, all the rest of the database as it was
LEMMA BaseTx ==
    ASSUME Base, NEW p \in Request, TxOf(p), Meant(tx'[p]), held' \in {held, p, None},
           tx'[p].at = "upload" <=> held' = p, \A q \in Request \ {p} : held' = q <=> held = q,
           \A d \in Download : held' = d <=> held = d,
           chances' \in 0 .. MaxEvents, orphans' \subseteq Item, moved' = moved,
           UNCHANGED <<reservations, links, items, list, listener, posted>>
    PROVE  Base'
<1>1. \A q \in Request : Meant(tx'[q])
  BY DEF Base, Timing, TxOf
<1>2. ExchangeTypes'
  BY DEF Base, ExchangeTypes, TxOf
<1>3. Timing'
  BY <1>1 DEF Base, Timing, Meant, Timed
<1>4. Locks'
  BY DEF Base, Locks, TxOf
<1> QED
  BY <1>2, <1>3, <1>4 DEF Base

LEMMA BaseBegin == ASSUME Base, NEW p \in Request, BeginStep(p) PROVE Base'
<1>1. tx'[p].at = "upload" <=> held' = p
  BY DEF Base, Locks, BeginStep
<1>2. orphans' \subseteq Item
  BY DEF Base, ExchangeTypes, BeginStep
<1> QED
  BY <1>1, <1>2, BaseTx DEF BeginStep

LEMMA BaseSave == ASSUME Base, NEW p \in Request, SaveStep(p) PROVE Base'
<1>1. tx'[p].at = "upload" <=> held' = p
  BY DEF Base, Locks, SaveStep
<1>2. orphans' \subseteq Item /\ chances' \in 0 .. MaxEvents
  BY DEF Base, ExchangeTypes, SaveStep
<1> QED
  BY <1>1, <1>2, BaseTx DEF SaveStep

LEMMA BaseLock == ASSUME Base, NEW p \in Request, LockStep(p) PROVE Base'
<1>1. orphans' \subseteq Item /\ chances' \in 0 .. MaxEvents
  BY DEF Base, ExchangeTypes, LockStep
<1>2. \A d \in Request \cup Download : d # p => held' # d /\ held # d
  BY DEF LockStep
<1> QED
  BY <1>1, <1>2, BaseTx DEF LockStep

LEMMA BaseRollback == ASSUME Base, NEW p \in Request, RollbackStep(p) PROVE Base'
<1>1. orphans' \subseteq Item /\ chances' \in 0 .. MaxEvents
  BY DEF Base, ExchangeTypes, RollbackStep
<1>2. tx[p].at = "upload" <=> held = p
  BY DEF Base, Locks
<1>3. held' # p /\ \A d \in Request \cup Download : d # p => (held' = d <=> held = d)
  BY <1>2 DEF RollbackStep
<1>4. tx'[p].at # "upload" /\ Meant(tx'[p]) /\ TxOf(p)
  BY NoTxMeant DEF RollbackStep, EndOf
<1> QED
  BY <1>1, <1>3, <1>4, BaseTx DEF RollbackStep

\* A save of an upload, and the item it changes
LEMMA BaseUpload == ASSUME Base, NEW p \in Request, UploadStep(p) PROVE Base'
<1>1. \E link : SavedStep(p, link)
  BY DEF UploadStep, NothingStep, CreateStep, UpdateStep, DeleteStep
<1>2. /\ TxOf(p) /\ Meant(tx'[p]) /\ tx[p].at = "upload" /\ tx'[p].at = "upload"
      /\ UNCHANGED <<reservations, links, held, list, posted, chances, orphans, moved>>
  BY <1>1 DEF SavedStep
<1>3. UNCHANGED <<items, listener>> \/ \E i \in Item, row \in E!ItemRow : ItemStep(i, row)
  BY DEF UploadStep, NothingStep, CreateStep, UpdateStep, DeleteStep
<1>4. /\ items' \in Items /\ listener' \in ListenerRow /\ listener'.at = listener.at
      /\ \A i \in Item : Timed(items'[i])
  BY <1>3, ItemChanged DEF Base, ExchangeTypes, Timing
<1>5. \A q \in Request : Meant(tx'[q])
  BY <1>2 DEF Base, Timing, TxOf
<1>6. ExchangeTypes'
  BY <1>2, <1>4 DEF Base, ExchangeTypes, TxOf
<1>7. Timing'
  BY <1>2, <1>4, <1>5 DEF Base, Timing, Meant, Timed
<1>8. Locks'
  BY <1>2, <1>4 DEF Base, Locks, TxOf
<1> QED
  BY <1>6, <1>7, <1>8 DEF Base

LEMMA BaseCommit == ASSUME Base, NEW p \in Request, CommitStep(p) PROVE Base'
<1>1. /\ tx[p] \in TxRow /\ tx[p].r \in ExchangeRows /\ Timed(tx[p].row)
      /\ reservations \in [ExchangeRows -> E!ResvRow] /\ links \in [ExchangeRows -> E!LinkRow]
      /\ \A r \in ExchangeRows : Timed(reservations[r])
  BY DEF Base, ExchangeTypes, Timing, Meant, CommitStep
<1>2. /\ reservations' \in [ExchangeRows -> E!ResvRow] /\ links' \in [ExchangeRows -> E!LinkRow]
      /\ reservations'[tx[p].r] = tx[p].row
      /\ \A r \in ExchangeRows \ {tx[p].r} : reservations'[r] = reservations[r]
  BY <1>1 DEF CommitStep, TxRow
<1>3. \A r \in ExchangeRows : Timed(reservations'[r])
  BY <1>1, <1>2
<1>4. \A q \in Request : Meant(tx'[q])
  BY NoTxMeant DEF Base, Timing, CommitStep, EndOf, TxOf
<1>5. ExchangeTypes'
  BY <1>2 DEF Base, ExchangeTypes, CommitStep, EndOf, TxOf
<1>6. Timing'
  BY <1>3, <1>4 DEF Base, Timing, CommitStep, Meant, Timed
<1>7. Locks'
  BY NoTxMeant DEF Base, Locks, CommitStep, EndOf, TxOf
<1> QED
  BY <1>5, <1>6, <1>7 DEF Base

LEMMA BaseGrab == ASSUME Base, NEW d \in Download, GrabStep(d) PROVE Base'
<1>1. ExchangeTypes'
  BY DEF Base, ExchangeTypes, GrabStep
<1>2. Timing'
  BY DEF Base, Timing, GrabStep, Meant, Timed
<1>3. Locks'
  BY DEF Base, Locks, GrabStep
<1> QED
  BY <1>1, <1>2, <1>3 DEF Base

LEMMA BaseFind == ASSUME Base, NEW d \in Download, FindStep(d) PROVE Base'
<1>1. list' = [list EXCEPT ![d] = items] /\ list = [e \in Download |-> list[e]]
  BY DEF FindStep, Base, ExchangeTypes
<1>2. list'[d] = items /\ \A e \in Download \ {d} : list'[e] = list[e]
  BY <1>1
<1>3. list' = [e \in Download |-> list'[e]]
  BY <1>1
<1>4. ExchangeTypes'
  BY <1>2, <1>3 DEF Base, ExchangeTypes, FindStep
<1>5. Timing'
  BY <1>2 DEF Base, Timing, FindStep, Meant, Timed
<1>6. Locks'
  BY <1>2 DEF Base, Locks, FindStep
<1> QED
  BY <1>4, <1>5, <1>6 DEF Base

\* A download ends: nobody has a list
LEMMA ListGone ==
    ASSUME Base, NEW d \in Download, held = d, list' = [list EXCEPT ![d] = None]
    PROVE  list' = [e \in Download |-> list'[e]] /\ \A e \in Download : list'[e] = None
<1>1. list = [e \in Download |-> list[e]] /\ \A e \in Download \ {d} : list[e] = None
  BY DEF Base, ExchangeTypes, Locks
<1> QED
  BY <1>1

LEMMA BaseDie == ASSUME Base, NEW d \in Download, DieStep(d) PROVE Base'
<1>1. list' = [e \in Download |-> list'[e]] /\ \A e \in Download : list'[e] = None
  BY ListGone DEF DieStep
<1>2. posted' \in Seq(Kinds)
  <2>1. posted' = posted \/ posted' = <<>>
    BY DEF DieStep
  <2>2. posted \in Seq(Kinds) /\ <<>> \in Seq(Kinds)
    BY DEF Base, ExchangeTypes
  <2> QED
    BY <2>1, <2>2
<1>3. ExchangeTypes'
  BY <1>1, <1>2 DEF Base, ExchangeTypes, DieStep
<1>4. Timing'
  BY <1>1 DEF Base, Timing, DieStep, Meant, Timed
<1>5. Locks'
  BY <1>1 DEF Base, Locks, DieStep
<1> QED
  BY <1>3, <1>4, <1>5 DEF Base

\* What a download has read of an item that is there
LEMMA InListTimed ==
    ASSUME Base, NEW d \in Download, list[d] # None, NEW i \in E!InList(d)
    PROVE  /\ i \in Item /\ list[d][i] \in E!ItemRow /\ list[d][i].time \in Time
           /\ list[d][i].key \in Nat
BY DEF Base, ExchangeTypes, Timing, Timed, E!InList, Items, E!ItemRow

\* Each row is deleted, changed, created or kept
LEMMA RowApplied ==
    ASSUME Base, NEW d \in Download, NEW new, ApplyStep(d, new), NEW r \in ExchangeRows
    PROVE  \/ r \in E!Obsolete(d) /\ Deleted(r)
           \/ r \in E!Outdated(d) /\ r \notin E!Obsolete(d) /\ Refreshed(d, r)
           \/ r \notin E!Obsolete(d) \cup E!Outdated(d)
              /\ \E i \in E!Unknown(d) : new[i] = r /\ E!Free(r) /\ Imports(d, r, i)
           \/ r \notin E!Obsolete(d) \cup E!Outdated(d) /\ Kept(r)
<1>1. CASE r \in E!Obsolete(d)
  BY <1>1 DEF ApplyStep
<1>2. CASE r \in E!Outdated(d) \ E!Obsolete(d)
  BY <1>2 DEF ApplyStep
<1>3. CASE r \notin E!Obsolete(d) \cup E!Outdated(d)
  <2>1. CASE \E i \in E!Unknown(d) : new[i] = r
    <3>1. PICK i \in E!Unknown(d) : new[i] = r
      BY <2>1
    <3>2. E!Free(r)
      BY <3>1 DEF ApplyStep, E!RowChoices
    <3>3. Imports(d, r, i)
      BY <1>3, <3>1 DEF ApplyStep
    <3> QED
      BY <1>3, <3>1, <3>2, <3>3
  <2>2. CASE \A i \in E!Unknown(d) : new[i] # r
    BY <1>3, <2>2 DEF ApplyStep
  <2> QED
    BY <2>1, <2>2
<1> QED
  BY <1>1, <1>2, <1>3

LEMMA BaseApply ==
    ASSUME Base, NEW d \in Download, NEW new, ApplyStep(d, new) PROVE Base'
<1>1. list' = [e \in Download |-> list'[e]] /\ \A e \in Download : list'[e] = None
  BY ListGone DEF ApplyStep
<1>2. ASSUME NEW r \in ExchangeRows
      PROVE  reservations'[r] \in E!ResvRow /\ links'[r] \in E!LinkRow /\ Timed(reservations'[r])
  <2>0. reservations[r] \in E!ResvRow /\ links[r] \in E!LinkRow /\ Timed(reservations[r])
    BY DEF Base, ExchangeTypes, Timing
  <2>l. list[d] # None
    BY DEF ApplyStep
  <2>1. CASE Deleted(r)
    BY <2>1 DEF Deleted, E!NoResv, E!NoLink, E!ResvRow, E!LinkRow, E!ReservationState, Timed
  <2>2. CASE r \in E!Outdated(d) /\ Refreshed(d, r)
    <3>1. links[r].item \in E!InList(d)
      BY <2>2 DEF E!Outdated
    <3>2. list[d][links[r].item].time \in Time /\ list[d][links[r].item].key \in Nat
      BY <2>l, <3>1, InListTimed
    <3> QED
      BY <2>0, <2>2, <3>2 DEF Refreshed, E!ResvRow, E!LinkRow, Timed
  <2>3. CASE \E i \in E!Unknown(d) : Imports(d, r, i)
    <3>1. PICK i \in E!Unknown(d) : Imports(d, r, i)
      BY <2>3
    <3>2. i \in Item /\ list[d][i].time \in Time /\ list[d][i].key \in Nat
      BY <2>l, InListTimed DEF E!Unknown
    <3> QED
      BY <3>1, <3>2 DEF Imports, E!ResvRow, E!LinkRow, E!ReservationState, Timed
  <2>4. CASE Kept(r)
    BY <2>0, <2>4 DEF Kept
  <2> QED
    BY <2>1, <2>2, <2>3, <2>4, RowApplied
<1>3. /\ reservations' = [r \in ExchangeRows |-> reservations'[r]]
      /\ links' = [r \in ExchangeRows |-> links'[r]]
  BY DEF ApplyStep
<1>4. reservations' \in [ExchangeRows -> E!ResvRow] /\ links' \in [ExchangeRows -> E!LinkRow]
  BY <1>2, <1>3
<1>5. listener' \in ListenerRow /\ listener'.at # "sync"
  <2>0. listener \in ListenerRow /\ (listener.at = "sync" <=> held = Listener) /\ held = d
    BY DEF Base, ExchangeTypes, Locks, ApplyStep
  <2>1. listener' = IF d = Listener THEN [listener EXCEPT !.at = "wait"] ELSE listener
    BY DEF ApplyStep
  <2> QED
    BY <2>0, <2>1 DEF ListenerRow
<1>6. ExchangeTypes'
  BY <1>1, <1>4, <1>5 DEF Base, ExchangeTypes, ApplyStep
<1>7. Timing'
  BY <1>1, <1>2 DEF Base, Timing, ApplyStep, Meant, Timed
<1>8. Locks'
  BY <1>1, <1>5 DEF Base, Locks, ApplyStep
<1> QED
  BY <1>6, <1>7, <1>8 DEF Base

-----------------------------------------------------------------------------
(* Every step is one of these                                              *)

RequestStep(p) ==
    BeginStep(p) \/ SaveStep(p) \/ LockStep(p) \/ UploadStep(p) \/ CommitStep(p) \/ RollbackStep(p)

DownloadStep(d) ==
    \/ GrabStep(d) \/ FindStep(d) \/ DieStep(d)
    \/ \E new \in E!RowChoices(d) : ApplyStep(d, new)

ExchangeStep ==
    \/ \E i \in Item, row \in E!ItemRow : UserStep(i, row)
    \/ \E p \in Request : RequestStep(p)
    \/ \E d \in Download : DownloadStep(d)
    \/ ListenerStep /\ Reports

LEMMA ExchangeSteps == ASSUME Base, [E!Next]_exchange PROVE ExchangeStep
<1>c. chances \in 0 .. MaxEvents
  BY DEF Base, ExchangeTypes
<1>1. CASE UNCHANGED exchange
  <2>1. ListenerStep /\ Reports
    BY <1>1 DEF exchange, ListenerStep, Reports, Replaced, Pending, Queued, Base, ExchangeTypes
  <2> QED
    BY <2>1 DEF ExchangeStep
<1>2. CASE E!Meet \/ E!MoveItem \/ E!DeleteItem
  BY <1>2, UserSteps DEF ExchangeStep
<1>3. ASSUME NEW p \in Request,
             \/ E!Post(p) \/ E!Put(p) \/ E!Edit(p) \/ E!Cancel(p) \/ E!RequestFails(p)
             \/ E!Save(p) \/ E!LockCalendar(p) \/ E!Upload(p) \/ E!CommitRequest(p)
             \/ E!UpdateFails(p) \/ E!LinkFails(p)
      PROVE  ExchangeStep
  <2>1. RequestStep(p)
    BY <1>3, BeginSteps, SaveSteps, LockSteps, UploadSteps, CommitSteps, FailureSteps
       DEF RequestStep
  <2> QED
    BY <2>1 DEF ExchangeStep
<1>4. ASSUME NEW d \in Download,
             \/ E!Command(d) \/ E!DownloadFails(d) \/ E!Find(d) \/ E!Apply(d) \/ E!Deadlock(d)
             \/ d = Listener /\ E!Sync
      PROVE  ExchangeStep
  <2>1. CASE E!Command(d) \/ (d = Listener /\ E!Sync)
    BY <2>1, GrabSteps DEF DownloadStep, ExchangeStep
  <2>2. CASE E!DownloadFails(d)
    <3>1. chances' \in 0 .. MaxEvents /\ held = d /\ E!Dies(d) /\ UNCHANGED tx
      BY <1>c, <2>2 DEF E!DownloadFails, E!Fault, E!Spend
    <3>2. DieStep(d)
      BY <3>1, DieSteps
    <3> QED
      BY <3>2 DEF DownloadStep, ExchangeStep
  <2>3. CASE E!Find(d)
    BY <2>3, FindSteps DEF DownloadStep, ExchangeStep
  <2>4. CASE E!Apply(d)
    BY <2>4, ApplySteps DEF DownloadStep, ExchangeStep
  <2>5. CASE E!Deadlock(d)
    <3>1. PICK p \in Request : tx[p].at = "saved" /\ (E!Rollback(p) \/ (E!Dies(d) /\ UNCHANGED tx))
      BY <2>5 DEF E!Deadlock
    <3>2. chances' \in 0 .. MaxEvents /\ held = d
      BY <1>c, <2>5 DEF E!Deadlock
    <3>3. CASE E!Rollback(p)
      BY <3>1, <3>2, <3>3, RollbackSteps DEF RequestStep, ExchangeStep
    <3>4. CASE E!Dies(d) /\ UNCHANGED tx
      <4>1. DieStep(d)
        BY <3>2, <3>4, DieSteps
      <4> QED
        BY <4>1 DEF DownloadStep, ExchangeStep
    <3> QED
      BY <3>1, <3>3, <3>4
  <2> QED
    BY <1>4, <2>1, <2>2, <2>3, <2>4, <2>5
<1>5. CASE \/ E!Deliver \/ E!ThreadDies \/ E!IdleThreadDies \/ E!StoppedThreadDies
           \/ E!TakeChange \/ E!TakeDying \/ E!TakeReplaced \/ E!ManageSubscriptions
           \/ E!CloseFails \/ E!Respawn
  BY <1>5, ListenerSteps, ListenerReports DEF ExchangeStep
<1> QED
  BY <1>1, <1>2, <1>3, <1>4, <1>5 DEF E!Next, E!Progress

LEMMA BaseKept == ASSUME Base, ExchangeStep PROVE Base'
<1>1. ASSUME NEW p \in Request, RequestStep(p) PROVE Base'
  BY <1>1, BaseBegin, BaseSave, BaseLock, BaseUpload, BaseCommit, BaseRollback DEF RequestStep
<1>2. ASSUME NEW d \in Download, DownloadStep(d) PROVE Base'
  BY <1>2, BaseGrab, BaseFind, BaseDie, BaseApply DEF DownloadStep
<1> QED
  BY <1>1, <1>2, BaseUser, BaseListener DEF ExchangeStep

-----------------------------------------------------------------------------
(* ExchangeSync: links, and the items they are of                          *)

\* An item that a request has created, and not rolled back
Echo(item, i, lost) == item.by = "Respa" /\ i \notin lost

\* A link is of an item that has been, and not newer; an imported one is of no echo
LinkFits(l, its, lost) ==
    /\ l.item # None => its[l.item].state # "none" /\ l.key <= its[l.item].key
    /\ l.managed => l.item # None /\ ~Echo(its[l.item], l.item, lost)

KnownLinks ==
    /\ \A r \in ExchangeRows : LinkFits(links[r], items, orphans)
    /\ \A p \in Request : LinkFits(tx[p].link, items, orphans)

\* Items and rows that are not there yet
Blank ==
    /\ \A i \in Item : items[i].state = "none" => items[i] = E!NoItem
    /\ \A i \in Item : items[i].state # "none" => items[i].by \in {"calendar", "Respa"}
    /\ \A r \in ExchangeRows : reservations[r].state = "none" => links[r] = E!NoLink

\* An item has one link, of a row or of the transaction that is about to save it
OneLink ==
    /\ \A r, s \in ExchangeRows : links[r].item = links[s].item /\ links[r].item # None => r = s
    /\ \A p \in Request, r \in ExchangeRows :
          r # tx[p].r /\ links[r].item # None => tx[p].link.item # links[r].item

\* The item is linked, or will be when the upload commits
ShownBy(i) ==
    \/ \E r \in ExchangeRows :
          links[r].item = i /\ \A p \in Request : tx[p].at = "upload" => tx[p].r # r
    \/ \E p \in Request : tx[p].at = "upload" /\ tx[p].link.item = i

Shown == \A i \in Item : E!There(i) /\ Echo(items[i], i, orphans) => ShownBy(i)

\* A list is no newer than the calendar, and has no echo without a row
Lists == \A d \in Download, i \in Item : list[d] # None =>
    /\ list[d][i] = items[i] \/ list[d][i].key < items[i].key
    /\ list[d][i].state = "there" =>
          /\ items[i].state # "none"
          /\ Echo(items[i], i, orphans) => \E r \in ExchangeRows : links[r].item = i

Linking == KnownLinks /\ Blank /\ OneLink /\ Shown /\ Lists

LEMMA LinkingInit == E!Init => Linking
<1> SUFFICES ASSUME E!Init PROVE Linking
  OBVIOUS
<1> QED
  BY DEF E!Init, Linking, KnownLinks, LinkFits, Blank, OneLink, Shown, Lists, ShownBy, Echo,
     E!NoLink, E!NoItem, E!NoResv, E!NoTx, E!There

\* Imported links are of items of users of the calendar, or of orphans
LEMMA LinkingNoEcho == ASSUME Base, Linking PROVE E!NoEcho
<1>2. \A r \in ExchangeRows : links[r].item \in Item \cup {None}
  BY DEF Base, ExchangeTypes, E!LinkRow
<1> QED
  BY <1>2 DEF Linking, KnownLinks, LinkFits, Blank, OneLink, Echo, E!NoEcho

\* Items stay, and keep who has made them; orphans stay orphans
Grown ==
    /\ \A i \in Item : items[i].state # "none" =>
          /\ items'[i].state # "none" /\ items'[i].by = items[i].by
          /\ items[i].key <= items'[i].key
    /\ orphans \subseteq orphans'

LEMMA ItemGrown ==
    ASSUME Base, NEW i \in Item, NEW row \in E!ItemRow, ItemStep(i, row),
           E!NextItem(i) \/ row.by = items[i].by, UNCHANGED orphans
    PROVE  Grown
<1>1. \A j \in Item : items[j].key \in Nat
  BY DEF Base, ExchangeTypes, Items, E!ItemRow
<1>2. items'[i].state # "none" /\ (items[i].state # "none" => items'[i].by = items[i].by)
      /\ items'[i].key = items[i].key + 1
  BY ItemChanged DEF ItemStep, E!NextItem
<1>3. \A j \in Item \ {i} : items'[j] = items[j]
  BY ItemChanged
<1> QED
  BY <1>1, <1>2, <1>3 DEF Grown

LEMMA SameGrown ==
    ASSUME Base, UNCHANGED items, orphans \subseteq orphans' PROVE Grown
BY DEF Base, ExchangeTypes, Items, E!ItemRow, Grown

LEMMA FitsGrown ==
    ASSUME Base, Base', Grown, NEW l \in E!LinkRow, LinkFits(l, items, orphans)
    PROVE  LinkFits(l, items', orphans')
<1>1. l.item \in Item \cup {None} /\ l.key \in Nat
  BY DEF E!LinkRow
<1>2. \A i \in Item : items[i].key \in Nat /\ items'[i].key \in Nat
  BY DEF Base, ExchangeTypes, Items, E!ItemRow
<1>3. CASE l.item = None
  BY <1>3 DEF LinkFits
<1>4. CASE l.item # None
  <2>1. /\ l.item \in Item /\ items[l.item].state # "none" /\ l.key <= items[l.item].key
        /\ l.managed => ~Echo(items[l.item], l.item, orphans)
    BY <1>1, <1>4 DEF LinkFits
  <2>2. /\ items'[l.item].state # "none" /\ items'[l.item].by = items[l.item].by
        /\ items[l.item].key <= items'[l.item].key /\ orphans \subseteq orphans'
    BY <2>1 DEF Grown
  <2>3. l.key <= items'[l.item].key
    <3>1. items[l.item].key \in Nat /\ items'[l.item].key \in Nat
      BY <1>2, <2>1
    <3>2. l.key <= items[l.item].key /\ items[l.item].key <= items'[l.item].key
      BY <2>1, <2>2
    <3> HIDE <1>2, <2>1, <2>2
    <3> QED
      BY <1>1, <3>1, <3>2
  <2>4. l.managed => ~Echo(items'[l.item], l.item, orphans')
    BY <2>1, <2>2 DEF Echo
  <2> QED
    BY <1>4, <2>2, <2>3, <2>4 DEF LinkFits
<1> QED
  BY <1>3, <1>4

LEMMA NoLinkFits == LinkFits(E!NoLink, items', orphans')
BY DEF LinkFits, E!NoLink

\* An item's change leaves no list newer
LEMMA ListsChanged ==
    ASSUME Base, Base', Linking, NEW i \in Item, NEW row \in E!ItemRow, ItemStep(i, row),
           E!NextItem(i) \/ row.by = items[i].by,
           UNCHANGED <<links, list, orphans, moved>>
    PROVE  Lists'
<1>1. Grown
  BY ItemGrown
<1>2. ASSUME NEW d \in Download, NEW j \in Item, list[d] # None
      PROVE  /\ list[d][j] = items'[j] \/ list[d][j].key < items'[j].key
             /\ list[d][j].state = "there" =>
                   /\ items'[j].state # "none"
                   /\ Echo(items'[j], j, orphans) => \E r \in ExchangeRows : links[r].item = j
  <2>1. /\ list[d][j] = items[j] \/ list[d][j].key < items[j].key
        /\ list[d][j].state = "there" =>
              /\ items[j].state # "none"
              /\ Echo(items[j], j, orphans) => \E r \in ExchangeRows : links[r].item = j
    BY <1>2 DEF Linking, Lists
  <2>2. list[d][j].key \in Nat /\ items[j].key \in Nat /\ items'[j].key \in Nat
    BY <1>2 DEF Base, ExchangeTypes, Items, E!ItemRow
  <2>3. CASE j = i
    <3>1. items'[j].key = items[j].key + 1
      BY <2>3, ItemChanged
    <3>2. list[d][j].key < items'[j].key
      BY <2>1, <2>2, <3>1
    <3>3. items[j].state # "none" => items'[j].state # "none" /\ items'[j].by = items[j].by
      BY <1>1 DEF Grown
    <3> QED
      BY <2>1, <3>2, <3>3 DEF Echo
  <2>4. CASE j # i
    BY <2>1, <2>4, ItemChanged
  <2> QED
    BY <2>3, <2>4
<1> QED
  BY <1>2 DEF Lists

LEMMA LinkingUser ==
    ASSUME Base, Linking, NEW i \in Item, NEW row \in E!ItemRow, UserStep(i, row)
    PROVE  Linking'
<1>0. Base' /\ tx \in [Request -> TxRow] /\ links \in [ExchangeRows -> E!LinkRow]
  BY BaseUser DEF Base, ExchangeTypes
<1>1. /\ ItemStep(i, row)
      /\ \/ E!NextItem(i) /\ row.by = "calendar"
         \/ E!There(i) /\ row.by = items[i].by
      /\ UNCHANGED <<reservations, links, held, tx, list, orphans, moved>>
  BY DEF UserStep
<1>2. Grown
  BY <1>1, ItemGrown
<1>3. KnownLinks'
  <2>1. \A r \in ExchangeRows : LinkFits(links[r], items', orphans')
    BY <1>0, <1>2, FitsGrown DEF Linking, KnownLinks
  <2>2. \A p \in Request : LinkFits(tx[p].link, items', orphans')
    BY <1>0, <1>2, FitsGrown DEF Linking, KnownLinks, TxRow
  <2> QED
    BY <1>1, <2>1, <2>2 DEF KnownLinks
<1>4. /\ items'[i].state # "none" /\ items'[i].by = row.by
      /\ \A j \in Item \ {i} : items'[j] = items[j]
  BY <1>1, ItemChanged DEF ItemStep
<1>5. Blank'
  <2>1. ASSUME NEW j \in Item
        PROVE  /\ items'[j].state = "none" => items'[j] = E!NoItem
               /\ items'[j].state # "none" => items'[j].by \in {"calendar", "Respa"}
    <3>1. CASE j = i
      <4>1. row.by \in {"calendar", "Respa"}
        BY <1>1 DEF Linking, Blank, E!There
      <4> QED
        BY <1>4, <3>1, <4>1
    <3>2. CASE j # i
      BY <1>4, <3>2 DEF Linking, Blank
    <3> QED
      BY <3>1, <3>2
  <2> QED
    BY <1>1, <2>1 DEF Linking, Blank
<1>6. OneLink'
  BY <1>1 DEF Linking, OneLink
<1>7. Shown'
  BY <1>1, <1>4 DEF Linking, Shown, ShownBy, E!There, Echo
<1>8. Lists'
  BY <1>0, <1>1, ListsChanged
<1> QED
  BY <1>3, <1>5, <1>6, <1>7, <1>8 DEF Linking

\* A transaction that uploads nothing yet
LEMMA LinkingTx ==
    ASSUME Base, Linking, NEW p \in Request, TxOf(p), tx[p].at # "upload", tx'[p].at # "upload",
           tx'[p].link = E!NoLink, UNCHANGED <<reservations, links, items, list, orphans, moved>>
    PROVE  Linking'
<1>1. KnownLinks'
  BY NoLinkFits DEF Linking, KnownLinks, TxOf
<1>2. Blank'
  BY DEF Linking, Blank
<1>3. OneLink'
  BY DEF Linking, OneLink, TxOf, E!NoLink
<1>4. Shown'
  <2>1. \A i \in Item : ShownBy(i) => ShownBy(i)'
    BY DEF ShownBy, TxOf
  <2> QED
    BY <2>1 DEF Linking, Shown, E!There
<1>5. Lists'
  BY DEF Linking, Lists
<1> QED
  BY <1>1, <1>2, <1>3, <1>4, <1>5 DEF Linking

LEMMA LinkingBegin ==
    ASSUME Base, Linking, NEW p \in Request, BeginStep(p) \/ SaveStep(p)
    PROVE  Linking'
<1>1. tx'[p].at # "upload" /\ tx'[p].link = E!NoLink
  BY DEF BeginStep, SaveStep, Meant
<1> QED
  BY <1>1, LinkingTx DEF BeginStep, SaveStep

LEMMA LinkingLock == ASSUME Base, Linking, NEW p \in Request, LockStep(p) PROVE Linking'
<1>0. /\ tx[p].r \in ExchangeRows /\ tx'[p].r = tx[p].r /\ tx'[p].link = links[tx[p].r]
      /\ tx'[p].at = "upload" /\ \A q \in Request : tx[q].at # "upload"
      /\ \A q \in Request \ {p} : tx'[q] = tx[q]
      /\ UNCHANGED <<reservations, links, items, list, orphans, moved>>
  BY DEF Base, Timing, Meant, LockStep, TxOf, Locks
<1>1. KnownLinks'
  BY <1>0 DEF Linking, KnownLinks
<1>2. Blank'
  BY <1>0 DEF Linking, Blank
<1>3. OneLink'
  <2>1. ASSUME NEW q \in Request, NEW r \in ExchangeRows, r # tx'[q].r, links[r].item # None
        PROVE  tx'[q].link.item # links[r].item
    <3>1. CASE q = p
      BY <1>0, <2>1, <3>1 DEF Linking, OneLink
    <3>2. CASE q # p
      BY <1>0, <2>1, <3>2 DEF Linking, OneLink
    <3> QED
      BY <3>1, <3>2
  <2> QED
    BY <1>0, <2>1 DEF Linking, OneLink
<1>4. Shown'
  <2>1. ASSUME NEW i \in Item, ShownBy(i) PROVE ShownBy(i)'
    <3>1. PICK r \in ExchangeRows : links[r].item = i
      BY <1>0, <2>1 DEF ShownBy
    <3>2. CASE r = tx[p].r
      BY <1>0, <3>1, <3>2 DEF ShownBy
    <3>3. CASE r # tx[p].r
      BY <1>0, <3>1, <3>3 DEF ShownBy
    <3> QED
      BY <3>2, <3>3
  <2> QED
    BY <1>0, <2>1 DEF Linking, Shown, E!There
<1>5. Lists'
  BY <1>0 DEF Linking, Lists
<1> QED
  BY <1>1, <1>2, <1>3, <1>4, <1>5 DEF Linking

\* Only one request uploads
LEMMA OneUploads ==
    ASSUME Base, NEW p \in Request, tx[p].at = "upload"
    PROVE  held = p /\ (\A q \in Request \ {p} : tx[q].at # "upload" /\ tx[q].link = E!NoLink)
           /\ \A d \in Download : list[d] = None
BY DEF Base, Timing, Meant, Locks

LEMMA NoneUploads ==
    ASSUME Base, NEW d \in Download, held = d
    PROVE  \A q \in Request : tx[q].at # "upload" /\ tx[q].link = E!NoLink
BY DEF Base, Timing, Meant, Locks

LEMMA LinkingRollback == ASSUME Base, Linking, NEW p \in Request, RollbackStep(p) PROVE Linking'
<1>0. /\ Base' /\ links \in [ExchangeRows -> E!LinkRow] /\ tx \in [Request -> TxRow]
      /\ tx[p].r \in ExchangeRows
      /\ UNCHANGED <<reservations, links, items, list>>
      /\ orphans' = orphans \cup {i \in Item : tx[p].link.item = i /\ links[tx[p].r].item # i}
      /\ tx'[p] = E!NoTx /\ E!NoTx.at # "upload" /\ E!NoTx.link = E!NoLink
      /\ \A q \in Request \ {p} : tx'[q] = tx[q]
  BY BaseRollback, NoTxMeant DEF Base, ExchangeTypes, Timing, Meant, RollbackStep, EndOf, TxOf
<1>1. Grown
  BY <1>0, SameGrown
<1>2. KnownLinks'
  <2>1. \A r \in ExchangeRows : LinkFits(links[r], items', orphans')
    BY <1>0, <1>1, FitsGrown DEF Linking, KnownLinks
  <2>2. \A q \in Request : LinkFits(tx[q].link, items', orphans')
    BY <1>0, <1>1, FitsGrown DEF Linking, KnownLinks, TxRow
  <2> QED
    BY <1>0, <2>1, <2>2, NoLinkFits DEF KnownLinks
<1>3. Blank'
  BY <1>0 DEF Linking, Blank
<1>4. OneLink'
  BY <1>0 DEF Linking, OneLink, E!NoLink
<1>5. Shown'
  <2>1. ASSUME NEW i \in Item, i \notin orphans', ShownBy(i) PROVE ShownBy(i)'
    <3>1. CASE \E r \in ExchangeRows :
                 links[r].item = i /\ \A q \in Request : tx[q].at = "upload" => tx[q].r # r
      BY <1>0, <3>1 DEF ShownBy
    <3>2. CASE \E q \in Request : tx[q].at = "upload" /\ tx[q].link.item = i
      <4>1. PICK q \in Request : tx[q].at = "upload" /\ tx[q].link.item = i
        BY <3>2
      <4>2. CASE q = p
        <5>1. links[tx[p].r].item = i
          BY <1>0, <2>1, <4>1, <4>2
        <5>2. \A s \in Request : tx'[s].at # "upload"
          BY <1>0, <4>1, <4>2, OneUploads
        <5> QED
          BY <1>0, <5>1, <5>2 DEF ShownBy
      <4>3. CASE q # p
        BY <1>0, <4>1, <4>3 DEF ShownBy
      <4> QED
        BY <4>2, <4>3
    <3> QED
      BY <2>1, <3>1, <3>2 DEF ShownBy
  <2> QED
    BY <1>0, <2>1 DEF Linking, Shown, E!There, Echo
<1>6. Lists'
  BY <1>0 DEF Linking, Lists, Echo
<1> QED
  BY <1>2, <1>3, <1>4, <1>5, <1>6 DEF Linking

\* A request's change of an item, and what stays
LEMMA ChangeGrown ==
    ASSUME Base, Linking, NEW p \in Request, UploadStep(p),
           NEW i \in Item, CreateStep(p, i) \/ UpdateStep(p, i) \/ DeleteStep(p, i)
    PROVE  /\ Grown /\ Lists' /\ \A j \in Item \ {i} : items'[j] = items[j]
           /\ items'[i].state # "none" /\ items'[i].by \in {"calendar", "Respa"}
<1>0. Base' /\ UNCHANGED <<links, list, orphans, moved>>
  BY BaseUpload DEF CreateStep, UpdateStep, DeleteStep, SavedStep
<1>1. CASE CreateStep(p, i)
  <2>1. PICK row \in E!ItemRow : ItemStep(i, row) /\ E!NextItem(i) /\ row.by = "Respa"
    BY <1>1 DEF CreateStep
  <2>2. Grown /\ Lists'
    BY <1>0, <2>1, ItemGrown, ListsChanged
  <2> QED
    BY <2>1, <2>2, ItemChanged DEF ItemStep
<1>2. ASSUME E!There(i), NEW row \in E!ItemRow, ItemStep(i, row), row.by = items[i].by
      PROVE  /\ Grown /\ Lists' /\ \A j \in Item \ {i} : items'[j] = items[j]
             /\ items'[i].state # "none" /\ items'[i].by \in {"calendar", "Respa"}
  <2>1. Grown /\ Lists'
    BY <1>0, <1>2, ItemGrown, ListsChanged
  <2>2. items[i].by \in {"calendar", "Respa"}
    BY <1>2 DEF E!There, Linking, Blank
  <2> QED
    BY <1>2, <2>1, <2>2, ItemChanged DEF ItemStep
<1>3. CASE UpdateStep(p, i)
  BY <1>2, <1>3 DEF UpdateStep
<1>4. CASE DeleteStep(p, i)
  <2>1. CASE E!There(i)
    BY <1>2, <1>4, <2>1 DEF DeleteStep
  <2>2. CASE ~E!There(i)
    <3>1. UNCHANGED items
      BY <1>4, <2>2 DEF DeleteStep
    <3>2. i = E!Own(p) /\ i # None
      BY <1>4 DEF DeleteStep
    <3>3. items[i].state # "none" /\ items[i].by \in {"calendar", "Respa"}
      BY <3>2 DEF Linking, KnownLinks, LinkFits, Blank, E!Own
    <3>4. Grown
      BY <1>0, <3>1, SameGrown
    <3>5. Lists'
      BY <1>0, <3>1 DEF Linking, Lists
    <3> QED
      BY <3>1, <3>3, <3>4, <3>5
  <2> QED
    BY <2>1, <2>2
<1> QED
  BY <1>1, <1>3, <1>4

\* What a save does to the links that are known
SavedWell(p) ==
    /\ Grown /\ Lists'
    /\ \A i \in Item : items'[i] # items[i] =>
          items'[i].state # "none" /\ items'[i].by \in {"calendar", "Respa"}
    /\ LinkFits(tx'[p].link, items', orphans')
    /\ \/ tx'[p].link.item \in {None, tx[p].link.item}
       \/ \E i \in Item : E!NextItem(i) /\ tx'[p].link.item = i
    /\ \A i \in Item : E!There(i)' /\ Echo(items[i], i, orphans)' =>
          \/ tx'[p].link.item = i
          \/ E!There(i) /\ Echo(items[i], i, orphans) /\ tx[p].link.item # i

LEMMA NothingWell ==
    ASSUME Base, Linking, NEW p \in Request, NothingStep(p) PROVE SavedWell(p)
<1>1. UNCHANGED <<items, links, list, orphans, moved>> /\ tx'[p].link = tx[p].link
  BY DEF NothingStep, SavedStep
<1>2. Grown
  BY <1>1, SameGrown
<1>3. Lists'
  BY <1>1 DEF Linking, Lists
<1> QED
  BY <1>1, <1>2, <1>3 DEF SavedWell, Linking, KnownLinks, E!There

LEMMA CreateWell ==
    ASSUME Base, Linking, NEW p \in Request, UploadStep(p), NEW i \in Item, CreateStep(p, i)
    PROVE  SavedWell(p)
<1>1. /\ Grown /\ Lists' /\ \A j \in Item \ {i} : items'[j] = items[j]
      /\ items'[i].state # "none" /\ items'[i].by \in {"calendar", "Respa"}
  BY ChangeGrown
<1>2. /\ tx'[p].link = [item |-> i, key |-> 1, managed |-> FALSE] /\ UNCHANGED orphans
      /\ E!NextItem(i) /\ E!Own(p) = None
  BY DEF CreateStep, SavedStep
<1>3. items'[i].key = 1
  <2>1. items[i] = E!NoItem
    BY <1>2 DEF E!NextItem, Linking, Blank
  <2>2. items'[i].key = items[i].key + 1
    BY ItemChanged DEF CreateStep
  <2> QED
    BY <2>1, <2>2 DEF E!NoItem
<1>4. LinkFits(tx'[p].link, items', orphans')
  BY <1>1, <1>2, <1>3 DEF LinkFits
<1>5. ASSUME NEW j \in Item \ {i}, E!There(j)', Echo(items[j], j, orphans)'
      PROVE  E!There(j) /\ Echo(items[j], j, orphans) /\ tx[p].link.item # j
  <2>1. E!There(j) /\ Echo(items[j], j, orphans)
    BY <1>1, <1>2, <1>5 DEF E!There, Echo
  <2>2. tx[p].link.item = j => tx[p].link.managed
    BY <1>2 DEF E!Own
  <2> QED
    BY <2>1, <2>2 DEF Linking, KnownLinks, LinkFits
<1> QED
  BY <1>1, <1>2, <1>4, <1>5 DEF SavedWell

LEMMA UpdateWell ==
    ASSUME Base, Linking, NEW p \in Request, UploadStep(p), NEW i \in Item, UpdateStep(p, i)
    PROVE  SavedWell(p)
<1>1. /\ Grown /\ Lists' /\ \A j \in Item \ {i} : items'[j] = items[j]
      /\ items'[i].state # "none" /\ items'[i].by \in {"calendar", "Respa"}
  BY ChangeGrown
<1>2. /\ tx'[p].link = [tx[p].link EXCEPT !.key = items[i].key + 1] /\ UNCHANGED orphans
      /\ E!There(i) /\ E!Own(p) = i /\ tx[p].link \in E!LinkRow
  BY DEF UpdateStep, SavedStep, Base, ExchangeTypes, TxRow
<1>3. tx'[p].link.item = i /\ tx[p].link.item = i /\ ~tx'[p].link.managed
      /\ tx'[p].link.key = items[i].key + 1
  BY <1>2 DEF E!Own, E!LinkRow
<1>4. items'[i].key = items[i].key + 1 /\ items[i].key \in Nat
  BY ItemChanged DEF UpdateStep
<1>5. LinkFits(tx'[p].link, items', orphans')
  BY <1>1, <1>3, <1>4 DEF LinkFits
<1>6. \A j \in Item \ {i} : E!There(j)' /\ Echo(items[j], j, orphans)' =>
         E!There(j) /\ Echo(items[j], j, orphans) /\ tx[p].link.item # j
  BY <1>1, <1>2, <1>3 DEF E!There, Echo
<1> QED
  BY <1>1, <1>2, <1>3, <1>5, <1>6 DEF SavedWell

LEMMA DeleteWell ==
    ASSUME Base, Linking, NEW p \in Request, UploadStep(p), NEW i \in Item, DeleteStep(p, i)
    PROVE  SavedWell(p)
<1>1. /\ Grown /\ Lists' /\ \A j \in Item \ {i} : items'[j] = items[j]
      /\ items'[i].state # "none" /\ items'[i].by \in {"calendar", "Respa"}
  BY ChangeGrown
<1>2. /\ tx'[p].link = E!NoLink /\ UNCHANGED orphans /\ E!Own(p) = i
  BY DEF DeleteStep, SavedStep
<1>3. tx[p].link.item = i
  BY <1>2 DEF E!Own
<1>4. ~E!There(i)'
  <2>1. CASE ~E!There(i)
    BY <2>1 DEF DeleteStep, E!There
  <2>2. CASE E!There(i)
    BY <2>2, ItemChanged DEF DeleteStep, E!There
  <2> QED
    BY <2>1, <2>2
<1>5. \A j \in Item \ {i} : E!There(j)' /\ Echo(items[j], j, orphans)' =>
         E!There(j) /\ Echo(items[j], j, orphans) /\ tx[p].link.item # j
  BY <1>1, <1>2, <1>3 DEF E!There, Echo
<1>6. tx'[p].link.item = None
  BY <1>2 DEF E!NoLink
<1> QED
  BY <1>1, <1>2, <1>4, <1>5, <1>6, NoLinkFits DEF SavedWell

LEMMA LinkingUpload == ASSUME Base, Linking, NEW p \in Request, UploadStep(p) PROVE Linking'
<1>0. SavedWell(p)
  BY NothingWell, CreateWell, UpdateWell, DeleteWell DEF UploadStep
<1>1. \E link : SavedStep(p, link)
  BY DEF UploadStep, NothingStep, CreateStep, UpdateStep, DeleteStep
<1>2. /\ UNCHANGED <<reservations, links, orphans, moved>>
      /\ tx[p].at = "upload" /\ tx'[p].at = "upload" /\ tx'[p].r = tx[p].r
      /\ \A q \in Request \ {p} : tx'[q] = tx[q] /\ tx[q].at # "upload"
  BY <1>1, OneUploads DEF SavedStep, TxOf
<1>3. Base' /\ tx \in [Request -> TxRow] /\ links \in [ExchangeRows -> E!LinkRow]
  BY BaseUpload DEF Base, ExchangeTypes
<1>4. KnownLinks'
  <2>1. \A r \in ExchangeRows : LinkFits(links[r], items', orphans')
    BY <1>0, <1>3, FitsGrown DEF Linking, KnownLinks, SavedWell
  <2>2. \A q \in Request : LinkFits(tx[q].link, items', orphans')
    BY <1>0, <1>3, FitsGrown DEF Linking, KnownLinks, SavedWell, TxRow
  <2> QED
    BY <1>0, <1>2, <2>1, <2>2 DEF KnownLinks, SavedWell
<1>5. Blank'
  <2>1. \A i \in Item : /\ items'[i].state = "none" => items'[i] = E!NoItem
                        /\ items'[i].state # "none" => items'[i].by \in {"calendar", "Respa"}
    BY <1>0 DEF SavedWell, Linking, Blank
  <2>2. \A r \in ExchangeRows : reservations'[r].state = "none" => links'[r] = E!NoLink
    BY <1>2 DEF Linking, Blank
  <2> QED
    BY <2>1, <2>2 DEF Blank
<1>6. OneLink'
  <2>1. ASSUME NEW r \in ExchangeRows, r # tx[p].r, links[r].item # None
        PROVE  tx'[p].link.item # links[r].item
    <3>1. tx[p].link.item # links[r].item
      BY <2>1 DEF Linking, OneLink
    <3>2. items[links[r].item].state # "none"
      BY <2>1 DEF Linking, KnownLinks, LinkFits
    <3> QED
      BY <1>0, <2>1, <3>1, <3>2 DEF SavedWell, E!NextItem
  <2> QED
    BY <1>2, <2>1 DEF Linking, OneLink
<1>7. Shown'
  <2>1. ASSUME NEW i \in Item, E!There(i)', Echo(items[i], i, orphans)' PROVE ShownBy(i)'
    <3>1. CASE tx'[p].link.item = i
      BY <1>2, <3>1 DEF ShownBy
    <3>2. CASE E!There(i) /\ Echo(items[i], i, orphans) /\ tx[p].link.item # i
      <4>1. ShownBy(i)
        BY <3>2 DEF Linking, Shown
      <4> QED
        BY <1>2, <3>2, <4>1 DEF ShownBy
    <3> QED
      BY <1>0, <2>1, <3>1, <3>2 DEF SavedWell
  <2> QED
    BY <2>1 DEF Shown
<1>8. Lists'
  BY <1>0 DEF SavedWell
<1> QED
  BY <1>4, <1>5, <1>6, <1>7, <1>8 DEF Linking

LEMMA LinkingCommit == ASSUME Base, Linking, NEW p \in Request, CommitStep(p) PROVE Linking'
<1>0. /\ tx[p].r \in ExchangeRows /\ tx[p].at = "upload" /\ tx[p].row.state # "none"
      /\ UNCHANGED <<items, list, orphans>>
      /\ links'[tx[p].r] = tx[p].link /\ reservations'[tx[p].r] = tx[p].row
      /\ \A r \in ExchangeRows \ {tx[p].r} :
            links'[r] = links[r] /\ reservations'[r] = reservations[r]
      /\ \A q \in Request : tx'[q].link = E!NoLink /\ tx'[q].at # "upload"
      /\ \A q \in Request \ {p} : tx[q].at # "upload"
      /\ \A d \in Download : list[d] = None
  BY NoTxMeant, OneUploads DEF Base, ExchangeTypes, Timing, Meant, CommitStep, EndOf, TxOf
<1>1. KnownLinks'
  BY <1>0, NoLinkFits DEF Linking, KnownLinks
<1>2. Blank'
  BY <1>0 DEF Linking, Blank
<1>3. OneLink'
  <2>1. ASSUME NEW r \in ExchangeRows, NEW s \in ExchangeRows,
               links'[r].item = links'[s].item, links'[r].item # None
        PROVE  r = s
    <3>1. /\ links[r].item = links[s].item /\ links[r].item # None => r = s
          /\ r # tx[p].r /\ links[r].item # None => tx[p].link.item # links[r].item
          /\ s # tx[p].r /\ links[s].item # None => tx[p].link.item # links[s].item
      BY DEF Linking, OneLink
    <3>2. /\ links'[r].item = IF r = tx[p].r THEN tx[p].link.item ELSE links[r].item
          /\ links'[s].item = IF s = tx[p].r THEN tx[p].link.item ELSE links[s].item
      BY <1>0
    <3> QED
      BY <2>1, <3>1, <3>2
  <2>2. \A q \in Request : tx'[q].link.item = None
    BY <1>0 DEF E!NoLink
  <2> QED
    BY <2>1, <2>2 DEF OneLink
<1>4. Shown'
  <2>1. ASSUME NEW i \in Item, ShownBy(i) PROVE ShownBy(i)'
    <3>1. \E r \in ExchangeRows : links'[r].item = i
      <4>1. CASE \E r \in ExchangeRows :
                   links[r].item = i /\ \A q \in Request : tx[q].at = "upload" => tx[q].r # r
        <5>1. PICK r \in ExchangeRows : links[r].item = i /\ r # tx[p].r
          BY <1>0, <4>1
        <5> QED
          BY <1>0, <5>1
      <4>2. CASE \E q \in Request : tx[q].at = "upload" /\ tx[q].link.item = i
        <5>1. tx[p].link.item = i
          BY <1>0, <4>2
        <5> QED
          BY <1>0, <5>1
      <4> QED
        BY <2>1, <4>1, <4>2 DEF ShownBy
    <3>2. \A q \in Request : tx'[q].at # "upload"
      BY <1>0
    <3> QED
      BY <3>1, <3>2 DEF ShownBy
  <2>2. UNCHANGED <<items, orphans>>
    BY <1>0
  <2>3. \A i \in Item : E!There(i)' /\ Echo(items[i], i, orphans)' => ShownBy(i)
    BY <2>2 DEF Linking, Shown, E!There
  <2> QED
    BY <2>1, <2>3 DEF Shown
<1>5. Lists'
  BY <1>0 DEF Lists
<1> QED
  BY <1>1, <1>2, <1>3, <1>4, <1>5 DEF Linking

LEMMA LinkingGrab ==
    ASSUME Base, Linking, UNCHANGED <<reservations, links, items, tx, orphans, moved>>,
           \A d \in Download : list'[d] = None \/ list'[d] = list[d]
    PROVE  Linking'
<1>1. KnownLinks' /\ Blank' /\ OneLink'
  BY DEF Linking, KnownLinks, Blank, OneLink
<1>2. Shown'
  BY DEF Linking, Shown, ShownBy, E!There
<1>3. Lists'
  BY DEF Linking, Lists
<1> QED
  BY <1>1, <1>2, <1>3 DEF Linking

LEMMA LinkingFind == ASSUME Base, Linking, NEW d \in Download, FindStep(d) PROVE Linking'
<1>0. /\ UNCHANGED <<reservations, links, items, tx, orphans, moved>> /\ held = d
      /\ list' = [list EXCEPT ![d] = items] /\ list = [e \in Download |-> list[e]]
  BY DEF FindStep, Base, ExchangeTypes
<1>l. list'[d] = items /\ \A e \in Download \ {d} : list'[e] = list[e]
  BY <1>0
<1>1. KnownLinks' /\ Blank' /\ OneLink'
  BY <1>0 DEF Linking, KnownLinks, Blank, OneLink
<1>2. Shown'
  BY <1>0 DEF Linking, Shown, ShownBy, E!There
<1>3. Lists'
  <2>1. ASSUME NEW i \in Item, items[i].state = "there", Echo(items[i], i, orphans)
        PROVE  \E r \in ExchangeRows : links[r].item = i
    BY <1>0, <2>1, NoneUploads DEF Linking, Shown, ShownBy, E!There
  <2>2. \A i \in Item : /\ list'[d][i] = items[i]
                        /\ list'[d][i].state = "there" =>
                             /\ items[i].state # "none"
                             /\ Echo(items[i], i, orphans) =>
                                  \E r \in ExchangeRows : links[r].item = i
    BY <1>l, <2>1
  <2> QED
    BY <1>0, <1>l, <2>2 DEF Linking, Lists
<1> QED
  BY <1>1, <1>2, <1>3 DEF Linking

LEMMA LinkingDownload ==
    ASSUME Base, Linking, NEW d \in Download, GrabStep(d) \/ DieStep(d) PROVE Linking'
<1>1. CASE GrabStep(d)
  BY <1>1, LinkingGrab DEF GrabStep
<1>2. CASE DieStep(d)
  BY <1>2, ListGone, LinkingGrab DEF DieStep
<1> QED
  BY <1>1, <1>2

\* What a download makes of a row, now that new rows have no link
LEMMA RowLinked ==
    ASSUME Base, Linking, NEW d \in Download, NEW new, ApplyStep(d, new), NEW r \in ExchangeRows
    PROVE  \/ r \in E!Obsolete(d) /\ Deleted(r)
           \/ r \in E!Outdated(d) /\ r \notin E!Obsolete(d) /\ Refreshed(d, r)
           \/ /\ r \notin E!Obsolete(d) \cup E!Outdated(d)
              /\ links[r] = E!NoLink /\ E!Free(r)
              /\ \E i \in E!Unknown(d) : new[i] = r /\ Imports(d, r, i)
           \/ r \notin E!Obsolete(d) \cup E!Outdated(d) /\ Kept(r)
BY RowApplied DEF Linking, Blank, E!Free

\* Each unknown item gets a row of its own
LEMMA RowOfItem ==
    ASSUME Base, Linking, NEW d \in Download, NEW new, ApplyStep(d, new), NEW i \in E!Unknown(d)
    PROVE  new[i] \in ExchangeRows /\ Imports(d, new[i], i)
<1>1. new[i] \in ExchangeRows /\ E!Free(new[i])
  BY DEF ApplyStep, E!RowChoices
<1>2. links[new[i]] = E!NoLink
  BY <1>1 DEF Linking, Blank, E!Free
<1>3. new[i] \notin E!Obsolete(d) \cup E!Outdated(d)
  BY <1>2, ExchangeConstants DEF E!Obsolete, E!Outdated, E!InList, E!NoLink
<1> QED
  BY <1>1, <1>3 DEF ApplyStep

LEMMA LinkingApply ==
    ASSUME Base, Linking, NEW d \in Download, NEW new, ApplyStep(d, new) PROVE Linking'
<1>0. /\ UNCHANGED <<items, tx, orphans>> /\ list[d] # None /\ new \in E!RowChoices(d)
      /\ \A q \in Request : tx[q].at # "upload" /\ tx[q].link = E!NoLink
      /\ \A e \in Download : list'[e] = None
  BY NoneUploads, ListGone DEF ApplyStep
<1>t. \A r \in ExchangeRows : links[r] \in E!LinkRow /\ reservations[r] \in E!ResvRow
  BY DEF Base, ExchangeTypes
<1>u. ASSUME NEW i \in E!Unknown(d)
      PROVE  /\ i \in Item /\ i \in E!InList(d) /\ items[i].state # "none"
             /\ ~Echo(items[i], i, orphans) /\ list[d][i].key <= items[i].key
             /\ \A r \in ExchangeRows : links[r].item # i
  <2>1. i \in Item /\ i \in E!InList(d) /\ list[d][i].state = "there"
        /\ \A r \in ExchangeRows : links[r].item # i
    BY DEF E!Unknown, E!InList
  <2>2. list[d][i].key \in Nat /\ items[i].key \in Nat
    BY <1>0, <2>1, InListTimed DEF Base, ExchangeTypes, Items, E!ItemRow
  <2> QED
    BY <1>0, <2>1, <2>2 DEF Linking, Lists
<1>o. ASSUME NEW r \in ExchangeRows, r \in E!Outdated(d), Refreshed(d, r)
      PROVE  /\ links'[r].item = links[r].item /\ links'[r].managed = links[r].managed
             /\ links'[r].key = list[d][links[r].item].key
             /\ links[r].item \in Item /\ list[d][links[r].item].key <= items[links[r].item].key
             /\ reservations'[r].state = reservations[r].state
  <2>1. links[r].item \in E!InList(d) /\ links[r].item \in Item
    BY <1>o DEF E!Outdated, E!InList
  <2>2. list[d][links[r].item].key \in Nat /\ items[links[r].item].key \in Nat
    BY <1>0, <2>1, InListTimed DEF Base, ExchangeTypes, Items, E!ItemRow
  <2>3. list[d][links[r].item].key <= items[links[r].item].key
    BY <1>0, <2>1, <2>2 DEF Linking, Lists
  <2> QED
    BY <1>t, <1>o, <2>1, <2>3 DEF Refreshed, E!LinkRow, E!ResvRow
<1>1. ASSUME NEW r \in ExchangeRows
      PROVE  /\ LinkFits(links'[r], items, orphans)
             /\ reservations'[r].state = "none" => links'[r] = E!NoLink
             /\ \/ links'[r].item \in {None, links[r].item}
                \/ \E i \in E!Unknown(d) : links'[r].item = i /\ new[i] = r
             /\ Echo(items[links[r].item], links[r].item, orphans) /\ links[r].item # None
                   => links'[r].item = links[r].item
  <2>0. /\ LinkFits(links[r], items, orphans)
        /\ reservations[r].state = "none" => links[r] = E!NoLink
    BY DEF Linking, KnownLinks, Blank
  <2>1. CASE r \in E!Obsolete(d) /\ Deleted(r)
    BY <2>0, <2>1, NoLinkFits DEF Deleted, E!Obsolete, LinkFits, E!NoLink
  <2>2. CASE r \in E!Outdated(d) /\ Refreshed(d, r)
    <3>1. LinkFits(links'[r], items, orphans)
      BY <1>o, <2>0, <2>2 DEF LinkFits
    <3>2. links[r] # E!NoLink
      BY <1>o, <2>2, ExchangeConstants DEF E!NoLink
    <3> QED
      BY <1>o, <2>0, <2>2, <3>1, <3>2
  <2>3. CASE links[r] = E!NoLink /\ \E i \in E!Unknown(d) : new[i] = r /\ Imports(d, r, i)
    <3>1. PICK i \in E!Unknown(d) : new[i] = r /\ Imports(d, r, i)
      BY <2>3
    <3>2. LinkFits(links'[r], items, orphans) /\ links'[r].item = i
      BY <1>u, <3>1 DEF Imports, LinkFits
    <3> QED
      BY <2>3, <3>1, <3>2 DEF Imports, E!NoLink
  <2>4. CASE Kept(r)
    BY <2>0, <2>4 DEF Kept
  <2> QED
    BY <2>1, <2>2, <2>3, <2>4, RowLinked
<1>2. KnownLinks'
  BY <1>0, <1>1, NoLinkFits DEF KnownLinks
<1>3. Blank'
  BY <1>0, <1>1 DEF Linking, Blank
<1>4. OneLink'
  <2>1. ASSUME NEW r \in ExchangeRows, NEW s \in ExchangeRows,
               links'[r].item = links'[s].item, links'[r].item # None
        PROVE  r = s
    <3>1. CASE links'[r].item = links[r].item /\ links'[s].item = links[s].item
      BY <2>1, <3>1 DEF Linking, OneLink
    <3>2. CASE /\ \E i \in E!Unknown(d) : links'[r].item = i /\ new[i] = r
               /\ \E i \in E!Unknown(d) : links'[s].item = i /\ new[i] = s
      BY <2>1, <3>2
    <3>3. ~(links'[r].item = links[r].item /\ \E i \in E!Unknown(d) : links'[s].item = i)
      BY <1>u, <2>1
    <3>4. ~(links'[s].item = links[s].item /\ \E i \in E!Unknown(d) : links'[r].item = i)
      BY <1>u, <2>1
    <3> QED
      BY <1>1, <2>1, <3>1, <3>2, <3>3, <3>4
  <2>2. \A q \in Request : tx'[q].link.item = None
    BY <1>0 DEF E!NoLink
  <2> QED
    BY <2>1, <2>2 DEF OneLink
<1>5. Shown'
  <2>1. ASSUME NEW i \in Item, E!There(i)', Echo(items[i], i, orphans)' PROVE ShownBy(i)'
    <3>1. E!There(i) /\ Echo(items[i], i, orphans)
      BY <1>0, <2>1 DEF E!There
    <3>2. PICK r \in ExchangeRows : links[r].item = i
      BY <1>0, <3>1 DEF Linking, Shown, ShownBy
    <3>3. i # None
      BY ExchangeConstants
    <3>4. links'[r].item = i
      BY <1>1, <3>1, <3>2, <3>3
    <3> QED
      BY <1>0, <3>4 DEF ShownBy
  <2> QED
    BY <2>1 DEF Shown
<1>6. Lists'
  BY <1>0 DEF Lists
<1> QED
  BY <1>2, <1>3, <1>4, <1>5, <1>6 DEF Linking

LEMMA LinkingListener == ASSUME Base, Linking, ListenerStep PROVE Linking'
BY LinkingGrab DEF ListenerStep

LEMMA LinkingKept == ASSUME Base, Linking, ExchangeStep PROVE Linking'
<1>1. ASSUME NEW p \in Request, RequestStep(p) PROVE Linking'
  BY <1>1, LinkingBegin, LinkingLock, LinkingUpload, LinkingCommit, LinkingRollback DEF RequestStep
<1>2. ASSUME NEW d \in Download, DownloadStep(d) PROVE Linking'
  BY <1>2, LinkingDownload, LinkingFind, LinkingApply DEF DownloadStep
<1> QED
  BY <1>1, <1>2, LinkingUser, LinkingListener DEF ExchangeStep

-----------------------------------------------------------------------------
(* ExchangeSync: reservations, and the time of their items                 *)

\* If the link is of the item as it is, the reservation is at its time
InTime(row, l, its) ==
    l.item # None /\ its[l.item].state = "there" /\ l.key = its[l.item].key
    => row.time = its[l.item].time

\* An upload leaves the link of an imported reservation alone, or is about to fail; it keeps that of
\* an item that is there; at its end the item is as the row
UploadFits(p) ==
    /\ tx[p].link.managed => tx[p].link = links[tx[p].r]
    /\ ~E!Twice(p) /\ links[tx[p].r].item # None /\ E!There(links[tx[p].r].item)
          => tx[p].link.item = links[tx[p].r].item
    /\ tx[p].todo = <<>> =>
          /\ tx[p].row.state = "confirmed" => tx[p].link.item # None
          /\ ~tx[p].link.managed => InTime(tx[p].row, tx[p].link, items)

Rows ==
    /\ \A r \in ExchangeRows : reservations[r].state = "confirmed" => links[r].item # None
    /\ \A r \in ExchangeRows \ moved : InTime(reservations[r], links[r], items)

Copies == (\A p \in Request : tx[p].at = "upload" => UploadFits(p)) /\ Rows

LEMMA CopiesInit == E!Init => Copies
BY DEF E!Init, Copies, Rows, InTime, E!NoLink, E!NoResv, E!NoTx

\* A change of its item leaves every link behind
LEMMA InTimeKept ==
    ASSUME Base, NEW i \in Item, NEW row \in E!ItemRow, ItemStep(i, row),
           NEW l \in E!LinkRow, LinkFits(l, items, orphans), NEW own, InTime(own, l, items)
    PROVE  InTime(own, l, items')
<1>1. l.item \in Item \cup {None} /\ l.key \in Nat
  BY DEF E!LinkRow
<1>2. CASE l.item = i
  <2>1. l.key <= items[i].key /\ items'[i].key = items[i].key + 1 /\ items[i].key \in Nat
    BY <1>2, ItemChanged DEF LinkFits
  <2>2. l.key # items'[i].key
    BY <1>1, <2>1
  <2> QED
    BY <1>2, <2>2 DEF InTime
<1>3. CASE l.item # i
  BY <1>1, <1>3, ItemChanged DEF InTime
<1> QED
  BY <1>2, <1>3

LEMMA RowsKept ==
    ASSUME Base, Linking, Copies, NEW i \in Item, NEW row \in E!ItemRow, ItemStep(i, row),
           UNCHANGED <<reservations, links, moved>>
    PROVE  Rows'
<1>1. \A r \in ExchangeRows \ moved : InTime(reservations[r], links[r], items')
  BY InTimeKept DEF Base, ExchangeTypes, Linking, KnownLinks, Copies, Rows
<1> QED
  BY <1>1 DEF Copies, Rows

LEMMA CopiesUser ==
    ASSUME Base, Linking, Copies, NEW i \in Item, NEW row \in E!ItemRow, UserStep(i, row)
    PROVE  Copies'
<1>1. /\ ItemStep(i, row) /\ UNCHANGED <<reservations, links, tx, moved>>
      /\ E!NextItem(i) \/ E!There(i)
  BY DEF UserStep
<1>2. Rows'
  BY <1>1, RowsKept
<1>3. ASSUME NEW p \in Request, tx[p].at = "upload" PROVE UploadFits(p)'
  <2>0. UploadFits(p) /\ tx[p].link \in E!LinkRow /\ tx[p].r \in ExchangeRows
    BY <1>3 DEF Copies, Base, ExchangeTypes, Timing, Meant, TxRow
  <2>1. tx[p].todo = <<>> /\ ~tx[p].link.managed => InTime(tx[p].row, tx[p].link, items')
    BY <1>1, <2>0, InTimeKept DEF UploadFits, Linking, KnownLinks
  <2>2. links[tx[p].r].item # None /\ E!There(links[tx[p].r].item)'
           => E!There(links[tx[p].r].item)
    <3>1. links[tx[p].r].item # None => items[links[tx[p].r].item].state # "none"
                                        /\ links[tx[p].r].item \in Item
      BY <2>0 DEF Linking, KnownLinks, LinkFits, Base, ExchangeTypes, E!LinkRow
    <3> QED
      BY <1>1, <3>1, ItemChanged DEF E!There, E!NextItem
  <2> QED
    BY <1>1, <2>0, <2>1, <2>2 DEF UploadFits, E!There, E!Twice
<1> QED
  BY <1>1, <1>2, <1>3 DEF Copies

\* Steps that change no row and no item
LEMMA CopiesSame ==
    ASSUME Copies, UNCHANGED <<reservations, links, items, moved>>,
           \A p \in Request : tx'[p] = tx[p] \/ tx'[p].at # "upload"
    PROVE  Copies'
<1>1. Rows'
  BY DEF Copies, Rows
<1>2. ASSUME NEW p \in Request, tx'[p].at = "upload" PROVE UploadFits(p)'
  <2>1. tx'[p] = tx[p] /\ UploadFits(p)
    BY <1>2 DEF Copies
  <2> QED
    BY <2>1 DEF UploadFits, E!There, E!Twice
<1> QED
  BY <1>1, <1>2 DEF Copies

LEMMA CopiesBegin ==
    ASSUME Base, Copies, NEW p \in Request, BeginStep(p) \/ SaveStep(p) \/ RollbackStep(p)
    PROVE  Copies'
<1>1. CASE BeginStep(p) \/ SaveStep(p)
  BY <1>1, CopiesSame DEF BeginStep, SaveStep, TxOf
<1>2. CASE RollbackStep(p)
  BY <1>2, NoTxMeant, CopiesSame DEF RollbackStep, EndOf, TxOf
<1> QED
  BY <1>1, <1>2

LEMMA CopiesLock == ASSUME Base, Copies, NEW p \in Request, LockStep(p) PROVE Copies'
<1>0. /\ tx'[p].at = "upload" /\ tx'[p].r = tx[p].r
      /\ tx'[p].todo = tx[p].todo /\ tx[p].todo # <<>> /\ tx'[p].link = links[tx[p].r]
      /\ \A q \in Request \ {p} : tx'[q] = tx[q]
      /\ UNCHANGED <<reservations, links, items, moved>>
  BY DEF LockStep, TxOf, Base, Timing, Meant
<1>1. Rows'
  BY <1>0 DEF Copies, Rows
<1>2. ASSUME NEW q \in Request, tx'[q].at = "upload" PROVE UploadFits(q)'
  <2>1. CASE q = p
    BY <1>0, <2>1 DEF UploadFits
  <2>2. CASE q # p
    <3>1. UploadFits(q)
      BY <1>0, <1>2, <2>2 DEF Copies
    <3> QED
      BY <1>0, <2>2, <3>1 DEF UploadFits, E!There, E!Twice
  <2> QED
    BY <2>1, <2>2
<1> QED
  BY <1>1, <1>2 DEF Copies

\* What a save does to the copies
SavedFits(p) ==
    /\ Rows'
    /\ tx'[p].link.managed => tx'[p].link = links[tx[p].r]
    /\ /\ links[tx[p].r].managed => tx'[p].link.managed
       /\ links[tx[p].r].item # None /\ items'[links[tx[p].r].item].state = "there"
       => tx'[p].link.item = links[tx[p].r].item
    /\ Head(tx[p].todo) = "confirmed" => tx'[p].link.item # None
    /\ ~tx'[p].link.managed => InTime(tx'[p].row, tx'[p].link, items')

LEMMA NothingFits ==
    ASSUME Base, Linking, Copies, NEW p \in Request, NothingStep(p) PROVE SavedFits(p)
<1>0. /\ tx'[p].link = tx[p].link /\ UNCHANGED <<reservations, links, items, moved>>
      /\ E!Own(p) = None /\ Head(tx[p].todo) # "confirmed" /\ tx'[p].row.state = Head(tx[p].todo)
      /\ tx[p].at = "upload" /\ tx[p].todo # <<>>
  BY DEF NothingStep, SavedStep
<1>1. Rows'
  BY <1>0 DEF Copies, Rows
<1>2. UploadFits(p)
  BY <1>0 DEF Copies
<1>3. ~tx'[p].link.managed => InTime(tx'[p].row, tx'[p].link, items')
  BY <1>0 DEF E!Own, InTime
<1> QED
  BY <1>0, <1>1, <1>2, <1>3 DEF SavedFits, UploadFits, E!There, E!Twice

\* The row's own item, if it is there, is the transaction's
LEMMA OwnThere ==
    ASSUME Base, Linking, Copies, NEW p \in Request, tx[p].at = "upload", ~E!Twice(p),
           NEW i \in Item, NEW row \in E!ItemRow, ItemStep(i, row),
           links[tx[p].r].item # None, items'[links[tx[p].r].item].state = "there",
           E!NextItem(i) \/ E!There(i)
    PROVE  tx[p].link.item = links[tx[p].r].item /\ links[tx[p].r].item \in Item
<1>0. tx[p].r \in ExchangeRows
  BY DEF Base, Timing, Meant
<1>1. links[tx[p].r].item \in Item /\ items[links[tx[p].r].item].state # "none"
  BY <1>0 DEF Base, ExchangeTypes, E!LinkRow, Linking, KnownLinks, LinkFits
<1>2. E!There(links[tx[p].r].item)
  BY <1>1, ItemChanged DEF E!There, E!NextItem
<1> QED
  BY <1>1, <1>2 DEF Copies, UploadFits

LEMMA CreateFits ==
    ASSUME Base, Linking, Copies, NEW p \in Request, NEW i \in Item, CreateStep(p, i)
    PROVE  SavedFits(p)
<1>0. /\ tx'[p].link = [item |-> i, key |-> 1, managed |-> FALSE]
      /\ UNCHANGED <<reservations, links, moved>> /\ ~E!Twice(p)
      /\ E!Own(p) = None /\ Head(tx[p].todo) = "confirmed" /\ E!NextItem(i)
      /\ tx[p].at = "upload" /\ tx[p].todo # <<>> /\ tx'[p].row.time = tx[p].row.time
  BY DEF CreateStep, SavedStep
<1>1. PICK row \in E!ItemRow : ItemStep(i, row) /\ row.time = tx[p].row.time
  BY DEF CreateStep
<1>2. Rows'
  BY <1>0, <1>1, RowsKept
<1>3. links[tx[p].r].managed \/ ~tx[p].link.managed
  BY <1>0 DEF Copies, UploadFits
<1>4. ~links[tx[p].r].managed => tx[p].link.item = None
  BY <1>0, <1>3 DEF E!Own
<1>5. ~links[tx[p].r].managed =>
         ~(links[tx[p].r].item # None /\ items'[links[tx[p].r].item].state = "there")
  BY <1>0, <1>1, <1>4, ExchangeConstants, OwnThere
<1>6. InTime(tx'[p].row, tx'[p].link, items')
  BY <1>0, <1>1, ItemChanged DEF InTime
<1>7. i # None
  BY ExchangeConstants
<1> QED
  BY <1>0, <1>2, <1>3, <1>5, <1>6, <1>7 DEF SavedFits

LEMMA UpdateFits ==
    ASSUME Base, Linking, Copies, NEW p \in Request, NEW i \in Item, UpdateStep(p, i)
    PROVE  SavedFits(p)
<1>0. /\ tx'[p].link = [tx[p].link EXCEPT !.key = items[i].key + 1]
      /\ UNCHANGED <<reservations, links, moved>> /\ ~E!Twice(p) /\ tx[p].link \in E!LinkRow
      /\ E!Own(p) = i /\ E!There(i) /\ i # None
      /\ tx[p].at = "upload" /\ tx[p].todo # <<>> /\ tx'[p].row.time = tx[p].row.time
  BY ExchangeConstants DEF UpdateStep, SavedStep, Base, ExchangeTypes, TxRow
<1>1. PICK row \in E!ItemRow : ItemStep(i, row) /\ row.time = tx[p].row.time
  BY DEF UpdateStep
<1>2. Rows'
  BY <1>0, <1>1, RowsKept
<1>3. ~links[tx[p].r].managed /\ ~tx[p].link.managed
  BY <1>0 DEF E!Own, E!Twice
<1>4. tx[p].link.item = i /\ tx'[p].link.item = i /\ ~tx'[p].link.managed
  BY <1>0, <1>3 DEF E!Own, E!LinkRow
<1>5. links[tx[p].r].item # None /\ items'[links[tx[p].r].item].state = "there" =>
        links[tx[p].r].item = i
  BY <1>0, <1>1, <1>4, OwnThere
<1>6. InTime(tx'[p].row, tx'[p].link, items')
  BY <1>0, <1>1, <1>4, ItemChanged DEF InTime
<1> QED
  BY <1>0, <1>2, <1>3, <1>4, <1>5, <1>6 DEF SavedFits

LEMMA DeleteFits ==
    ASSUME Base, Linking, Copies, NEW p \in Request, NEW i \in Item, DeleteStep(p, i)
    PROVE  SavedFits(p)
<1>0. /\ tx'[p].link = E!NoLink /\ UNCHANGED <<reservations, links, moved>> /\ ~E!Twice(p)
      /\ E!Own(p) = i /\ i # None /\ Head(tx[p].todo) \in {"denied", "cancelled"}
      /\ tx[p].at = "upload" /\ tx[p].todo # <<>> /\ tx'[p].link.item = None /\ ~tx'[p].link.managed
  BY ExchangeConstants DEF DeleteStep, SavedStep, E!NoLink
<1>1. ~links[tx[p].r].managed /\ tx[p].link.item = i
  BY <1>0 DEF E!Own, E!Twice
<1>2. Rows' /\ ~(links[tx[p].r].item # None /\ items'[links[tx[p].r].item].state = "there")
  <2>1. CASE ~E!There(i)
    <3>1. UNCHANGED items
      BY <2>1 DEF DeleteStep
    <3>2. UploadFits(p)
      BY <1>0 DEF Copies
    <3> QED
      BY <1>0, <1>1, <2>1, <3>1, <3>2 DEF Copies, Rows, UploadFits, E!There
  <2>2. CASE E!There(i)
    <3>1. PICK row \in E!ItemRow : ItemStep(i, row) /\ row.state = "gone"
      BY <2>2 DEF DeleteStep
    <3>2. Rows'
      BY <1>0, <3>1, RowsKept
    <3>3. items'[i].state # "there"
      BY <3>1, ItemChanged
    <3>4. links[tx[p].r].item # None /\ items'[links[tx[p].r].item].state = "there" =>
            links[tx[p].r].item = i
      BY <1>0, <1>1, <2>2, <3>1, OwnThere
    <3> QED
      BY <1>0, <3>2, <3>3, <3>4 DEF E!There
  <2> QED
    BY <2>1, <2>2
<1>3. InTime(tx'[p].row, tx'[p].link, items')
  BY <1>0 DEF InTime
<1> QED
  BY <1>0, <1>1, <1>2, <1>3 DEF SavedFits

LEMMA CopiesUpload == ASSUME Base, Linking, Copies, NEW p \in Request, UploadStep(p) PROVE Copies'
<1>0. SavedFits(p)
  BY NothingFits, CreateFits, UpdateFits, DeleteFits DEF UploadStep
<1>1. \E link : SavedStep(p, link)
  BY DEF UploadStep, NothingStep, CreateStep, UpdateStep, DeleteStep
<1>2. /\ UNCHANGED <<reservations, links>>
      /\ tx[p].at = "upload" /\ tx'[p].r = tx[p].r /\ tx'[p].row.state = Head(tx[p].todo)
      /\ tx[p].todo # <<>> /\ tx'[p].todo = Tail(tx[p].todo)
      /\ \A q \in Request \ {p} : tx'[q] = tx[q] /\ tx[q].at # "upload"
  BY <1>1, OneUploads DEF SavedStep, TxOf
<1>3. UploadFits(p)'
  BY <1>0, <1>2 DEF SavedFits, UploadFits, E!There, E!Twice
<1>4. Rows' /\ \A q \in Request \ {p} : tx'[q].at # "upload"
  BY <1>0, <1>2 DEF SavedFits
<1> QED
  BY <1>3, <1>4 DEF Copies

LEMMA CopiesCommit == ASSUME Base, Linking, Copies, NEW p \in Request, CommitStep(p) PROVE Copies'
<1>0. /\ tx[p].r \in ExchangeRows /\ tx[p].at = "upload" /\ tx[p].todo = <<>> /\ UNCHANGED items
      /\ links'[tx[p].r] = tx[p].link /\ reservations'[tx[p].r] = tx[p].row
      /\ \A r \in ExchangeRows \ {tx[p].r} :
            links'[r] = links[r] /\ reservations'[r] = reservations[r]
      /\ moved' = moved \cup IF E!Moves(p) THEN {tx[p].r} ELSE {}
      /\ \A q \in Request : tx'[q].at # "upload"
  BY NoTxMeant, OneUploads DEF Base, ExchangeTypes, Timing, Meant, CommitStep, EndOf, TxOf
<1>1. UploadFits(p)
  BY <1>0 DEF Copies
<1>2. tx[p].r \notin moved' => InTime(tx[p].row, tx[p].link, items)
  <2>1. CASE tx[p].link.managed
    <3>1. tx[p].link = links[tx[p].r]
      BY <1>1, <2>1 DEF UploadFits
    <3>2. tx[p].r \notin moved' => /\ tx[p].row.time = reservations[tx[p].r].time
                                    /\ InTime(reservations[tx[p].r], links[tx[p].r], items)
      BY <1>0, <2>1 DEF E!Moves, Copies, Rows
    <3> QED
      BY <3>1, <3>2 DEF InTime
  <2>2. CASE ~tx[p].link.managed
    BY <1>0, <1>1, <2>2 DEF UploadFits
  <2> QED
    BY <2>1, <2>2
<1>3. Rows'
  <2>1. \A r \in ExchangeRows : reservations'[r].state = "confirmed" => links'[r].item # None
    BY <1>0, <1>1 DEF Copies, Rows, UploadFits
  <2>2. \A r \in ExchangeRows \ moved' : InTime(reservations'[r], links'[r], items)
    BY <1>0, <1>2 DEF Copies, Rows
  <2> QED
    BY <1>0, <2>1, <2>2 DEF Rows
<1> QED
  BY <1>0, <1>3 DEF Copies

LEMMA CopiesApply ==
    ASSUME Base, Linking, Copies, NEW d \in Download, NEW new, ApplyStep(d, new) PROVE Copies'
<1>0. /\ UNCHANGED <<items, tx>> /\ list[d] # None /\ new \in E!RowChoices(d)
      /\ \A q \in Request : tx[q].at # "upload"
      /\ moved' = moved \ (E!Obsolete(d) \cup E!Outdated(d))
  BY NoneUploads DEF ApplyStep
<1>t. \A r \in ExchangeRows : links[r] \in E!LinkRow /\ reservations[r] \in E!ResvRow
  BY DEF Base, ExchangeTypes
<1>l. \A i \in E!InList(d) : i \in Item /\ (list[d][i].key = items[i].key => list[d][i] = items[i])
  <2>1. ASSUME NEW i \in E!InList(d)
        PROVE  i \in Item /\ (list[d][i].key = items[i].key => list[d][i] = items[i])
    <3>1. i \in Item /\ list[d][i].key \in Nat
      BY <1>0, InListTimed
    <3>2. list[d][i] = items[i] \/ list[d][i].key < items[i].key
      BY <1>0, <3>1 DEF Linking, Lists
    <3>3. items[i].key \in Nat
      BY <3>1 DEF Base, ExchangeTypes, Items, E!ItemRow
    <3> QED
      BY <3>1, <3>2, <3>3
  <2> QED
    BY <2>1
<1>1. ASSUME NEW r \in ExchangeRows
      PROVE  /\ r \notin moved' => InTime(reservations'[r], links'[r], items)
             /\ reservations'[r].state = "confirmed" => links'[r].item # None
  <2>0. /\ r \notin moved => InTime(reservations[r], links[r], items)
        /\ reservations[r].state = "confirmed" => links[r].item # None
    BY DEF Copies, Rows
  <2>1. CASE r \in E!Obsolete(d) /\ Deleted(r)
    BY <2>1 DEF Deleted, InTime, E!NoLink, E!NoResv
  <2>2. CASE r \in E!Outdated(d) /\ Refreshed(d, r)
    <3>1. /\ reservations'[r].time = list[d][links[r].item].time
          /\ reservations'[r].state = reservations[r].state
          /\ links'[r].item = links[r].item /\ links'[r].managed = links[r].managed
          /\ links'[r].key = list[d][links[r].item].key
      BY <1>t, <2>2 DEF Refreshed, E!LinkRow, E!ResvRow
    <3>2. links[r].item \in E!InList(d)
      BY <2>2 DEF E!Outdated
    <3>3. InTime(reservations'[r], links'[r], items)
      BY <1>l, <3>1, <3>2 DEF InTime
    <3> QED
      BY <2>0, <3>1, <3>3
  <2>3. CASE E!Free(r) /\ \E i \in E!Unknown(d) : Imports(d, r, i)
    <3>1. PICK i \in E!Unknown(d) : Imports(d, r, i)
      BY <2>3
    <3>2. i \in E!InList(d)
      BY DEF E!Unknown
    <3>3. /\ reservations'[r].time = list[d][i].time /\ reservations'[r].state = "created"
          /\ links'[r].item = i /\ links'[r].key = list[d][i].key
      BY <3>1 DEF Imports
    <3>4. InTime(reservations'[r], links'[r], items)
      BY <1>l, <3>2, <3>3 DEF InTime
    <3> QED
      BY <3>3, <3>4
  <2>4. CASE r \notin E!Obsolete(d) \cup E!Outdated(d) /\ Kept(r)
    BY <1>0, <2>0, <2>4 DEF Kept
  <2> QED
    BY <2>1, <2>2, <2>3, <2>4, RowLinked
<1>2. Rows'
  BY <1>0, <1>1 DEF Rows
<1> QED
  BY <1>0, <1>2 DEF Copies

LEMMA CopiesKept == ASSUME Base, Linking, Copies, ExchangeStep PROVE Copies'
<1>1. ASSUME NEW p \in Request, RequestStep(p) PROVE Copies'
  BY <1>1, CopiesBegin, CopiesLock, CopiesUpload, CopiesCommit DEF RequestStep
<1>2. ASSUME UNCHANGED <<reservations, links, items, tx, moved>> PROVE Copies'
  BY <1>2, CopiesSame
<1>3. ASSUME NEW d \in Download, DownloadStep(d) PROVE Copies'
  BY <1>2, <1>3, CopiesApply DEF DownloadStep, GrabStep, FindStep, DieStep
<1> QED
  BY <1>1, <1>2, <1>3, CopiesUser DEF ExchangeStep, ListenerStep

-----------------------------------------------------------------------------
(* ExchangeSync: what the calendars differ in is on its way                *)

\* An item that is there has a row with its change key, one that is gone has no imported row
Synced(i) ==
    IF E!There(i) THEN \E r \in ExchangeRows : links[r].item = i /\ links[r].key = items[i].key
    ELSE \A r \in ExchangeRows : links[r].item = i => ~links[r].managed

\* The link of an upload is of its item as it is
Fresh(l, its) == l.item # None /\ its[l.item].state = "there" => l.key = its[l.item].key

Noticed ==
    /\ \A i \in Item : Synced(i) \/ Pending \/ list[Listener] # None
    /\ \A p \in Request : tx[p].at = "upload" => Fresh(tx[p].link, items) \/ Pending
    /\ \A d \in Download : list[d] # None => list[d] = items \/ Pending
    /\ Replaced

LEMMA NoticedInit == E!Init => Noticed
<1> SUFFICES ASSUME E!Init PROVE Noticed
  OBVIOUS
<1>1. posted = <<"change">>
  BY DEF E!Init
<1>2. DOMAIN posted = {1} /\ posted[1] = "change"
  BY <1>1
<1>3. Pending /\ Replaced
  BY <1>2 DEF Pending, Queued, Replaced
<1> QED
  BY <1>3 DEF Noticed

LEMMA NoticedPending == ASSUME Pending', Replaced' PROVE Noticed'
BY DEF Noticed

\* A change of an item is on its way, or there is no subscription
LEMMA ItemPending ==
    ASSUME Base, NEW i \in Item, NEW row \in E!ItemRow, ItemStep(i, row), Noticed, UNCHANGED posted
    PROVE  Noticed'
<1>1. listener \in ListenerRow /\ listener' = [listener EXCEPT !.stream = listener.subscribed]
  BY DEF Base, ExchangeTypes, ItemStep
<1>2. listener'.stream \/ ~listener'.subscribed
  BY <1>1 DEF ListenerRow
<1>3. Pending'
  BY <1>2 DEF Pending
<1>4. Replaced'
  BY DEF Noticed, Replaced
<1> QED
  BY <1>3, <1>4, NoticedPending

\* Steps that change no link of a row and no item
LEMMA NoticedSame ==
    ASSUME Noticed, UNCHANGED <<links, items>>, Pending => Pending', Replaced',
           list[Listener] # None => list'[Listener] # None,
           \A d \in Download : list'[d] \in {None, list[d], items},
           \A p \in Request : tx'[p].at = "upload" =>
              \/ tx[p].at = "upload" /\ tx'[p].link = tx[p].link
              \/ tx'[p].link.item = None
    PROVE  Noticed'
<1>1. \A i \in Item : Synced(i) => Synced(i)'
  BY DEF Synced, E!There
<1>2. \A i \in Item : Synced(i)' \/ Pending' \/ list'[Listener] # None
  BY <1>1 DEF Noticed
<1>3. \A p \in Request : tx'[p].at = "upload" => Fresh(tx'[p].link, items') \/ Pending'
  BY DEF Noticed, Fresh
<1>4. \A d \in Download : list'[d] # None => list'[d] = items' \/ Pending'
  BY DEF Noticed
<1> QED
  BY <1>2, <1>3, <1>4 DEF Noticed

LEMMA NoticedListener == ASSUME Noticed, ListenerStep, Reports PROVE Noticed'
<1>1. Replaced' /\ (Pending => Pending')
  BY DEF Noticed, Reports
<1> QED
  BY <1>1, NoticedSame DEF ListenerStep

LEMMA PendingSame ==
    ASSUME UNCHANGED <<listener, posted>>, list'[Listener] = list[Listener], Noticed
    PROVE  Replaced' /\ (Pending => Pending')
BY DEF Noticed, Pending, Queued, Replaced

LEMMA NoticedBegin ==
    ASSUME Base, Noticed, NEW p \in Request, BeginStep(p) \/ SaveStep(p) \/ RollbackStep(p)
    PROVE  Noticed'
<1>1. /\ UNCHANGED <<links, items, list, listener, posted>> /\ tx'[p].at # "upload"
      /\ \A q \in Request \ {p} : tx'[q] = tx[q]
  BY NoTxMeant DEF BeginStep, SaveStep, RollbackStep, EndOf, TxOf
<1> QED
  BY <1>1, PendingSame, NoticedSame

LEMMA NoticedLock == ASSUME Base, Linking, Noticed, NEW p \in Request, LockStep(p) PROVE Noticed'
<1>0. /\ UNCHANGED <<links, items, list, listener, posted>> /\ tx'[p].link = links[tx[p].r]
      /\ \A q \in Request \ {p} : tx'[q] = tx[q]
      /\ tx[p].r \in ExchangeRows /\ links[tx[p].r].item \in Item \cup {None}
      /\ list[Listener] = None
  BY ExchangeConstants DEF LockStep, TxOf, Base, Timing, Meant, ExchangeTypes, E!LinkRow, Locks
<1>1. Replaced' /\ (Pending => Pending')
  BY <1>0, PendingSame
<1>2. Fresh(links[tx[p].r], items) \/ Pending
  <2>1. CASE links[tx[p].r].item = None
    BY <2>1 DEF Fresh
  <2>2. CASE links[tx[p].r].item \in Item /\ Synced(links[tx[p].r].item)
    BY <1>0, <2>2, ExchangeConstants DEF Synced, E!There, Fresh, Linking, OneLink
  <2> QED
    BY <1>0, <2>1, <2>2 DEF Noticed
<1>3. \A i \in Item : Synced(i) => Synced(i)'
  BY <1>0 DEF Synced, E!There
<1>4. \A q \in Request : tx'[q].at = "upload" => Fresh(tx'[q].link, items') \/ Pending'
  BY <1>0, <1>1, <1>2 DEF Noticed
<1>5. /\ \A i \in Item : Synced(i)' \/ Pending' \/ list'[Listener] # None
      /\ \A d \in Download : list'[d] # None => list'[d] = items' \/ Pending'
  BY <1>0, <1>1, <1>3 DEF Noticed
<1> QED
  BY <1>1, <1>4, <1>5 DEF Noticed

LEMMA NoticedUpload == ASSUME Base, Noticed, NEW p \in Request, UploadStep(p) PROVE Noticed'
<1>1. \E link : SavedStep(p, link)
  BY DEF UploadStep, NothingStep, CreateStep, UpdateStep, DeleteStep
<1>2. /\ UNCHANGED <<links, list, posted>> /\ tx[p].at = "upload"
      /\ \A q \in Request \ {p} : tx'[q] = tx[q]
  BY <1>1 DEF SavedStep, TxOf
<1>3. CASE NothingStep(p)
  <2>1. UNCHANGED <<items, listener>> /\ tx'[p].link = tx[p].link
    BY <1>3 DEF NothingStep, SavedStep
  <2> QED
    BY <1>2, <2>1, PendingSame, NoticedSame
<1>4. CASE \E i \in Item : DeleteStep(p, i) /\ ~E!There(i)
  <2>1. UNCHANGED <<items, listener>> /\ tx'[p].link.item = None
    BY <1>4 DEF DeleteStep, SavedStep, E!NoLink
  <2> QED
    BY <1>2, <2>1, PendingSame, NoticedSame
<1>5. CASE \E i \in Item, row \in E!ItemRow : ItemStep(i, row)
  BY <1>2, <1>5, ItemPending
<1> QED
  BY <1>3, <1>4, <1>5 DEF UploadStep, CreateStep, UpdateStep, DeleteStep

LEMMA NoticedCommit ==
    ASSUME Base, Copies, Noticed, NEW p \in Request, CommitStep(p) PROVE Noticed'
<1>0. /\ tx[p].r \in ExchangeRows /\ tx[p].at = "upload"
      /\ UNCHANGED <<items, list, listener, posted>> /\ ~E!Twice(p)
      /\ links'[tx[p].r] = tx[p].link
      /\ \A r \in ExchangeRows \ {tx[p].r} : links'[r] = links[r]
      /\ tx'[p].at = "idle" /\ \A q \in Request \ {p} : tx'[q] = tx[q]
  BY NoTxMeant DEF Base, ExchangeTypes, Timing, Meant, CommitStep, EndOf, TxOf
<1>1. Replaced' /\ (Pending => Pending')
  BY <1>0, PendingSame
<1>2. UploadFits(p) /\ (Fresh(tx[p].link, items) \/ Pending)
  BY <1>0 DEF Copies, Noticed
<1>3. ASSUME NEW i \in Item, Synced(i), ~Pending PROVE Synced(i)'
  <2>1. CASE E!There(i)
    <3>1. PICK r \in ExchangeRows : links[r].item = i /\ links[r].key = items[i].key
      BY <1>3, <2>1 DEF Synced
    <3>2. CASE r # tx[p].r
      BY <1>0, <2>1, <3>1, <3>2 DEF Synced, E!There
    <3>3. CASE r = tx[p].r
      <4>1. tx[p].link.item = i
        BY <1>0, <1>2, <2>1, <3>1, <3>3, ExchangeConstants DEF UploadFits
      <4>2. tx[p].link.key = items[i].key
        BY <1>2, <1>3, <2>1, <4>1, ExchangeConstants DEF Fresh, E!There
      <4> QED
        BY <1>0, <2>1, <4>1, <4>2 DEF Synced, E!There
    <3> QED
      BY <3>2, <3>3
  <2>2. CASE ~E!There(i)
    <3>1. \A r \in ExchangeRows : links[r].item = i => ~links[r].managed
      BY <1>3, <2>2 DEF Synced
    <3>2. tx[p].link.item = i => ~tx[p].link.managed
      BY <1>0, <1>2, <3>1 DEF UploadFits
    <3> QED
      BY <1>0, <2>2, <3>1, <3>2 DEF Synced, E!There
  <2> QED
    BY <2>1, <2>2
<1>4. \A i \in Item : Synced(i)' \/ Pending' \/ list'[Listener] # None
  BY <1>0, <1>1, <1>3 DEF Noticed
<1>5. \A q \in Request : tx'[q].at = "upload" => Fresh(tx'[q].link, items') \/ Pending'
  BY <1>0, <1>1 DEF Noticed
<1>6. \A d \in Download : list'[d] # None => list'[d] = items' \/ Pending'
  BY <1>0, <1>1 DEF Noticed
<1> QED
  BY <1>1, <1>4, <1>5, <1>6 DEF Noticed

LEMMA NoticedGrab == ASSUME Base, Noticed, NEW d \in Download, GrabStep(d) PROVE Noticed'
<1>0. /\ UNCHANGED <<links, items, tx, list, posted>> /\ \A e \in Download : list[e] = None
      /\ UNCHANGED listener \/ listener'.at = "sync"
  BY ExchangeConstants DEF GrabStep, Base, Locks
<1>1. CASE UNCHANGED listener
  BY <1>0, <1>1, PendingSame, NoticedSame
<1>2. CASE listener'.at = "sync"
  <2>1. Pending' /\ Replaced'
    BY <1>0, <1>2, ExchangeConstants DEF Pending, Noticed, Replaced
  <2> QED
    BY <2>1, NoticedPending
<1> QED
  BY <1>0, <1>1, <1>2

LEMMA NoticedFind == ASSUME Base, Noticed, NEW d \in Download, FindStep(d) PROVE Noticed'
<1>0. /\ UNCHANGED <<links, items, tx, listener, posted>> /\ held = d
      /\ list' = [list EXCEPT ![d] = items] /\ list = [e \in Download |-> list[e]]
      /\ list[d] = None
  BY DEF FindStep, Base, ExchangeTypes
<1>l. list'[d] = items /\ \A e \in Download \ {d} : list'[e] = list[e]
  BY <1>0
<1>1. CASE d # Listener
  <2>1. list'[Listener] = list[Listener]
    BY <1>1, <1>l, ExchangeConstants
  <2> QED
    BY <1>0, <1>l, <2>1, PendingSame, NoticedSame
<1>2. CASE d = Listener
  <2>1. listener.at = "sync" /\ \A e \in Download \ {d} : list[e] = None
    BY <1>0, <1>2 DEF Base, Locks
  <2>2. Replaced'
    BY <1>0 DEF Noticed, Replaced
  <2>3. CASE items = None
    <3>1. Pending'
      BY <1>0, <1>2, <1>l, <2>1, <2>3 DEF Pending
    <3> QED
      BY <2>2, <3>1, NoticedPending
  <2>4. CASE items # None
    <3>1. \A q \in Request : tx'[q].at # "upload"
      BY <1>0, NoneUploads
    <3>2. \A e \in Download : list'[e] # None => list'[e] = items'
      BY <1>0, <1>l, <2>1
    <3>3. list'[Listener] # None
      BY <1>2, <1>l, <2>4
    <3> QED
      BY <2>2, <3>1, <3>2, <3>3 DEF Noticed
  <2> QED
    BY <2>3, <2>4
<1> QED
  BY <1>1, <1>2

LEMMA NoticedDie == ASSUME Base, Noticed, NEW d \in Download, DieStep(d) PROVE Noticed'
<1>0. /\ UNCHANGED <<links, items, tx>> /\ \A e \in Download : list'[e] = None
      /\ IF d = Listener THEN ~listener'.subscribed /\ posted' = <<>>
         ELSE UNCHANGED <<listener, posted>>
  BY ListGone DEF DieStep
<1>1. CASE d = Listener
  <2>1. DOMAIN posted' = {}
    BY <1>0, <1>1
  <2>2. Pending' /\ Replaced'
    BY <1>0, <1>1, <2>1 DEF Pending, Replaced
  <2> QED
    BY <2>2, NoticedPending
<1>2. CASE d # Listener
  <2>1. list[Listener] = None
    BY <1>2, ExchangeConstants DEF DieStep, Base, Locks
  <2>2. list'[Listener] = list[Listener]
    BY <1>0, <2>1, ExchangeConstants
  <2> QED
    BY <1>0, <1>2, <2>1, <2>2, PendingSame, NoticedSame
<1> QED
  BY <1>1, <1>2

\* A download of the calendar as it is leaves all synchronised
LEMMA AppliedSynced ==
    ASSUME Base, Linking, NEW d \in Download, NEW new, ApplyStep(d, new), list[d] = items,
           NEW i \in Item
    PROVE  Synced(i)'
<1>0. UNCHANGED items /\ list[d] # None
  BY DEF ApplyStep
<1>t. \A r \in ExchangeRows : links[r] \in E!LinkRow
  BY DEF Base, ExchangeTypes
<1>o. \A r \in ExchangeRows : Refreshed(d, r) =>
         /\ links'[r].item = links[r].item /\ links'[r].managed = links[r].managed
         /\ links'[r].key = items[links[r].item].key
  BY <1>t DEF Refreshed, E!LinkRow
<1>n. i # None
  BY ExchangeConstants
<1>1. CASE E!There(i)
  <2>0. i \in E!InList(d)
    BY <1>1 DEF E!InList, E!There
  <2>1. CASE i \in E!Unknown(d)
    <3>1. new[i] \in ExchangeRows /\ Imports(d, new[i], i)
      BY <2>1, RowOfItem
    <3>2. links'[new[i]].item = i /\ links'[new[i]].key = items'[i].key
      BY <1>0, <3>1 DEF Imports
    <3> QED
      BY <1>0, <1>1, <3>1, <3>2 DEF Synced, E!There
  <2>2. CASE i \notin E!Unknown(d)
    <3>1. PICK r \in ExchangeRows : links[r].item = i
      BY <2>0, <2>2 DEF E!Unknown
    <3>2. r \notin E!Obsolete(d) /\ links[r] # E!NoLink
      BY <1>n, <2>0, <3>1 DEF E!Obsolete, E!NoLink
    <3>3. CASE r \in E!Outdated(d) /\ Refreshed(d, r)
      <4>1. links'[r].item = i /\ links'[r].key = items'[i].key
        BY <1>0, <1>o, <3>1, <3>3
      <4> QED
        BY <1>0, <1>1, <4>1 DEF Synced, E!There
    <3>4. CASE r \notin E!Outdated(d) /\ Kept(r)
      <4>1. links[r].key = items[i].key
        BY <2>0, <3>1, <3>4 DEF E!Outdated
      <4>2. links'[r].item = i /\ links'[r].key = items'[i].key
        BY <1>0, <3>1, <3>4, <4>1 DEF Kept
      <4> QED
        BY <1>0, <1>1, <4>2 DEF Synced, E!There
    <3> QED
      BY <3>2, <3>3, <3>4, RowLinked
  <2> QED
    BY <2>1, <2>2
<1>2. CASE ~E!There(i)
  <2>1. ASSUME NEW r \in ExchangeRows, links'[r].item = i PROVE ~links'[r].managed
    <3>0. i \notin E!InList(d)
      BY <1>2 DEF E!InList, E!There
    <3>1. CASE r \in E!Obsolete(d) /\ Deleted(r)
      BY <3>1 DEF Deleted, E!NoLink
    <3>2. CASE r \in E!Outdated(d) /\ Refreshed(d, r)
      BY <1>o, <2>1, <3>0, <3>2 DEF E!Outdated
    <3>3. CASE \E j \in E!Unknown(d) : Imports(d, r, j)
      BY <2>1, <3>0, <3>3 DEF Imports, E!Unknown
    <3>4. CASE r \notin E!Obsolete(d) /\ Kept(r)
      BY <2>1, <3>0, <3>4 DEF Kept, E!Obsolete
    <3> QED
      BY <3>1, <3>2, <3>3, <3>4, RowLinked
  <2> QED
    BY <1>0, <1>2, <2>1 DEF Synced, E!There
<1> QED
  BY <1>1, <1>2

LEMMA NoticedApply ==
    ASSUME Base, Linking, Noticed, NEW d \in Download, NEW new, ApplyStep(d, new) PROVE Noticed'
<1>0. /\ UNCHANGED <<items, tx, posted>> /\ list[d] # None /\ held = d
      /\ \A q \in Request : tx'[q].at # "upload"
      /\ \A e \in Download : list'[e] = None
      /\ listener \in ListenerRow
      /\ listener' = IF d = Listener THEN [listener EXCEPT !.at = "wait"] ELSE listener
  BY NoneUploads, ListGone DEF ApplyStep, Base, ExchangeTypes
<1>1. Replaced'
  BY <1>0 DEF Noticed, Replaced
<1>2. CASE Pending
  <2>1. CASE d = Listener
    <3>1. listener.at = "sync"
      BY <1>0, <2>1 DEF Base, Locks
    <3>2. /\ listener'.stream = listener.stream /\ listener'.changed = listener.changed
          /\ listener'.subscribed = listener.subscribed
      BY <1>0, <2>1 DEF ListenerRow
    <3>3. Pending'
      BY <1>0, <1>2, <2>1, <3>1, <3>2 DEF Pending, Queued
    <3> QED
      BY <1>1, <3>3, NoticedPending
  <2>2. CASE d # Listener
    <3>1. Pending'
      BY <1>0, <1>2, <2>2, ExchangeConstants DEF Pending, Queued
    <3> QED
      BY <1>1, <3>1, NoticedPending
  <2> QED
    BY <2>1, <2>2
<1>3. CASE ~Pending
  <2>1. list[d] = items
    BY <1>0, <1>3 DEF Noticed
  <2>2. \A i \in Item : Synced(i)'
    BY <2>1, AppliedSynced
  <2> QED
    BY <1>0, <1>1, <2>2 DEF Noticed
<1> QED
  BY <1>2, <1>3

LEMMA NoticedKept == ASSUME Base, Linking, Copies, Noticed, ExchangeStep PROVE Noticed'
<1>1. ASSUME NEW p \in Request, RequestStep(p) PROVE Noticed'
  BY <1>1, NoticedBegin, NoticedLock, NoticedUpload, NoticedCommit DEF RequestStep
<1>2. ASSUME NEW d \in Download, DownloadStep(d) PROVE Noticed'
  BY <1>2, NoticedGrab, NoticedFind, NoticedDie, NoticedApply DEF DownloadStep
<1>3. ASSUME NEW i \in Item, NEW row \in E!ItemRow, UserStep(i, row) PROVE Noticed'
  BY <1>3, ItemPending DEF UserStep
<1> QED
  BY <1>1, <1>2, <1>3, NoticedListener DEF ExchangeStep

\* Nothing is on its way: the calendars agree
LEMMA SettledAgrees == ASSUME Base, Linking, Copies, Noticed PROVE E!ExchangeAgrees
<1> SUFFICES ASSUME E!Settled
             PROVE  /\ \A i \in Item : E!There(i) => \E r \in ExchangeRows :
                          /\ links[r].item = i
                          /\ r \notin moved => reservations[r].time = items[i].time
                    /\ \A r \in ExchangeRows :
                          /\ links[r].managed => E!There(links[r].item)
                          /\ reservations[r].state = "confirmed" => links[r].item # None
  BY DEF E!ExchangeAgrees
<1>1. DOMAIN posted = {} /\ list[Listener] = None
  BY ExchangeConstants DEF E!Settled, Base, Locks
<1>2. ~Pending
  BY <1>1 DEF E!Settled, E!Started, Pending, Queued
<1>3. \A i \in Item : Synced(i)
  BY <1>1, <1>2 DEF Noticed
<1>4. ASSUME NEW i \in Item, E!There(i)
      PROVE  \E r \in ExchangeRows :
                /\ links[r].item = i
                /\ r \notin moved => reservations[r].time = items[i].time
  <2>1. PICK r \in ExchangeRows : links[r].item = i /\ links[r].key = items[i].key
    BY <1>3, <1>4 DEF Synced
  <2>2. i # None /\ (r \notin moved => InTime(reservations[r], links[r], items))
    BY ExchangeConstants DEF Copies, Rows
  <2> QED
    BY <1>4, <2>1, <2>2 DEF InTime, E!There
<1>5. ASSUME NEW r \in ExchangeRows, links[r].managed PROVE E!There(links[r].item)
  <2>1. links[r].item \in Item
    BY <1>5 DEF Base, ExchangeTypes, E!LinkRow, Linking, KnownLinks, LinkFits
  <2> QED
    BY <1>3, <1>5, <2>1 DEF Synced
<1>6. \A r \in ExchangeRows : reservations[r].state = "confirmed" => links[r].item # None
  BY DEF Copies, Rows
<1> QED
  BY <1>4, <1>5, <1>6

-----------------------------------------------------------------------------
(* Theorems                                                                *)

ExchangeInv == Base /\ Linking /\ Copies /\ Noticed

\* The inductive invariant of the synchronisation with Exchange: who holds the lock, which items
\* the links are of, how old the lists and the links are, which reservations are at the time of their
\* items, and that every other difference is noticed.
THEOREM ExchangeInvariant == Spec => []ExchangeInv
<1>1. E!Init => ExchangeInv
  BY BaseInit, LinkingInit, CopiesInit, NoticedInit DEF ExchangeInv
<1>2. ExchangeInv /\ [E!Next]_exchange => ExchangeInv'
  BY ExchangeSteps, BaseKept, LinkingKept, CopiesKept, NoticedKept DEF ExchangeInv
<1> QED
  BY <1>1, <1>2, ExchangePart, PTL

\* However requests, downloads, users of the calendar and crashes interleave, no item is imported
\* that a request has created and is about to link, unless its creation was rolled back
\* (the lock of ExchangeResource in signals.handle_reservation_save and
\* downloader.sync_from_exchange).
THEOREM NothingIsEchoed == Spec => []NoEcho
<1>1. ExchangeInv => NoEcho
  BY LinkingNoEcho DEF ExchangeInv, NoEcho
<1> QED
  BY <1>1, ExchangeInvariant, PTL

\* Whenever requests, downloads and the listener have come to rest, every item has a reservation, at
\* its time unless Respa has moved an imported one since; no imported reservation has lost its item
\* and every confirmed one was uploaded: no dead thread, restart, rollback or deadlock loses a
\* change (listener.py, downloader.py).
THEOREM RestMeansAgreement == Spec => []ExchangeAgrees
<1>1. ExchangeInv => ExchangeAgrees
  BY SettledAgrees DEF ExchangeInv, ExchangeAgrees
<1> QED
  BY <1>1, ExchangeInvariant, PTL

\* What a row, a transaction and the calendar as it is read may be, for E!TypeOK.
LEMMA ExchangeTyped == ASSUME Base PROVE E!TypeOK
<1>1. ASSUME NEW p \in Request
      PROVE  /\ tx[p].at \in {"idle", "save", "saved", "upload"}
             /\ tx[p].r \in ExchangeRows \cup {None}
             /\ tx[p].row \in E!ResvRow /\ tx[p].link \in E!LinkRow
             /\ tx[p].at # "idle" => tx[p].row.time # None
             /\ Len(tx[p].todo) <= 2
             /\ \A i \in DOMAIN tx[p].todo : tx[p].todo[i] \in E!ReservationState \ {"none"}
  <2>1. tx[p] \in TxRow /\ Meant(tx[p])
    BY DEF Base, ExchangeTypes, Timing
  <2>2. tx[p].at # "idle" => tx[p].row.time # None
    BY <2>1, ExchangeConstants DEF Meant, Timed
  <2>3. tx[p].todo \in Seq(Saves)
    BY <2>1 DEF TxRow
  <2>4. \A i \in DOMAIN tx[p].todo : tx[p].todo[i] \in Saves
    BY <2>3
  <2> QED
    BY <2>1, <2>2, <2>4 DEF TxRow, Meant, Saves
<1>2. \A i \in DOMAIN posted : posted[i] \in {"change", "dying", "replaced"}
  BY DEF Base, ExchangeTypes, Kinds
<1>3. listener.at \in {"wait", "sync", "down"}
  BY DEF Base, ExchangeTypes, ListenerRow
<1> QED
  BY <1>1, <1>2, <1>3 DEF E!TypeOK, Base, ExchangeTypes, Items

-----------------------------------------------------------------------------
(***************************************************************************)
(* CalendarSync (Outlook)                                                  *)
(***************************************************************************)

HIDE ExchangeConstants

LEMMA OutlookPart == Spec => O!Init /\ [][O!Next]_outlook
<1>1. Init => O!Init
  BY DEF Init
<1>2. [Next]_vars => [O!Next]_outlook
  BY DEF Next, InOutlook, InExchange, vars
<1> QED
  BY <1>1, <1>2, PTL DEF Spec

LEMMA OutlookConstants ==
    /\ OutlookRows \subseteq Nat /\ OutlookEvents \subseteq Nat
    /\ OutlookRows \cap OutlookEvents = {}
    /\ None \notin OutlookRows \cup OutlookEvents \cup Time
    /\ MaxEvents \in Nat
    /\ NearAndFar \subseteq [Time -> {"far", "near", "past"}]
BY Constants DEF O!CalendarAssumption

USE OutlookConstants

-----------------------------------------------------------------------------
(* Types, and what the process holds at each point of its run              *)

ResvRows == [state : {"none", "booked", "cancelled"}, time : Time \cup {None},
             origin : O!Booking \cup {None}]
EventRows == [state : {"none", "there", "gone"}, time : Time \cup {None},
              origin : O!Booking \cup {None}]
MapRows == [event : OutlookEvents \cup {None}, key : Time \cup {None}]
Operations ==
    [act : {"update Respa", "delete in Respa", "create in calendar", "update calendar",
            "delete in calendar", "remove mapping"}, r : OutlookRows, e : OutlookEvents]
    \cup [act : {"create in Respa"}, r : {None}, e : OutlookEvents]
    \cup [act : {"create in calendar"}, r : OutlookRows, e : {None}]
Jobs == [respa : [OutlookRows -> O!ChangeType \ {"expired"}],
         remote : [OutlookEvents -> O!ChangeType \ {"no change"}],
         listed : SUBSET OutlookEvents, rows : [OutlookRows -> MapRows],
         readR : SUBSET OutlookRows, readE : SUBSET OutlookEvents, todo : SUBSET Operations,
         draft : [OutlookRows -> ResvRows], made : SUBSET OutlookEvents]

\* A row or an event is there, or was; a booking that no fault has struck; not in the past
Made(x) == x.state # "none"
Whole(x) == IF Made(x) THEN x.time \in Time /\ x.origin \in O!Booking ELSE x = O!NoResv
Spared(x) == x.origin \notin hit
Lasting(x) == phase[x.time] # "past"
Gone(e) == events[e].state = "gone"
\* What the process will commit: a reservation, and the row that maps it
Now(r) == IF O!Written(r) THEN job.draft[r] ELSE resv[r]
Link(r) == IF at = "idle" THEN rows[r] ELSE job.rows[r]

\* The types of O!TypeOK, with the fields of the job
OutlookTypes ==
    /\ phase \in [Time -> {"far", "near", "past"}]
    /\ resv \in [OutlookRows -> ResvRows]
    /\ events \in [OutlookEvents -> EventRows]
    /\ rows \in [OutlookRows -> MapRows]
    /\ recent \subseteq OutlookRows /\ fresh \subseteq OutlookEvents
    /\ queue \in BOOLEAN /\ notices \in BOOLEAN
    /\ at \in {"idle", "plan", "ops"}
    /\ job \in Jobs
    /\ left \in 0 .. MaxEvents
    /\ hit \subseteq O!Booking

\* A row or an event has a time and an origin, or is blank
Wholeness ==
    /\ \A r \in OutlookRows : Whole(resv[r]) /\ Whole(job.draft[r])
    /\ \A e \in OutlookEvents : Whole(events[e])
    /\ \A e \in fresh \cup job.readE \cup job.made : Made(events[e])

\* The process keeps nothing between its runs, and writes nothing before it has decided
Phases ==
    /\ at = "idle" => job = O!Idle
    /\ at = "plan" => job.draft = O!Idle.draft /\ job.made = {} /\ job.todo = {}

Basis == OutlookTypes /\ Wholeness /\ Phases

-----------------------------------------------------------------------------
(* Origins and mappings: which row and which event are one booking         *)

Known(o) == /\ o \in OutlookRows => Made(resv[o])
            /\ o \in OutlookEvents => Made(events[o])

\* The booking of a row or event was first a row or event that is still known; a draft keeps it
Origins ==
    /\ \A r \in OutlookRows :
          /\ Made(resv[r]) => Known(resv[r].origin)
          /\ O!Written(r) => Known(job.draft[r].origin)
          /\ O!Written(r) /\ Made(resv[r]) => job.draft[r].origin = resv[r].origin
    /\ \A e \in OutlookEvents : Made(events[e]) => Known(events[e].origin)

\* A mapping is of an event with the origin of its reservation
MapFits(row, m) == m.event # None =>
    Made(row) /\ Made(events[m.event]) /\ row.origin = events[m.event].origin

\* An event has one reservation, as committed and as the process means to commit
Mappings ==
    /\ \A r \in OutlookRows : MapFits(resv[r], rows[r]) /\ MapFits(Now(r), Link(r))
    /\ \A r, s \in OutlookRows : rows[r].event # None /\ rows[r].event = rows[s].event => r = s
    /\ \A r, s \in OutlookRows : Link(r).event # None /\ Link(r).event = Link(s).event => r = s
    /\ at = "plan" => \A r \in OutlookRows : Link(r).event = rows[r].event

-----------------------------------------------------------------------------
(* Families: the rows and events of one booking                            *)

\* A booking has one row, and one event that is there
OneRow == \A r, s \in OutlookRows :
    Made(Now(r)) /\ Made(Now(s)) /\ Now(r).origin = Now(s).origin /\ Spared(Now(r)) => r = s
OneEvent == \A d, e \in OutlookEvents :
    O!There(d) /\ O!There(e) /\ events[d].origin = events[e].origin /\ Spared(events[d]) => d = e

\* The reservation and the event are the same booking
Akin(row, e) == Made(row) /\ O!There(e) /\ row.origin = events[e].origin /\ Spared(row)

\* They are mapped to each other, or the process has just made the event and not committed yet
Paired == \A r \in OutlookRows, e \in OutlookEvents :
    /\ Akin(Now(r), e) /\ Lasting(events[e]) => Link(r).event = e
    /\ Akin(resv[r], e) /\ Lasting(events[e]) => rows[r].event = e \/ e \in job.made

\* In the past, where nothing is synchronised any more, they are at the same time
Alike(row, e) == Akin(row, e) /\ (~Lasting(row) \/ ~Lasting(events[e])) => row.time = events[e].time
PastAlike == \A r \in OutlookRows, e \in OutlookEvents : Alike(resv[r], e) /\ Alike(Now(r), e)

\* Only bookings that the horizon has struck are beyond it
Close(x) == Made(x) /\ Spared(x) => phase[x.time] # "far"
NotFar ==
    /\ \A r \in OutlookRows : Close(resv[r]) /\ Close(Now(r))
    /\ \A e \in OutlookEvents : Close(events[e])

-----------------------------------------------------------------------------
(* What differs is noted                                                   *)

InForce(row) == row.state = "booked" /\ Spared(row) /\ Lasting(row)
Dropped(row) == row.state = "cancelled" /\ Spared(row) /\ Lasting(row)
Live(e) == O!There(e) /\ Spared(events[e]) /\ Lasting(events[e])

\* As committed: a difference between a row and its event is after one of the two mementos
Recorded ==
    /\ \A r \in OutlookRows :
          /\ InForce(resv[r]) => r \in recent \/ (rows[r].event # None /\ rows[r].key = resv[r].time)
          /\ Dropped(resv[r]) /\ rows[r].event # None /\ O!There(rows[r].event) => r \in recent
    /\ \A e \in OutlookEvents : Live(e) =>
          e \in fresh \/ (\E r \in OutlookRows : rows[r].event = e /\ rows[r].key = events[e].time)

\* To be read yet, with a request in the queue or a notification to bring one
Unread(r) == r \in O!Unread /\ queue
Unseen(e) == e \in fresh \ job.readE /\ (queue \/ notices)

\* As the process will leave it: a difference is to be read, is to be worked off, or is none
RowNoted(r) ==
    /\ InForce(Now(r)) =>
         \/ Unread(r)
         \/ \E o \in job.todo : o.r = r
         \/ (Link(r).event # None /\ Link(r).key = Now(r).time)
    /\ Dropped(Now(r)) /\ Link(r).event # None /\ O!There(Link(r).event) =>
         \/ Unread(r) \/ (O!Written(r) /\ queue)
         \/ \E o \in job.todo : o.r = r /\ o.act = "delete in calendar"
    /\ InForce(Now(r)) /\ Link(r).event # None /\ ~O!There(Link(r).event) =>
         queue \/ notices \/ (\E o \in job.todo : o.r = r)

EventNoted(e) == Live(e) =>
    \/ Unseen(e)
    \/ \E o \in job.todo : o.e = e
    \/ \E r \in OutlookRows : Link(r).event = e /\ Link(r).key = events[e].time

Noted == at # "plan" =>
    /\ \A r \in OutlookRows : RowNoted(r)
    /\ \A e \in OutlookEvents : EventNoted(e)

-----------------------------------------------------------------------------
(* The operations that the process has decided on                          *)

\* An operation is of a mapping that still holds, on what it has not yet written
OpFits(o) ==
    /\ o.r # None => Link(o.r).event = o.e /\ rows[o.r].event = o.e /\ ~O!Written(o.r) /\ Made(resv[o.r])
    /\ o.e # None => Made(events[o.e])
    /\ o.act = "create in Respa" =>
         Lasting(events[o.e]) /\ \A r \in OutlookRows : Link(r).event # o.e

\* The cause of an operation holds as it did when it was decided, or the row is to be read again
OpMeant(o) == o.r # None /\ Spared(resv[o.r]) =>
    /\ Lasting(resv[o.r]) => Link(o.r).key = resv[o.r].time \/ Unread(o.r)
    /\ o.act = "create in calendar" =>
         /\ Lasting(resv[o.r]) /\ (O!Booked(o.r) \/ Unread(o.r))
         /\ o.e # None => Gone(o.e)
    /\ o.act = "delete in Respa" => Gone(o.e)
    /\ o.act = "delete in calendar" => ~O!Booked(o.r)
    /\ o.act = "remove mapping" =>
         (~O!Booked(o.r) \/ ~Lasting(resv[o.r])) /\ (Gone(o.e) \/ ~Lasting(events[o.e]))

\* No two operations are of the same reservation or event
Todo ==
    /\ \A o \in job.todo : OpFits(o) /\ OpMeant(o)
    /\ \A o, p \in job.todo : (o.r # None /\ o.r = p.r) \/ (o.e # None /\ o.e = p.e) => o = p

\* A cancellation waits for its commit: the event was deleted
Justified == \A r \in OutlookRows :
    O!Written(r) /\ job.draft[r].state = "cancelled" /\ O!Booked(r) /\ Spared(resv[r]) =>
        rows[r].event # None /\ Gone(rows[r].event)

-----------------------------------------------------------------------------
(* What the process has read and not yet decided upon                      *)

RowRead(r) == Made(resv[r]) /\ Spared(resv[r]) =>
    /\ job.respa[r] # "absent" => r \in recent /\ Lasting(resv[r])
    /\ job.respa[r] = "deleted" => ~O!Booked(r)
    /\ Lasting(resv[r]) =>
         /\ r \in job.readR => job.respa[r] = O!RespaType(rows[r], r) /\ job.rows[r].key = resv[r].time
         /\ r \in O!Unread => queue
         /\ rows[r].event # None =>
               rows[r].event \in job.listed \/ job.remote[rows[r].event] = "deleted"
    /\ rows[r].event # None =>
         /\ job.remote[rows[r].event] = "deleted" => Gone(rows[r].event) /\ Lasting(resv[r])
         /\ job.remote[rows[r].event] = "expired" => ~Lasting(resv[r])

EventRead(e) ==
    /\ Live(e) => IF e \in job.readE THEN job.remote[e] = "changed" ELSE (e \in fresh => queue \/ notices)
    /\ job.remote[e] = "changed" => e \in job.listed /\ e \in fresh
    /\ job.remote[e] \in {"deleted", "expired"} => \E r \in OutlookRows : rows[r].event = e

\* What it read is what is there, or is to be read again
Reading == at = "plan" =>
    /\ \A r \in OutlookRows :
          /\ RowRead(r) /\ (job.respa[r] # "absent" => Made(resv[r]))
          /\ job.respa[r] \in {"absent", "no change"} => job.rows[r] = rows[r]
    /\ \A e \in OutlookEvents : EventRead(e)

-----------------------------------------------------------------------------
(* The steps *)

\* A user of Respa saves a reservation: the job in hand forgets or keeps that it was read
RespaChanges(r, row) ==
    /\ ~O!Written(r)
    /\ row.state \in {"booked", "cancelled"} /\ row.time \in Time /\ row.origin \in O!Booking
    /\ phase[row.time] # "past"
    /\ \/ resv[r].state = "none" /\ row.origin = r /\ row.state = "booked"
       \/ O!Booked(r) /\ Lasting(resv[r]) /\ row.origin = resv[r].origin
    /\ resv' \in [OutlookRows -> ResvRows] /\ resv'[r] = row
    /\ \A s \in OutlookRows \ {r} :
          /\ resv'[s] = resv[s]
          /\ s \in recent' <=> s \in recent
          /\ s \in job'.readR <=> s \in job.readR
    /\ recent' \subseteq OutlookRows /\ job' \in Jobs
    /\ (at = "idle" => job' = job)
    /\ job' = [job EXCEPT !.readR = job'.readR]
    /\ queue' = TRUE
    /\ hit \subseteq hit' /\ hit' \subseteq O!Booking
    /\ row.origin \notin hit' =>
          /\ phase[row.time] # "far" \/ row.time = resv[r].time
          /\ r \in recent' /\ r \notin job'.readR
    /\ left' \in 0 .. MaxEvents
    /\ UNCHANGED <<phase, events, rows, fresh, notices, at>>

\* A user of the calendar makes, moves or deletes an event
CalendarChanges(e, row) ==
    /\ row.state \in {"there", "gone"} /\ row.time \in Time /\ row.origin \in O!Booking
    /\ phase[row.time] # "past"
    /\ \/ events[e].state = "none" /\ row.origin = e
       \/ O!There(e) /\ Lasting(events[e]) /\ row.origin = events[e].origin
    /\ events' \in [OutlookEvents -> EventRows] /\ events'[e] = row
    /\ \A d \in OutlookEvents \ {e} : events'[d] = events[d]
    /\ fresh' = fresh \cup {e} /\ notices' = TRUE
    /\ job' \in Jobs
    /\ job' = [job EXCEPT !.readE = @ \ {e}]
    /\ (at = "idle" => job' = job)
    /\ hit \subseteq hit' /\ hit' \subseteq O!Booking
    /\ row.origin \notin hit' => phase[row.time] # "far" \/ row.time = events[e].time
    /\ left' \in 0 .. MaxEvents
    /\ UNCHANGED <<phase, resv, rows, recent, queue, at>>

\* One more entry in the queue
Queues ==
    /\ queue' = TRUE /\ notices' \in BOOLEAN
    /\ UNCHANGED <<phase, resv, events, rows, recent, fresh, at, job, left, hit>>

InRead(r) == r \in recent /\ Made(resv[r]) /\ O!Near(resv[r])

\* The process reads both sides
Reads(listed) ==
    /\ at = "idle" /\ at' = "plan" /\ queue' = FALSE
    /\ job' \in Jobs
    /\ job'.draft = O!Idle.draft /\ job'.made = {} /\ job'.todo = {} /\ job'.listed = listed
    /\ listed \subseteq O!InCalendar
    /\ \A e \in O!InCalendar \ listed : events[e].origin \in hit'
    /\ \A r \in OutlookRows :
          IF InRead(r)
          THEN /\ r \in job'.readR /\ job'.respa[r] = O!RespaType(rows[r], r)
               /\ job'.rows[r] = O!Reread(rows[r], r)
          ELSE /\ job'.respa[r] = "absent" /\ job'.rows[r] = rows[r]
               /\ r \in job'.readR => r \in recent
    /\ \A e \in OutlookEvents :
          IF e \in listed \cap fresh THEN e \in job'.readE /\ job'.remote[e] = "changed"
          ELSE /\ e \in job'.readE => e \in fresh
               /\ job'.remote[e] # "changed"
               /\ job'.remote[e] \in {"deleted", "expired"} =>
                     e \notin listed /\ \E r \in OutlookRows : rows[r].event = e
    /\ \A r \in OutlookRows : rows[r].event # None /\ rows[r].event \notin listed =>
          job'.remote[rows[r].event] = O!UnlistedType(r)
    /\ hit \subseteq hit' /\ hit' \subseteq O!Booking
    /\ left' \in 0 .. MaxEvents
    /\ UNCHANGED <<phase, resv, events, rows, recent, fresh, notices>>

\* The other side of what has changed, asked for by Plan
Asked(r) == /\ job.rows[r].event # None /\ job.respa[r] # "absent"
            /\ job.remote[job.rows[r].event] = "absent"
RemoteType(e) ==
    IF \E r \in OutlookRows : Asked(r) /\ job.rows[r].event = e
    THEN IF e \in fresh THEN "changed" ELSE "no change"
    ELSE job.remote[e]
Other(r) == /\ job.rows[r].event # None /\ job.respa[r] = "absent"
            /\ RemoteType(job.rows[r].event) # "absent"
RowType(r) == IF Other(r) THEN O!RespaType(job.rows[r], r) ELSE job.respa[r]
ActionOf(r, e) == O!ActionFor(IF r = None THEN "absent" ELSE RowType(r),
                              IF e = None THEN "absent" ELSE RemoteType(e))
Pair(r, e) ==
    \/ /\ r \in OutlookRows /\ e = job.rows[r].event
       /\ RowType(r) # "absent" \/ (e # None /\ RemoteType(e) # "absent")
    \/ /\ r = None /\ e \in OutlookEvents
       /\ RemoteType(e) # "absent" /\ \A s \in OutlookRows : job.rows[s].event # e

\* The process decides what to do
Decides ==
    /\ at = "plan" /\ at' = "ops" /\ job.listed \subseteq O!InCalendar
    /\ job'.draft = job.draft /\ job'.made = job.made
    /\ job'.readR = job.readR /\ job'.readE = job.readE
    /\ job'.rows = [r \in OutlookRows |->
          IF Other(r) THEN O!Reread(job.rows[r], r) ELSE job.rows[r]]
    /\ job'.respa = O!Idle.respa /\ job'.remote = O!Idle.remote /\ job'.listed = {}
    /\ \A o \in job'.todo : \E r \in OutlookRows \cup {None}, e \in OutlookEvents \cup {None} :
          Pair(r, e) /\ ActionOf(r, e) # "none" /\ o = [act |-> ActionOf(r, e), r |-> r, e |-> e]
    /\ \A r \in OutlookRows \cup {None}, e \in OutlookEvents \cup {None} :
          Pair(r, e) /\ ActionOf(r, e) # "none" =>
             [act |-> ActionOf(r, e), r |-> r, e |-> e] \in job'.todo
    /\ job' = [respa |-> job'.respa, remote |-> job'.remote, listed |-> job'.listed,
               rows |-> job'.rows, readR |-> job'.readR, readE |-> job'.readE,
               todo |-> job'.todo, draft |-> job'.draft, made |-> job'.made]
    /\ UNCHANGED <<phase, resv, events, rows, recent, fresh, queue, notices, left, hit>>

\* The process ends before its commit
Stops ==
    /\ at # "idle" /\ at' = "idle" /\ job' = O!Idle /\ queue' = TRUE
    /\ hit' = hit \cup {events[e].origin : e \in job.made}
    /\ left' \in 0 .. MaxEvents
    /\ UNCHANGED <<phase, resv, events, rows, recent, fresh, notices>>

\* One operation, on one row or mapping r and one event e
Operates(o, r, e) ==
    /\ at = "ops" /\ o \in job.todo
    /\ job' \in Jobs /\ job'.todo = job.todo \ {o} /\ job'.readR = job.readR
    /\ \A s \in OutlookRows \ {r} : job'.rows[s] = job.rows[s] /\ job'.draft[s] = job.draft[s]
    /\ events' \in [OutlookEvents -> EventRows]
    /\ \A d \in OutlookEvents \ {e} :
          /\ events'[d] = events[d]
          /\ d \in fresh' <=> d \in fresh
          /\ d \in job'.readE <=> d \in job.readE
          /\ d \in job'.made <=> d \in job.made
    /\ fresh \subseteq fresh' /\ fresh' \subseteq OutlookEvents
    /\ notices' = TRUE \/ (notices' = notices /\ events' = events)
    /\ UNCHANGED <<phase, resv, rows, recent, queue, at, left, hit>>

\* Respa gets what the calendar has
WritesRow(o, r, e) ==
    /\ Operates(o, r, e) /\ ~O!Written(r)
    /\ o.e = e /\ O!There(e)
    /\ UNCHANGED <<events, fresh, notices>> /\ job'.readE = job.readE /\ job'.made = job.made
    /\ job'.rows[r] = [event |-> e, key |-> events[e].time]
    /\ job'.draft[r].time = events[e].time /\ job'.draft[r].origin = events[e].origin
    /\ \/ /\ o.act = "create in Respa" /\ o.r = None
          /\ resv[r].state = "none" /\ job'.draft[r].state = "booked"
       \/ /\ o.act = "update Respa" /\ o.r = r
          /\ resv[r].state # "none" /\ job'.draft[r].state = resv[r].state

\* The calendar gets what Respa has
WritesEvent(o, r, e) ==
    /\ Operates(o, r, e) /\ o.r = r
    /\ job'.draft[r] = job.draft[r]
    /\ job'.rows[r] = [event |-> e, key |-> job.rows[r].key]
    /\ e \in fresh' /\ e \notin job'.readE /\ notices' = TRUE
    /\ events'[e] = [state |-> "there", time |-> resv[r].time, origin |-> resv[r].origin]
    /\ \/ o.act = "create in calendar" /\ events[e].state = "none" /\ e \in job'.made
       \/ o.act = "update calendar" /\ o.e = e /\ O!There(e) /\ job'.made = job.made

\* A mapping ends
Parts(o, r, e) ==
    /\ Operates(o, r, e) /\ o.r = r /\ o.e = e
    /\ job'.rows[r] = O!NoRow /\ job'.readE = job.readE /\ job'.made = job.made
    /\ events'[e].time = events[e].time /\ events'[e].origin = events[e].origin
    /\ \/ /\ o.act = "delete in Respa" /\ UNCHANGED <<events, fresh>>
          /\ job'.draft[r] = [state |-> "cancelled", time |-> resv[r].time,
                              origin |-> resv[r].origin]
       \/ /\ o.act = "delete in calendar" /\ job'.draft[r] = job.draft[r]
          /\ events'[e].state = IF O!There(e) THEN "gone" ELSE events[e].state
       \/ /\ o.act = "remove mapping" /\ UNCHANGED <<events, fresh>>
          /\ job'.draft[r] = job.draft[r]

\* The process commits
Finishes ==
    /\ at = "ops" /\ job.todo = {} /\ at' = "idle" /\ job' = O!Idle
    /\ resv' = [r \in OutlookRows |-> Now(r)]
    /\ rows' = [r \in OutlookRows |->
          IF job.rows[r].event = None THEN O!NoRow ELSE job.rows[r]]
    /\ recent' = O!Unread \cup {r \in OutlookRows : O!Written(r)}
    /\ fresh' = fresh \ job.readE
    /\ UNCHANGED <<phase, events, queue, notices, left, hit>>

\* Time passes over t
Ages(t) ==
    /\ at = "idle" /\ ~queue /\ ~notices
    /\ phase' = [phase EXCEPT ![t] = IF @ = "far" THEN "near" ELSE "past"]
    /\ UNCHANGED <<resv, events, rows, recent, fresh, queue, notices, at, job, left, hit>>

Changes ==
    \/ \E r \in OutlookRows, row \in ResvRows : RespaChanges(r, row)
    \/ \E e \in OutlookEvents, row \in EventRows : CalendarChanges(e, row)
    \/ Queues
    \/ \E listed \in SUBSET OutlookEvents : Reads(listed)
    \/ Decides
    \/ Stops
    \/ \E o \in job.todo, r \in OutlookRows, e \in OutlookEvents :
          WritesRow(o, r, e) \/ WritesEvent(o, r, e) \/ Parts(o, r, e)
    \/ Finishes
    \/ \E t \in Time : Ages(t)
    \/ UNCHANGED outlook

-----------------------------------------------------------------------------
(* There are no others *)

LEMMA NoRows == /\ O!NoResv \in ResvRows /\ ~Made(O!NoResv) /\ Whole(O!NoResv)
                /\ O!NoEvent = O!NoResv /\ O!NoEvent \in EventRows
                /\ O!NoRow \in MapRows /\ O!NoRow.event = None
BY DEF O!NoResv, O!NoEvent, O!NoRow, ResvRows, EventRows, MapRows, Made, Whole

LEMMA IdleJob ==
    /\ O!Idle \in Jobs /\ O!Idle.draft = [r \in OutlookRows |-> O!NoResv]
    /\ O!Idle.todo = {} /\ O!Idle.made = {} /\ O!Idle.readR = {} /\ O!Idle.readE = {}
BY NoRows DEF O!Idle, Jobs, O!ChangeType

LEMMA RespaSaves ==
    ASSUME Basis, NEW r \in OutlookRows, NEW row, row.state \in {"booked", "cancelled"},
           row \in ResvRows, row.time \in Time, row.origin \in O!Booking, phase[row.time] # "past",
           ~O!Written(r),
           (resv[r].state = "none" /\ row.origin = r /\ row.state = "booked")
             \/ (O!Booked(r) /\ Lasting(resv[r]) /\ row.origin = resv[r].origin),
           \/ /\ O!Saved(r, row) /\ hit \subseteq hit' /\ hit' \subseteq O!Booking
              /\ row.origin \notin hit' => phase[row.time] # "far" \/ row.time = resv[r].time
           \/ O!SavedLate(r, row)
    PROVE  RespaChanges(r, row)
<1>1. left' \in 0 .. MaxEvents
  BY DEF O!Saved, O!SavedLate, O!Spend, Basis, OutlookTypes
<1>j. /\ job \in Jobs /\ recent \subseteq OutlookRows /\ resv \in [OutlookRows -> ResvRows]
      /\ hit \subseteq O!Booking
  BY DEF Basis, OutlookTypes
<1>2. ASSUME NEW X \in SUBSET OutlookRows, job' = [job EXCEPT !.readR = X]
      PROVE  job' \in Jobs /\ job' = [job EXCEPT !.readR = job'.readR] /\ job'.readR = X
  BY <1>j, <1>2 DEF Jobs
<1>3. job.readR \subseteq OutlookRows
  BY <1>j DEF Jobs
<1>4. at = "idle" => job.readR = {} /\ (job = [job EXCEPT !.readR = {}])
  BY <1>j, IdleJob DEF Basis, Phases, Jobs
<1>5. CASE O!Saved(r, row)
  <2>1. job' = [job EXCEPT !.readR = job.readR \ {r}]
    BY <1>5, <1>j DEF O!Saved, Jobs
  <2>2. job' \in Jobs /\ job' = [job EXCEPT !.readR = job'.readR] /\ job'.readR = job.readR \ {r}
    BY <1>2, <1>3, <2>1
  <2>3. at = "idle" => job' = job
    BY <1>4, <2>1
  <2> QED
    BY <1>1, <1>5, <1>j, <2>2, <2>3 DEF O!Saved, O!SavedLate, RespaChanges
<1>6. CASE O!SavedLate(r, row)
  <2>1. hit' = hit \cup {row.origin}
    BY <1>6 DEF O!SavedLate
  <2>2. CASE UNCHANGED <<recent, job>>
    <3>1. job' = [job EXCEPT !.readR = job'.readR]
      BY <1>j, <2>2 DEF Jobs
    <3> QED
      BY <1>1, <1>6, <1>j, <2>1, <2>2, <3>1 DEF O!SavedLate, RespaChanges
  <2>3. CASE job.readR # {} /\ recent' = recent \cup {r} /\ job' = [job EXCEPT !.readR = @ \cup {r}]
    <3>1. job' = [job EXCEPT !.readR = job.readR \cup {r}]
      BY <2>3, <1>j DEF Jobs
    <3>2. job' \in Jobs /\ job' = [job EXCEPT !.readR = job'.readR] /\ job'.readR = job.readR \cup {r}
      BY <1>2, <1>3, <3>1
    <3> QED
      BY <1>1, <1>4, <1>6, <1>j, <2>1, <2>3, <3>2 DEF O!SavedLate, RespaChanges
  <2> QED
    BY <1>6, <2>2, <2>3 DEF O!SavedLate
<1> QED
  BY <1>5, <1>6

LEMMA RespaUsers ==
    ASSUME Basis, O!InRespa
    PROVE  \E r \in OutlookRows, row \in ResvRows : RespaChanges(r, row)
<1>0. /\ resv \in [OutlookRows -> ResvRows] /\ phase \in [Time -> {"far", "near", "past"}]
      /\ hit \subseteq O!Booking /\ \A s \in OutlookRows : Whole(resv[s])
  BY DEF Basis, OutlookTypes, Wholeness
<1>1. ASSUME NEW t \in Time, O!Book(t)
      PROVE  \E r \in OutlookRows, row \in ResvRows : RespaChanges(r, row)
  <2>1. PICK r \in OutlookRows :
          LET row == [state |-> "booked", time |-> t, origin |-> r] IN
          O!Free(r) /\ ((O!Saved(r, row) /\ hit' = hit \cup O!Beyond(t, r)) \/ O!SavedLate(r, row))
    BY <1>1 DEF O!Book
  <2> DEFINE row == [state |-> "booked", time |-> t, origin |-> r]
  <2>2. row \in ResvRows /\ r \in O!Booking
    BY DEF ResvRows, O!Booking
  <2>3. RespaChanges(r, row)
    <3>1. /\ resv[r].state = "none" /\ ~O!Written(r) /\ phase[t] # "past"
          /\ row.state = "booked" /\ row.time = t /\ row.origin = r
      BY <1>1, <2>1 DEF O!Book, O!Free
    <3>2. \/ O!Saved(r, row) /\ hit' = hit \cup O!Beyond(t, row.origin)
          \/ O!SavedLate(r, row)
      BY <2>1
    <3> HIDE DEF row
    <3>3. \/ /\ O!Saved(r, row) /\ hit \subseteq hit' /\ hit' \subseteq O!Booking
             /\ row.origin \notin hit' => phase[row.time] # "far"
          \/ O!SavedLate(r, row)
      BY <1>0, <2>2, <3>1, <3>2 DEF O!Beyond
    <3> QED
      BY <1>0, <2>2, <3>1, <3>3, RespaSaves
  <2> QED
    BY <2>2, <2>3
<1>2. ASSUME NEW r \in OutlookRows, NEW t \in Time, O!Move(r, t)
      PROVE  \E row \in ResvRows : RespaChanges(r, row)
  <2> DEFINE row == [resv[r] EXCEPT !.time = t]
  <2>1. /\ row \in ResvRows /\ row.time = t /\ row.origin = resv[r].origin /\ row.state = "booked"
        /\ row.origin \in O!Booking
    BY <1>0, <1>2 DEF O!Move, O!Booked, ResvRows, Whole, Made
  <2>2. RespaChanges(r, row)
    <3>1. O!Booked(r) /\ Lasting(resv[r]) /\ phase[t] # "past" /\ ~O!Written(r)
      BY <1>2 DEF O!Move, O!NotPast, Lasting
    <3>2. \/ O!Saved(r, row) /\ hit' = hit \cup O!Beyond(t, row.origin)
          \/ O!SavedLate(r, row)
      BY <1>2 DEF O!Move
    <3> HIDE DEF row
    <3> QED
      BY <1>0, <2>1, <3>1, <3>2, RespaSaves DEF O!Beyond
  <2> QED
    BY <2>1, <2>2
<1>3. ASSUME NEW r \in OutlookRows, O!Cancel(r)
      PROVE  \E row \in ResvRows : RespaChanges(r, row)
  <2> DEFINE row == [resv[r] EXCEPT !.state = "cancelled"]
  <2>1. /\ row \in ResvRows /\ row.time = resv[r].time /\ row.origin = resv[r].origin
        /\ row.state = "cancelled" /\ row.origin \in O!Booking /\ row.time \in Time
    BY <1>0, <1>3 DEF O!Cancel, O!Booked, ResvRows, Whole, Made
  <2>2. RespaChanges(r, row)
    <3>1. O!Booked(r) /\ Lasting(resv[r]) /\ ~O!Written(r)
      BY <1>3 DEF O!Cancel, O!NotPast, Lasting
    <3>2. (O!Saved(r, row) /\ hit' = hit) \/ O!SavedLate(r, row)
      BY <1>3 DEF O!Cancel
    <3>3. phase[row.time] # "past"
      BY <2>1, <3>1 DEF Lasting
    <3> HIDE DEF row
    <3> QED
      BY <1>0, <2>1, <3>1, <3>2, <3>3, RespaSaves
  <2> QED
    BY <2>1, <2>2
<1> QED
  BY <1>1, <1>2, <1>3 DEF O!InRespa

LEMMA CalendarSaves ==
    ASSUME Basis, NEW e \in OutlookEvents, NEW row \in EventRows, row.state \in {"there", "gone"},
           row.time \in Time, row.origin \in O!Booking, phase[row.time] # "past",
           (events[e].state = "none" /\ row.origin = e)
             \/ (O!There(e) /\ Lasting(events[e]) /\ row.origin = events[e].origin),
           O!UserTouches(e, row), hit \subseteq hit', hit' \subseteq O!Booking,
           row.origin \notin hit' => phase[row.time] # "far" \/ row.time = events[e].time
    PROVE  CalendarChanges(e, row)
<1>1. left' \in 0 .. MaxEvents
  BY DEF O!UserTouches, O!Spend, Basis, OutlookTypes
<1>j. job \in Jobs /\ events \in [OutlookEvents -> EventRows]
  BY DEF Basis, OutlookTypes
<1>2. job' = [job EXCEPT !.readE = @ \ {e}]
  BY DEF O!UserTouches
<1>3. job' \in Jobs
  BY <1>j, <1>2 DEF Jobs
<1>4. at = "idle" => job' = job
  <2>1. at = "idle" => job.readE = {} /\ (job = [job EXCEPT !.readE = {}])
    BY <1>j, IdleJob DEF Basis, Phases, Jobs
  <2>2. at = "idle" => job' = [job EXCEPT !.readE = {}]
    BY <1>2, <1>j, <2>1 DEF Jobs
  <2> QED
    BY <2>1, <2>2
<1> QED
  BY <1>1, <1>2, <1>3, <1>4, <1>j DEF CalendarChanges, O!UserTouches, O!Touched

LEMMA CalendarUsers ==
    ASSUME Basis, O!InOutlook
    PROVE  Queues \/ \E e \in OutlookEvents, row \in EventRows : CalendarChanges(e, row)
<1>0. /\ events \in [OutlookEvents -> EventRows] /\ phase \in [Time -> {"far", "near", "past"}]
      /\ hit \subseteq O!Booking /\ \A e \in OutlookEvents : Whole(events[e])
  BY DEF Basis, OutlookTypes, Wholeness
<1>1. ASSUME NEW t \in Time, O!Meet(t)
      PROVE  \E e \in OutlookEvents, row \in EventRows : CalendarChanges(e, row)
  <2> DEFINE row(e) == [state |-> "there", time |-> t, origin |-> e]
  <2>1. PICK e \in OutlookEvents : /\ O!NextEvent(e) /\ O!UserTouches(e, row(e))
                                   /\ hit' = hit \cup O!Beyond(t, e)
    BY <1>1 DEF O!Meet
  <2>2. row(e) \in EventRows /\ e \in O!Booking
    BY DEF EventRows, O!Booking
  <2>3. CalendarChanges(e, row(e))
    BY <1>0, <1>1, <2>1, <2>2, CalendarSaves DEF O!Meet, O!NextEvent, O!Beyond
  <2> QED
    BY <2>2, <2>3
<1>2. ASSUME NEW e \in OutlookEvents, NEW t \in Time, O!MoveEvent(e, t)
      PROVE  \E row \in EventRows : CalendarChanges(e, row)
  <2> DEFINE row == [events[e] EXCEPT !.time = t]
  <2>1. /\ row \in EventRows /\ row.time = t /\ row.origin = events[e].origin
        /\ row.state = "there" /\ row.origin \in O!Booking
    BY <1>0, <1>2 DEF O!MoveEvent, O!There, EventRows, Whole, Made
  <2>2. O!There(e) /\ Lasting(events[e]) /\ phase[t] # "past" /\ O!UserTouches(e, row)
        /\ hit' = hit \cup O!Beyond(t, row.origin)
    BY <1>2, <2>1 DEF O!MoveEvent, O!NotPast, Lasting
  <2>3. CalendarChanges(e, row)
    <3> HIDE DEF row
    <3> QED
      BY <1>0, <2>1, <2>2, CalendarSaves DEF O!Beyond
  <2> QED
    BY <2>1, <2>3
<1>3. ASSUME NEW e \in OutlookEvents, O!DeleteEvent(e)
      PROVE  \E row \in EventRows : CalendarChanges(e, row)
  <2> DEFINE row == [events[e] EXCEPT !.state = "gone"]
  <2>1. /\ row \in EventRows /\ row.time = events[e].time /\ row.origin = events[e].origin
        /\ row.state = "gone" /\ row.origin \in O!Booking /\ row.time \in Time
    BY <1>0, <1>3 DEF O!DeleteEvent, O!There, EventRows, Whole, Made
  <2>2. O!There(e) /\ Lasting(events[e]) /\ O!UserTouches(e, row) /\ hit' = hit
    BY <1>3 DEF O!DeleteEvent, O!NotPast, Lasting
  <2>3. phase[row.time] # "past"
    BY <2>1, <2>2 DEF Lasting
  <2>4. CalendarChanges(e, row)
    <3> HIDE DEF row
    <3> QED
      BY <1>0, <2>1, <2>2, <2>3, CalendarSaves
  <2> QED
    BY <2>1, <2>4
<1>4. ASSUME O!Notified PROVE Queues
  BY <1>4 DEF O!Notified, Queues
<1> QED
  BY <1>1, <1>2, <1>3, <1>4 DEF O!InOutlook

LEMMA TypeOfEvent ==
    ASSUME Basis, Mappings, NEW lost, NEW r \in lost, lost \subseteq OutlookRows,
           \A s \in lost : rows[s].event # None
    PROVE  (CHOOSE s \in lost : rows[s].event = rows[r].event) = r
<1> DEFINE c == CHOOSE s \in lost : rows[s].event = rows[r].event
<1>1. c \in lost /\ rows[c].event = rows[r].event
  OBVIOUS
<1> QED
  BY <1>1 DEF Mappings

LEMMA ProcessReads ==
    ASSUME Basis, Mappings, O!Begin \/ O!BeginShort
    PROVE  \E listed \in SUBSET OutlookEvents : Reads(listed)
<1>0. /\ job \in Jobs /\ recent \subseteq OutlookRows /\ fresh \subseteq OutlookEvents
      /\ resv \in [OutlookRows -> ResvRows] /\ events \in [OutlookEvents -> EventRows]
      /\ rows \in [OutlookRows -> MapRows] /\ hit \subseteq O!Booking
      /\ left \in 0 .. MaxEvents /\ \A e \in OutlookEvents : Whole(events[e])
      /\ \A r \in OutlookRows : Whole(resv[r])
  BY DEF Basis, OutlookTypes, Wholeness
<1>1. PICK listed \in SUBSET O!InCalendar :
         /\ O!Start(listed)
         /\ \A e \in O!InCalendar \ listed : events[e].origin \in hit'
         /\ hit \subseteq hit' /\ hit' \subseteq O!Booking /\ left' \in 0 .. MaxEvents
  <2>1. CASE O!Begin
    BY <1>0, <2>1 DEF O!Begin
  <2>2. CASE O!BeginShort
    <3>1. PICK listed \in SUBSET O!InCalendar :
            O!Start(listed) /\ hit' = hit \cup {events[e].origin : e \in O!InCalendar \ listed}
      BY <2>2 DEF O!BeginShort
    <3>2. left' \in 0 .. MaxEvents
      BY <1>0, <2>2 DEF O!BeginShort, O!Fault, O!Spend
    <3>3. \A e \in O!InCalendar : events[e].origin \in O!Booking
      BY <1>0 DEF O!InCalendar, O!There, Whole, Made
    <3> QED
      BY <1>0, <3>1, <3>2, <3>3
  <2> QED
    BY <2>1, <2>2
<1> DEFINE known == {r \in OutlookRows : rows[r].event # None}
           read == {r \in recent : resv[r].state # "none" /\ O!Near(resv[r])}
           lost == {r \in known : rows[r].event \notin listed}
           shown == listed \cap fresh
<1>2. PICK overR \in SUBSET (recent \ read), overE \in SUBSET (fresh \ shown) :
         job' = [O!Idle EXCEPT
                 !.respa = [r \in OutlookRows |->
                              IF r \in read THEN O!RespaType(rows[r], r) ELSE "absent"],
                 !.remote = [e \in OutlookEvents |->
                               IF e \in shown THEN "changed"
                               ELSE IF \E r \in lost : rows[r].event = e
                               THEN O!UnlistedType(CHOOSE r \in lost : rows[r].event = e)
                               ELSE "absent"],
                 !.listed = listed,
                 !.rows = [r \in OutlookRows |->
                             IF r \in read THEN O!Reread(rows[r], r) ELSE rows[r]],
                 !.readR = read \cup overR, !.readE = shown \cup overE]
  BY <1>1 DEF O!Start
<1>3. /\ job'.respa = [r \in OutlookRows |->
                         IF r \in read THEN O!RespaType(rows[r], r) ELSE "absent"]
      /\ job'.remote = [e \in OutlookEvents |->
                          IF e \in shown THEN "changed"
                          ELSE IF \E r \in lost : rows[r].event = e
                          THEN O!UnlistedType(CHOOSE r \in lost : rows[r].event = e)
                          ELSE "absent"]
      /\ job'.listed = listed
      /\ job'.rows = [r \in OutlookRows |-> IF r \in read THEN O!Reread(rows[r], r) ELSE rows[r]]
      /\ job'.readR = read \cup overR /\ job'.readE = shown \cup overE
      /\ job'.draft = O!Idle.draft /\ job'.made = {} /\ job'.todo = {}
      /\ job' = [respa |-> job'.respa, remote |-> job'.remote, listed |-> job'.listed,
                 rows |-> job'.rows, readR |-> job'.readR, readE |-> job'.readE,
                 todo |-> job'.todo, draft |-> job'.draft, made |-> job'.made]
  BY <1>2 DEF O!Idle
<1>4. \A r \in OutlookRows : O!UnlistedType(r) \in {"deleted", "expired"}
  BY DEF O!UnlistedType
<1>5. ASSUME NEW r \in lost PROVE job'.remote[rows[r].event] = O!UnlistedType(r)
  <2>1. rows[r].event \in OutlookEvents /\ rows[r].event \notin shown
    BY <1>0 DEF MapRows
  <2>2. (CHOOSE s \in lost : rows[s].event = rows[r].event) = r
    BY TypeOfEvent
  <2> QED
    BY <1>3, <2>1, <2>2
<1>6. ASSUME NEW e \in OutlookEvents, e \notin shown
      PROVE  /\ job'.remote[e] \in {"deleted", "expired", "absent"}
             /\ job'.remote[e] # "absent" => \E r \in lost : rows[r].event = e
  BY <1>3, <1>4, <1>6
<1>7. job' \in Jobs
  <2>1. job'.respa \in [OutlookRows -> O!ChangeType \ {"expired"}]
    BY <1>3 DEF O!RespaType, O!ChangeType
  <2>2. job'.remote \in [OutlookEvents -> O!ChangeType \ {"no change"}]
    BY <1>3, <1>6 DEF O!ChangeType
  <2>3. job'.rows \in [OutlookRows -> MapRows]
    BY <1>0, <1>3 DEF O!Reread, MapRows, ResvRows
  <2>4. job'.readR \subseteq OutlookRows /\ job'.readE \subseteq OutlookEvents
    BY <1>0, <1>3
  <2>5. job'.draft \in [OutlookRows -> ResvRows]
    BY <1>3, IdleJob, NoRows
  <2>6. job'.listed \subseteq OutlookEvents
    BY <1>3 DEF O!InCalendar
  <2> QED
    BY <1>3, <2>1, <2>2, <2>3, <2>4, <2>5, <2>6 DEF Jobs
<1>8. at = "idle" /\ at' = "plan" /\ queue' = FALSE
      /\ UNCHANGED <<phase, resv, events, rows, recent, fresh, notices>>
  BY <1>1 DEF O!Start, O!Begin, O!BeginShort
<1>9. \A r \in OutlookRows : IF InRead(r)
        THEN /\ r \in job'.readR /\ job'.respa[r] = O!RespaType(rows[r], r)
             /\ job'.rows[r] = O!Reread(rows[r], r)
        ELSE /\ job'.respa[r] = "absent" /\ job'.rows[r] = rows[r]
             /\ r \in job'.readR => r \in recent
  BY <1>3 DEF InRead, Made
<1>10. \A e \in OutlookEvents :
          IF e \in listed \cap fresh THEN e \in job'.readE /\ job'.remote[e] = "changed"
          ELSE /\ e \in job'.readE => e \in fresh
               /\ job'.remote[e] # "changed"
               /\ job'.remote[e] \in {"deleted", "expired"} =>
                     e \notin listed /\ \E r \in OutlookRows : rows[r].event = e
  BY <1>3, <1>6
<1>11. Reads(listed)
  BY <1>1, <1>3, <1>5, <1>7, <1>8, <1>9, <1>10 DEF Reads
<1> QED
  BY <1>1, <1>11 DEF O!InCalendar

LEMMA RemoteTypes ==
    ASSUME Basis, NEW e \in OutlookEvents
    PROVE  RemoteType(e) \in O!ChangeType
BY DEF RemoteType, Basis, OutlookTypes, Jobs, O!ChangeType

LEMMA RowTypes ==
    ASSUME Basis, NEW r \in OutlookRows
    PROVE  RowType(r) \in O!ChangeType \ {"expired"}
BY DEF RowType, O!RespaType, Basis, OutlookTypes, Jobs, O!ChangeType

LEMMA ActionsFor ==
    ASSUME NEW rt \in O!ChangeType \ {"expired"}, NEW et \in O!ChangeType
    PROVE  /\ O!ActionFor(rt, et) = "create in Respa" <=>
                rt = "absent" /\ et \in {"no change", "changed"}
           /\ O!ActionFor(rt, et) = "update Respa" <=> rt = "no change" /\ et = "changed"
           /\ O!ActionFor(rt, et) = "delete in Respa" <=> rt = "no change" /\ et = "deleted"
           /\ O!ActionFor(rt, et) = "create in calendar" <=>
                \/ rt \in {"no change", "changed"} /\ et = "absent"
                \/ rt = "changed" /\ et = "deleted"
           /\ O!ActionFor(rt, et) = "update calendar" <=>
                rt = "changed" /\ et \in {"no change", "changed"}
           /\ O!ActionFor(rt, et) = "delete in calendar" <=>
                rt = "deleted" /\ et \in {"no change", "changed"}
           /\ O!ActionFor(rt, et) = "remove mapping" <=>
                et = "expired" \/ (rt = "deleted" /\ et = "deleted")
           /\ O!ActionFor(rt, et) = "none" <=>
                \/ rt = "absent" /\ et \in {"absent", "deleted"}
                \/ rt = "no change" /\ et = "no change"
                \/ rt = "deleted" /\ et = "absent"
           /\ O!ActionFor(rt, et) \in {"create in Respa", "update Respa", "delete in Respa",
                "create in calendar", "update calendar", "delete in calendar",
                "remove mapping", "none"}
BY DEF O!ActionFor, O!ChangeType

LEMMA ActsFor ==
    ASSUME NEW rt \in O!ChangeType \ {"expired"}, NEW et \in O!ChangeType,
           O!ActionFor(rt, et) # "none"
    PROVE  /\ rt = "absent" /\ et # "expired" => O!ActionFor(rt, et) = "create in Respa"
           /\ et = "absent" => O!ActionFor(rt, et) = "create in calendar"
           /\ rt # "absent" /\ et # "absent" => O!ActionFor(rt, et) \in
                {"update Respa", "delete in Respa", "create in calendar",
                 "update calendar", "delete in calendar", "remove mapping"}
BY DEF O!ActionFor, O!ChangeType

\* A mapped pair has both types, if one
LEMMA PairTypes ==
    ASSUME Basis, NEW r \in OutlookRows, job.rows[r].event # None,
           RowType(r) # "absent" \/ RemoteType(job.rows[r].event) # "absent"
    PROVE  RowType(r) # "absent" /\ RemoteType(job.rows[r].event) # "absent"
<1>1. job.rows[r].event \in OutlookEvents
  BY DEF Basis, OutlookTypes, Jobs, MapRows
<1>2. CASE job.respa[r] = "absent"
  BY <1>1, <1>2 DEF RowType, Other, O!RespaType
<1>3. CASE job.respa[r] # "absent"
  BY <1>1, <1>3 DEF RowType, Other, RemoteType, Asked
<1> QED
  BY <1>2, <1>3

LEMMA PlannedType ==
    ASSUME Basis, Mappings, at = "plan", Reading,
           NEW r \in OutlookRows \cup {None}, NEW e \in OutlookEvents \cup {None},
           Pair(r, e), ActionOf(r, e) # "none"
    PROVE  [act |-> ActionOf(r, e), r |-> r, e |-> e] \in Operations
<1> DEFINE rt == IF r = None THEN "absent" ELSE RowType(r)
           et == IF e = None THEN "absent" ELSE RemoteType(e)
<1>0. ActionOf(r, e) = O!ActionFor(rt, et)
  BY DEF ActionOf
<1>1. rt \in O!ChangeType \ {"expired"} /\ et \in O!ChangeType
  BY RowTypes, RemoteTypes DEF O!ChangeType
<1>2. CASE r = None
  <2>1. e \in OutlookEvents /\ rt = "absent" /\ et # "absent" /\ \A s \in OutlookRows : job.rows[s].event # e
    BY <1>2 DEF Pair
  <2>2. et = job.remote[e]
    BY <2>1 DEF RemoteType
  <2>3. et # "expired"
    BY <2>1, <2>2 DEF Reading, EventRead, Mappings, Link
  <2>4. ActionOf(r, e) = "create in Respa"
    <3>1. O!ActionFor(rt, et) # "none"
      BY <1>0
    <3> HIDE DEF rt, et
    <3> QED
      BY <1>0, <1>1, <2>1, <2>3, <3>1, ActsFor
  <2> QED
    BY <1>2, <2>1, <2>4 DEF Operations
<1>3. CASE r # None /\ e = None
  <2>1. rt = RowType(r) /\ et = "absent" /\ rt # "absent"
    BY <1>3 DEF Pair
  <2>2. ActionOf(r, e) = "create in calendar"
    BY <1>0, <1>1, <2>1, ActsFor
  <2> QED
    BY <1>3, <2>2 DEF Operations
<1>4. CASE r # None /\ e # None
  <2>1. rt # "absent" /\ et # "absent"
    BY <1>4, PairTypes DEF Pair
  <2>2. ActionOf(r, e) \in {"update Respa", "delete in Respa", "create in calendar",
                            "update calendar", "delete in calendar", "remove mapping"}
    BY <1>0, <1>1, <2>1, ActsFor
  <2> QED
    BY <1>4, <2>2 DEF Operations
<1> QED
  BY <1>2, <1>3, <1>4

LEMMA ProcessDecides == ASSUME Basis, O!Plan PROVE Decides
<1> DEFINE map == job.rows
           asked == {r \in OutlookRows : map[r].event # None /\ job.respa[r] # "absent"
                                         /\ job.remote[map[r].event] = "absent"}
           remote == [e \in OutlookEvents |->
                        IF \E r \in asked : map[r].event = e
                        THEN IF e \in fresh THEN "changed" ELSE "no change"
                        ELSE job.remote[e]]
           other == {r \in OutlookRows : map[r].event # None /\ job.respa[r] = "absent"
                                         /\ remote[map[r].event] # "absent"}
           respa == [r \in OutlookRows |->
                       IF r \in other THEN O!RespaType(map[r], r) ELSE job.respa[r]]
           action(p) == O!ActionFor(O!TypeOf(respa, p[1]), O!TypeOf(remote, p[2]))
<1>j. job \in Jobs /\ \A r \in OutlookRows : map[r].event \in OutlookEvents \cup {None}
  BY DEF Basis, OutlookTypes, Jobs, MapRows
<1>1. \A e \in OutlookEvents : remote[e] = RemoteType(e)
  BY DEF RemoteType, Asked
<1>2. \A r \in OutlookRows : r \in other <=> Other(r)
  BY <1>1, <1>j DEF Other
<1>3. \A r \in OutlookRows : respa[r] = RowType(r)
  BY <1>2 DEF RowType
<1>4. \A r \in OutlookRows \cup {None}, e \in OutlookEvents \cup {None} :
         action(<<r, e>>) = ActionOf(r, e)
  <2> SUFFICES ASSUME NEW r \in OutlookRows \cup {None}, NEW e \in OutlookEvents \cup {None}
               PROVE  action(<<r, e>>) = ActionOf(r, e)
    OBVIOUS
  <2>1. O!TypeOf(respa, r) = IF r = None THEN "absent" ELSE RowType(r)
    BY <1>3 DEF O!TypeOf
  <2>2. O!TypeOf(remote, e) = IF e = None THEN "absent" ELSE RemoteType(e)
    BY <1>1 DEF O!TypeOf
  <2> QED
    BY <2>1, <2>2 DEF ActionOf
<1>5. job' = [job EXCEPT
            !.rows = [r \in OutlookRows |-> IF r \in other THEN O!Reread(map[r], r) ELSE map[r]],
            !.todo = {[act |-> action(p), r |-> p[1], e |-> p[2]] :
                        p \in {p \in O!Pairs(map, respa, remote) : action(p) # "none"}},
            !.respa = O!Idle.respa, !.remote = O!Idle.remote, !.listed = {}]
  BY DEF O!Plan
<1>6. /\ job'.rows = [r \in OutlookRows |-> IF r \in other THEN O!Reread(map[r], r) ELSE map[r]]
      /\ job'.todo = {[act |-> action(p), r |-> p[1], e |-> p[2]] :
                        p \in {p \in O!Pairs(map, respa, remote) : action(p) # "none"}}
      /\ job'.respa = O!Idle.respa /\ job'.remote = O!Idle.remote /\ job'.listed = {}
      /\ job'.draft = job.draft /\ job'.made = job.made
      /\ job'.readR = job.readR /\ job'.readE = job.readE
      /\ job' = [respa |-> job'.respa, remote |-> job'.remote, listed |-> job'.listed,
               rows |-> job'.rows, readR |-> job'.readR, readE |-> job'.readE,
               todo |-> job'.todo, draft |-> job'.draft, made |-> job'.made]
  <2> HIDE DEF other, action, respa, remote, map
  <2> QED
    BY <1>5, <1>j DEF Jobs
<1>7. ASSUME NEW r \in OutlookRows \cup {None}, NEW e \in OutlookEvents \cup {None}
      PROVE  <<r, e>> \in O!Pairs(map, respa, remote) <=> Pair(r, e)
  <2> HIDE DEF other, action, respa, remote
  <2>1. O!Pairs(map, respa, remote) =
          {<<s, map[s].event>> : s \in {s \in OutlookRows :
            respa[s] # "absent" \/ (map[s].event # None /\ remote[map[s].event] # "absent")}}
          \cup {<<None, d>> : d \in {d \in OutlookEvents :
            remote[d] # "absent" /\ \A s \in OutlookRows : map[s].event # d}}
    BY DEF O!Pairs
  <2>2. CASE r = None
    BY <1>1, <2>1, <2>2 DEF Pair
  <2>3. CASE r # None
    BY <1>1, <1>3, <1>j, <2>1, <2>3 DEF Pair
  <2> QED
    BY <2>2, <2>3
<1>8. \A p \in O!Pairs(map, respa, remote) :
         \E r \in OutlookRows \cup {None}, e \in OutlookEvents \cup {None} : p = <<r, e>>
  BY <1>j DEF O!Pairs
<1> HIDE DEF action, respa, remote, other
<1>9. \A o \in job'.todo : \E r \in OutlookRows \cup {None}, e \in OutlookEvents \cup {None} :
          Pair(r, e) /\ ActionOf(r, e) # "none" /\ o = [act |-> ActionOf(r, e), r |-> r, e |-> e]
  <2> SUFFICES ASSUME NEW o \in job'.todo
               PROVE  \E r \in OutlookRows \cup {None}, e \in OutlookEvents \cup {None} :
                  Pair(r, e) /\ ActionOf(r, e) # "none" /\ o = [act |-> ActionOf(r, e), r |-> r, e |-> e]
    OBVIOUS
  <2>1. PICK p \in O!Pairs(map, respa, remote) :
           action(p) # "none" /\ o = [act |-> action(p), r |-> p[1], e |-> p[2]]
    BY <1>6
  <2>2. PICK r \in OutlookRows \cup {None}, e \in OutlookEvents \cup {None} : p = <<r, e>>
    BY <1>8
  <2> QED
    BY <1>4, <1>7, <2>1, <2>2
<1>10. ASSUME NEW r \in OutlookRows \cup {None}, NEW e \in OutlookEvents \cup {None},
              Pair(r, e), ActionOf(r, e) # "none"
       PROVE  [act |-> ActionOf(r, e), r |-> r, e |-> e] \in job'.todo
  <2>1. <<r, e>> \in O!Pairs(map, respa, remote) /\ action(<<r, e>>) = ActionOf(r, e)
    BY <1>4, <1>7, <1>10
  <2>2. <<r, e>>[1] = r /\ <<r, e>>[2] = e
    OBVIOUS
  <2> QED
    BY <1>6, <1>10, <2>1, <2>2
<1>11. job'.rows = [r \in OutlookRows |-> IF Other(r) THEN O!Reread(job.rows[r], r) ELSE job.rows[r]]
  BY <1>2, <1>6
<1> QED
  BY <1>6, <1>9, <1>10, <1>11 DEF O!Plan, Decides

LEMMA ProcessStops ==
    ASSUME Basis, O!PlanFails \/ O!OperateFails \/ O!Abort
    PROVE  Stops
<1>0. left \in 0 .. MaxEvents
  BY DEF Basis, OutlookTypes
<1>1. left' \in 0 .. MaxEvents
  <2>1. left' = left \/ (left > 0 /\ left' = left - 1)
    BY DEF O!PlanFails, O!OperateFails, O!Abort, O!Fault, O!Spend
  <2> QED
    BY <1>0, <2>1
<1> QED
  BY <1>1 DEF O!PlanFails, O!OperateFails, O!Abort, O!Fails, Stops

\* An operation changes one field of the job at a time
LEMMA JobTypes ==
    ASSUME Basis, NEW o \in job.todo
    PROVE  /\ job \in Jobs /\ o \in Operations
           /\ o.e \in OutlookEvents \cup {None} /\ o.r \in OutlookRows \cup {None}
           /\ \A r \in OutlookRows : job.rows[r] \in MapRows /\ job.draft[r] \in ResvRows
           /\ \A r \in OutlookRows : resv[r] \in ResvRows
           /\ \A e \in OutlookEvents : events[e] \in EventRows
<1>1. job \in Jobs /\ resv \in [OutlookRows -> ResvRows] /\ events \in [OutlookEvents -> EventRows]
  BY DEF Basis, OutlookTypes
<1> QED
  BY <1>1 DEF Jobs, Operations

LEMMA CreatesInRespa ==
    ASSUME Basis, at = "ops", NEW o \in job.todo, O!CreateInRespa(o),
           UNCHANGED <<phase, resv, rows, recent, queue, at, left, hit>>
    PROVE  \E r \in OutlookRows, e \in OutlookEvents : WritesRow(o, r, e)
<1>1. PICK r \in OutlookRows :
        /\ O!Free(r)
        /\ job' = O!Map(O!Write(O!Without(o), r, [events[o.e] EXCEPT !.state = "booked"]), r, o.e)
  BY DEF O!CreateInRespa
<1>2. o.act = "create in Respa" /\ O!There(o.e) /\ UNCHANGED <<events, fresh, notices>>
  BY DEF O!CreateInRespa
<1>3. o.r = None /\ o.e \in OutlookEvents
  BY <1>2, JobTypes DEF Operations
<1>4. events[o.e] \in EventRows /\ job \in Jobs /\ events \in [OutlookEvents -> EventRows]
      /\ fresh \subseteq OutlookEvents /\ notices \in BOOLEAN
  BY <1>3, JobTypes DEF Basis, OutlookTypes
<1> DEFINE row == [state |-> "booked", time |-> events[o.e].time, origin |-> events[o.e].origin]
           m == [event |-> o.e, key |-> events[o.e].time]
<1>5. row \in ResvRows /\ m \in MapRows /\ [events[o.e] EXCEPT !.state = "booked"] = row
  BY <1>3, <1>4 DEF EventRows, ResvRows, MapRows
<1>6. job' = [job EXCEPT !.todo = job.todo \ {o}, !.draft = [job.draft EXCEPT ![r] = row],
                         !.rows = [job.rows EXCEPT ![r] = m]]
  <2>1. job.rows \in [OutlookRows -> MapRows]
    BY <1>4 DEF Jobs
  <2>2. PICK x \in OutlookEvents \cup {None}, k \in Time \cup {None} :
          job.rows[r] = [event |-> x, key |-> k]
    BY <2>1 DEF MapRows
  <2> DEFINE n == [event |-> x, key |-> events[o.e].time]
             W == [job EXCEPT !.todo = job.todo \ {o}, !.draft = [job.draft EXCEPT ![r] = row],
                              !.rows = [job.rows EXCEPT ![r] = n]]
  <2>3. [job.rows[r] EXCEPT !.key = events[o.e].time] = n /\ [n EXCEPT !.event = o.e] = m
    BY <2>2
  <2>4. O!Write(O!Without(o), r, row) = W
    <3>1. row.time = events[o.e].time
      OBVIOUS
    <3> HIDE DEF row, n
    <3> QED
      BY <1>4, <2>1, <2>3, <3>1 DEF O!Write, O!Without, Jobs
  <2>5. job' = [W EXCEPT !.rows[r].event = o.e]
    BY <1>1, <1>5, <2>4 DEF O!Map
  <2>6. W.rows[r] = n /\ W.rows = [job.rows EXCEPT ![r] = n]
    <3> HIDE DEF row, n
    <3> QED
      BY <1>4, <2>1 DEF Jobs
  <2>7. job' = [W EXCEPT !.rows = [W.rows EXCEPT ![r] = [W.rows[r] EXCEPT !.event = o.e]]]
    <3> HIDE DEF W
    <3> QED
      BY <2>5
  <2>8. job' = [W EXCEPT !.rows = [[job.rows EXCEPT ![r] = n] EXCEPT ![r] = m]]
    <3> HIDE DEF W, row, n, m
    <3> QED
      BY <2>3, <2>6, <2>7
  <2>9. [[job.rows EXCEPT ![r] = n] EXCEPT ![r] = m] = [job.rows EXCEPT ![r] = m]
    <3> HIDE DEF n, m
    <3> QED
      BY <2>1
  <2> HIDE DEF row, n, m
  <2> QED
    BY <1>4, <2>8, <2>9 DEF Jobs
<1> HIDE DEF row, m
<1>7. /\ job' \in Jobs /\ job'.todo = job.todo \ {o} /\ job'.readR = job.readR
      /\ job'.readE = job.readE /\ job'.made = job.made
      /\ job'.rows = [job.rows EXCEPT ![r] = m] /\ job'.draft = [job.draft EXCEPT ![r] = row]
      /\ job.rows \in [OutlookRows -> MapRows] /\ job.draft \in [OutlookRows -> ResvRows]
  BY <1>4, <1>5, <1>6 DEF Jobs
<1>8. WritesRow(o, r, o.e)
  <2>1. Operates(o, r, o.e)
    BY <1>2, <1>3, <1>4, <1>7 DEF Operates
  <2>2. job'.rows[r] = m /\ job'.draft[r] = row /\ ~O!Written(r) /\ resv[r].state = "none"
    BY <1>1, <1>7 DEF O!Free
  <2>3. /\ job'.rows[r] = [event |-> o.e, key |-> events[o.e].time]
        /\ job'.draft[r].time = events[o.e].time /\ job'.draft[r].origin = events[o.e].origin
        /\ job'.draft[r].state = "booked"
    BY <2>2 DEF row, m
  <2> QED
    BY <1>2, <1>3, <1>7, <2>1, <2>2, <2>3 DEF WritesRow
<1> QED
  BY <1>3, <1>8

LEMMA UpdatesRespa ==
    ASSUME Basis, Mappings, at = "ops", NEW o \in job.todo, OpFits(o), O!UpdateRespa(o),
           UNCHANGED <<phase, resv, rows, recent, queue, at, left, hit>>
    PROVE  \E r \in OutlookRows, e \in OutlookEvents : WritesRow(o, r, e)
<1>2. o.act = "update Respa" /\ O!There(o.e) /\ UNCHANGED <<events, fresh, notices>>
  BY DEF O!UpdateRespa
<1>3. o.r \in OutlookRows /\ o.e \in OutlookEvents
  BY <1>2, JobTypes DEF Operations
<1>4. /\ events[o.e] \in EventRows /\ resv[o.r] \in ResvRows /\ job \in Jobs
      /\ events \in [OutlookEvents -> EventRows] /\ fresh \subseteq OutlookEvents
      /\ notices \in BOOLEAN
  BY <1>3, JobTypes DEF Basis, OutlookTypes
<1> DEFINE r == o.r
           row == [state |-> resv[o.r].state, time |-> events[o.e].time, origin |-> resv[o.r].origin]
           m == [event |-> o.e, key |-> events[o.e].time]
<1>5. row \in ResvRows /\ m \in MapRows /\ [resv[o.r] EXCEPT !.time = events[o.e].time] = row
  BY <1>3, <1>4 DEF EventRows, ResvRows, MapRows
<1>f. /\ job.rows[r].event = o.e /\ ~O!Written(r) /\ resv[r].state # "none"
      /\ resv[r].origin = events[o.e].origin
  <2>1. Link(r) = job.rows[r]
    BY DEF Link
  <2> QED
    BY <1>3, <2>1, OutlookConstants DEF OpFits, Mappings, MapFits, Made, Now
<1>6. job' = [job EXCEPT !.todo = job.todo \ {o}, !.draft = [job.draft EXCEPT ![r] = row],
                         !.rows = [job.rows EXCEPT ![r] = m]]
  <2>1. job.rows \in [OutlookRows -> MapRows]
    BY <1>4 DEF Jobs
  <2>2. [job.rows[r] EXCEPT !.key = events[o.e].time] = m
    BY <1>3, <1>f, <2>1 DEF MapRows
  <2> QED
    BY <1>3, <1>4, <1>5, <2>1, <2>2 DEF O!UpdateRespa, O!Write, O!Without, Jobs, MapRows
<1> HIDE DEF row, m
<1>7. /\ job' \in Jobs /\ job'.todo = job.todo \ {o} /\ job'.readR = job.readR
      /\ job'.readE = job.readE /\ job'.made = job.made
      /\ job'.rows = [job.rows EXCEPT ![r] = m] /\ job'.draft = [job.draft EXCEPT ![r] = row]
      /\ job.rows \in [OutlookRows -> MapRows] /\ job.draft \in [OutlookRows -> ResvRows]
  BY <1>4, <1>5, <1>6 DEF Jobs
<1>8. WritesRow(o, r, o.e)
  <2>1. Operates(o, r, o.e)
    BY <1>2, <1>3, <1>4, <1>7 DEF Operates
  <2>2. job'.rows[r] = m /\ job'.draft[r] = row
    BY <1>3, <1>7
  <2>3. /\ job'.rows[r] = [event |-> o.e, key |-> events[o.e].time]
        /\ job'.draft[r].time = events[o.e].time /\ job'.draft[r].origin = events[o.e].origin
        /\ job'.draft[r].state = resv[r].state
    BY <1>f, <2>2 DEF row, m
  <2> QED
    BY <1>2, <1>3, <1>7, <1>f, <2>1, <2>3 DEF WritesRow
<1> QED
  BY <1>3, <1>8

LEMMA CreatesInCalendar ==
    ASSUME Basis, at = "ops", NEW o \in job.todo, OpFits(o), O!CreateInCalendar(o),
           UNCHANGED <<phase, resv, rows, recent, queue, at, left, hit>>
    PROVE  \E r \in OutlookRows, e \in OutlookEvents : WritesEvent(o, r, e)
<1>1. PICK e \in OutlookEvents :
        /\ O!NextEvent(e)
        /\ O!Touched(e, [resv[o.r] EXCEPT !.state = "there"])
        /\ job' = [O!Map(O!Without(o), o.r, e) EXCEPT !.made = @ \cup {e}]
  BY DEF O!CreateInCalendar
<1>2. o.act = "create in calendar"
  BY DEF O!CreateInCalendar
<1>3. o.r \in OutlookRows
  BY <1>2, JobTypes DEF Operations
<1>4. /\ resv[o.r] \in ResvRows /\ job \in Jobs
      /\ events \in [OutlookEvents -> EventRows] /\ fresh \subseteq OutlookEvents
  BY <1>3, JobTypes DEF Basis, OutlookTypes
<1> DEFINE r == o.r
           row == [state |-> "there", time |-> resv[o.r].time, origin |-> resv[o.r].origin]
           m == [event |-> e, key |-> job.rows[o.r].key]
<1>5. row \in EventRows /\ m \in MapRows /\ [resv[o.r] EXCEPT !.state = "there"] = row
  BY <1>3, <1>4, JobTypes DEF EventRows, ResvRows, MapRows
<1>6. job' = [job EXCEPT !.todo = job.todo \ {o}, !.made = job.made \cup {e},
                         !.rows = [job.rows EXCEPT ![r] = m]]
  <2>1. job.rows \in [OutlookRows -> MapRows]
    BY <1>4 DEF Jobs
  <2>2. [job.rows[r] EXCEPT !.event = e] = m
    BY <1>3, <2>1 DEF MapRows
  <2> QED
    BY <1>1, <1>3, <1>4, <1>5, <2>1, <2>2 DEF O!Map, O!Without, Jobs, MapRows
<1>e. events' = [events EXCEPT ![e] = row] /\ fresh' = fresh \cup {e} /\ notices' = TRUE
  BY <1>1, <1>5 DEF O!Touched
<1> HIDE DEF row, m
<1>7. /\ job' \in Jobs /\ job'.todo = job.todo \ {o} /\ job'.readR = job.readR
      /\ job'.readE = job.readE /\ job'.made = job.made \cup {e}
      /\ job'.rows = [job.rows EXCEPT ![r] = m] /\ job'.draft = job.draft
      /\ job.rows \in [OutlookRows -> MapRows]
  BY <1>4, <1>5, <1>6 DEF Jobs
<1>8. events[e].state = "none" /\ e \notin job.readE
  BY <1>1 DEF O!NextEvent, Basis, Wholeness, Made
<1>9. WritesEvent(o, r, e)
  BY <1>2, <1>3, <1>4, <1>5, <1>7, <1>8, <1>e DEF WritesEvent, Operates, row, m
<1> QED
  BY <1>3, <1>9

LEMMA UpdatesCalendar ==
    ASSUME Basis, Mappings, at = "ops", NEW o \in job.todo, OpFits(o), O!UpdateCalendar(o),
           UNCHANGED <<phase, resv, rows, recent, queue, at, left, hit>>
    PROVE  \E r \in OutlookRows, e \in OutlookEvents : WritesEvent(o, r, e)
<1>2. o.act = "update calendar" /\ O!There(o.e)
  BY DEF O!UpdateCalendar
<1>3. o.r \in OutlookRows /\ o.e \in OutlookEvents
  BY <1>2, JobTypes DEF Operations
<1>4. /\ resv[o.r] \in ResvRows /\ job \in Jobs /\ events[o.e] \in EventRows
      /\ events \in [OutlookEvents -> EventRows] /\ fresh \subseteq OutlookEvents
  BY <1>3, JobTypes DEF Basis, OutlookTypes
<1>f. /\ job.rows[o.r].event = o.e /\ resv[o.r].origin = events[o.e].origin
  <2>1. Link(o.r) = job.rows[o.r]
    BY DEF Link
  <2> QED
    BY <1>3, <2>1, OutlookConstants DEF OpFits, Mappings, MapFits, Made, Now
<1> DEFINE row == [state |-> "there", time |-> resv[o.r].time, origin |-> resv[o.r].origin]
<1>5. row \in EventRows /\ [events[o.e] EXCEPT !.time = resv[o.r].time] = row
  <2>1. row \in EventRows
    BY <1>3, <1>4 DEF EventRows, ResvRows
  <2>2. events[o.e] = [state |-> "there", time |-> events[o.e].time, origin |-> resv[o.r].origin]
    BY <1>2, <1>4, <1>f DEF EventRows, O!There
  <2>3. [[state |-> "there", time |-> events[o.e].time, origin |-> resv[o.r].origin]
           EXCEPT !.time = resv[o.r].time] = row
    OBVIOUS
  <2> QED
    BY <2>1, <2>2, <2>3
<1>6. job' = [job EXCEPT !.todo = job.todo \ {o}, !.readE = job.readE \ {o.e}]
  BY <1>4 DEF O!UpdateCalendar, O!Without, Jobs
<1>e. events' = [events EXCEPT ![o.e] = row] /\ fresh' = fresh \cup {o.e} /\ notices' = TRUE
  BY <1>5 DEF O!UpdateCalendar, O!Touched
<1> HIDE DEF row
<1>7. /\ job' \in Jobs /\ job'.todo = job.todo \ {o} /\ job'.readR = job.readR
      /\ job'.readE = job.readE \ {o.e} /\ job'.made = job.made
      /\ job'.rows = job.rows /\ job'.draft = job.draft
      /\ job.rows[o.r] = [event |-> o.e, key |-> job.rows[o.r].key]
  BY <1>3, <1>4, <1>6, <1>f, JobTypes DEF Jobs, MapRows
<1>9. WritesEvent(o, o.r, o.e)
  BY <1>2, <1>3, <1>4, <1>5, <1>7, <1>e DEF WritesEvent, Operates, row
<1> QED
  BY <1>3, <1>9

LEMMA EndsMapping ==
    ASSUME Basis, at = "ops", NEW o \in job.todo, OpFits(o),
           O!DeleteInRespa(o) \/ O!DeleteInCalendar(o) \/ O!RemoveMapping(o),
           UNCHANGED <<phase, resv, rows, recent, queue, at, left, hit>>
    PROVE  \E r \in OutlookRows, e \in OutlookEvents : Parts(o, r, e)
<1>1. o.act \in {"delete in Respa", "delete in calendar", "remove mapping"}
  BY DEF O!DeleteInRespa, O!DeleteInCalendar, O!RemoveMapping
<1>2. o.r \in OutlookRows /\ o.e \in OutlookEvents
  BY <1>1, JobTypes DEF Operations
<1>3. /\ resv[o.r] \in ResvRows /\ job \in Jobs /\ events[o.e] \in EventRows
      /\ events \in [OutlookEvents -> EventRows] /\ fresh \subseteq OutlookEvents
      /\ notices \in BOOLEAN
      /\ job.rows \in [OutlookRows -> MapRows] /\ job.draft \in [OutlookRows -> ResvRows]
  BY <1>2, JobTypes DEF Basis, OutlookTypes, Jobs
<1>4. CASE O!DeleteInCalendar(o) \/ O!RemoveMapping(o)
  <2>1. job' = [job EXCEPT !.todo = job.todo \ {o}, !.rows = [job.rows EXCEPT ![o.r] = O!NoRow]]
    BY <1>3, <1>4 DEF O!DeleteInCalendar, O!RemoveMapping, O!Without, O!Unmap, Jobs
  <2>2. /\ job' \in Jobs /\ job'.todo = job.todo \ {o} /\ job'.readR = job.readR
        /\ job'.readE = job.readE /\ job'.made = job.made
        /\ job'.rows = [job.rows EXCEPT ![o.r] = O!NoRow] /\ job'.draft = job.draft
    BY <1>2, <1>3, <2>1, NoRows DEF Jobs
  <2>3. CASE O!DeleteInCalendar(o) /\ O!There(o.e)
    <3> DEFINE row == [events[o.e] EXCEPT !.state = "gone"]
    <3>1. /\ events' = [events EXCEPT ![o.e] = row] /\ fresh' = fresh \cup {o.e} /\ notices' = TRUE
          /\ o.act = "delete in calendar"
      BY <2>3 DEF O!DeleteInCalendar, O!Touched
    <3>2. /\ row \in EventRows /\ row.state = "gone" /\ row.time = events[o.e].time
          /\ row.origin = events[o.e].origin
      BY <1>3 DEF EventRows
    <3> HIDE DEF row
    <3>3. Parts(o, o.r, o.e)
      BY <1>2, <1>3, <2>2, <2>3, <3>1, <3>2 DEF Parts, Operates
    <3> QED
      BY <1>2, <3>3
  <2>4. CASE ~(O!DeleteInCalendar(o) /\ O!There(o.e))
    <3>1. /\ UNCHANGED <<events, fresh, notices>>
          /\ o.act = "remove mapping" \/ (o.act = "delete in calendar" /\ ~O!There(o.e))
      BY <1>4, <2>4 DEF O!DeleteInCalendar, O!RemoveMapping
    <3>2. Parts(o, o.r, o.e)
      BY <1>2, <1>3, <2>2, <3>1 DEF Parts, Operates
    <3> QED
      BY <1>2, <3>2
  <2> QED
    BY <2>3, <2>4
<1>5. CASE O!DeleteInRespa(o)
  <2> DEFINE row == [state |-> "cancelled", time |-> resv[o.r].time, origin |-> resv[o.r].origin]
  <2>1. row \in ResvRows /\ row = [resv[o.r] EXCEPT !.state = "cancelled"]
    BY <1>3 DEF ResvRows
  <2>2. job' = O!Unmap(O!Write(O!Without(o), o.r, row), o.r)
    BY <1>5, <2>1 DEF O!DeleteInRespa
  <2> HIDE DEF row
  <2>3. job' = [job EXCEPT !.todo = job.todo \ {o}, !.draft = [job.draft EXCEPT ![o.r] = row],
                           !.rows = [job.rows EXCEPT ![o.r] = O!NoRow]]
    BY ZenonT(60), <1>2, <1>3, <2>1, <2>2 DEF O!Write, O!Without, O!Unmap, Jobs, MapRows
  <2>4. /\ job' \in Jobs /\ job'.todo = job.todo \ {o} /\ job'.readR = job.readR
        /\ job'.readE = job.readE /\ job'.made = job.made
        /\ job'.rows = [job.rows EXCEPT ![o.r] = O!NoRow]
        /\ job'.draft = [job.draft EXCEPT ![o.r] = row]
    BY <1>2, <1>3, <2>1, <2>3, NoRows DEF Jobs
  <2>5. o.act = "delete in Respa" /\ UNCHANGED <<events, fresh, notices>>
    BY <1>5 DEF O!DeleteInRespa
  <2>6. Parts(o, o.r, o.e)
    BY <1>2, <1>3, <2>4, <2>5 DEF Parts, Operates, row
  <2> QED
    BY <1>2, <2>6
<1> QED
  BY <1>4, <1>5

LEMMA ProcessOperates ==
    ASSUME Basis, Mappings, at = "ops" => Todo, O!Operate
    PROVE  \E o \in job.todo, r \in OutlookRows, e \in OutlookEvents :
             WritesRow(o, r, e) \/ WritesEvent(o, r, e) \/ Parts(o, r, e)
<1>1. at = "ops" /\ UNCHANGED <<phase, resv, rows, recent, queue, at, left, hit>>
  BY DEF O!Operate
<1>2. PICK o \in job.todo :
         \/ O!CreateInRespa(o) \/ O!UpdateRespa(o) \/ O!DeleteInRespa(o)
         \/ O!CreateInCalendar(o) \/ O!UpdateCalendar(o) \/ O!DeleteInCalendar(o)
         \/ O!RemoveMapping(o)
  BY DEF O!Operate
<1>3. OpFits(o)
  BY <1>1 DEF Todo
<1> QED
  BY <1>1, <1>2, <1>3, CreatesInRespa, UpdatesRespa, CreatesInCalendar, UpdatesCalendar, EndsMapping

LEMMA ProcessFinishes == ASSUME O!Commit PROVE Finishes
BY DEF O!Commit, Finishes, Now

LEMMA OutlookSteps ==
    ASSUME Basis, Mappings, at = "ops" => Todo, [O!Next]_outlook
    PROVE  Changes
<1>1. CASE UNCHANGED outlook
  BY <1>1 DEF Changes
<1>2. CASE O!QueueAll
  BY <1>2 DEF O!QueueAll, Queues, Changes, Basis, OutlookTypes
<1>3. CASE \E t \in Time : O!TimePasses(t)
  BY <1>3 DEF O!TimePasses, O!Quiet, Ages, Changes
<1>4. CASE O!Process
  BY <1>4, ProcessReads, ProcessDecides, ProcessStops, ProcessOperates, ProcessFinishes
     DEF O!Process, Changes
<1>5. CASE O!Abort
  BY <1>5, ProcessStops DEF Changes
<1>6. CASE O!InRespa
  BY <1>6, RespaUsers DEF Changes
<1>7. CASE O!InOutlook
  BY <1>7, CalendarUsers DEF Changes
<1> QED
  BY <1>1, <1>2, <1>3, <1>4, <1>5, <1>6, <1>7 DEF O!Next

LEMMA Views ==
    ASSUME Basis, NEW r \in OutlookRows
    PROVE  /\ resv[r] \in ResvRows /\ job.draft[r] \in ResvRows
           /\ rows[r] \in MapRows /\ job.rows[r] \in MapRows
           /\ Whole(resv[r]) /\ Whole(Now(r)) /\ Now(r) \in ResvRows /\ Link(r) \in MapRows
           /\ O!Written(r) <=> Made(job.draft[r])
           /\ at # "ops" => ~O!Written(r)
           /\ O!Written(r) => Now(r) = job.draft[r]
           /\ ~O!Written(r) => Now(r) = resv[r]
           /\ Link(r) = IF at = "idle" THEN rows[r] ELSE job.rows[r]
<1>1. /\ resv[r] \in ResvRows /\ job.draft[r] \in ResvRows
      /\ rows[r] \in MapRows /\ job.rows[r] \in MapRows
      /\ at \in {"idle", "plan", "ops"}
  BY DEF Basis, OutlookTypes, Jobs
<1>2. Whole(resv[r]) /\ Whole(job.draft[r])
  BY DEF Basis, Wholeness
<1>3. O!Written(r) <=> Made(job.draft[r])
  BY <1>2, NoRows DEF O!Written, Whole
<1>4. at # "ops" => ~O!Written(r)
  BY <1>1, IdleJob DEF Basis, Phases, O!Written
<1> QED
  BY <1>1, <1>2, <1>3, <1>4 DEF Now, Link

LEMMA Events ==
    ASSUME Basis, NEW e \in OutlookEvents
    PROVE  /\ events[e] \in EventRows /\ Whole(events[e])
           /\ Made(events[e]) <=> O!There(e) \/ Gone(e)
           /\ ~(O!There(e) /\ Gone(e))
BY DEF Basis, OutlookTypes, Wholeness, EventRows, Made, O!There, Gone

LEMMA KnownNow ==
    ASSUME Basis, Origins, NEW r \in OutlookRows
    PROVE  /\ Made(Now(r)) => Known(Now(r).origin)
           /\ Made(resv[r]) => Made(Now(r)) /\ Now(r).origin = resv[r].origin
BY Views DEF Origins

-----------------------------------------------------------------------------
(* A reservation changes *)

LEMMA RespaEffects ==
    ASSUME Basis, NEW r \in OutlookRows, NEW row, RespaChanges(r, row)
    PROVE  /\ job'.respa = job.respa /\ job'.remote = job.remote /\ job'.listed = job.listed
           /\ job'.rows = job.rows /\ job'.readE = job.readE /\ job'.todo = job.todo
           /\ job'.draft = job.draft /\ job'.made = job.made
           /\ \A s \in OutlookRows :
                 /\ Link(s)' = Link(s)
                 /\ O!Written(s)' <=> O!Written(s)
                 /\ s # r => Now(s)' = Now(s)
           /\ Now(r) = resv[r] /\ Now(r)' = row
           /\ Made(row) /\ Whole(row) /\ Lasting(row) /\ row \in ResvRows
           /\ Spared(row)' => Spared(row)
<1>1. job \in Jobs
  BY DEF Basis, OutlookTypes
<1>2. job' = [job EXCEPT !.readR = job'.readR]
  BY DEF RespaChanges
<1>3. /\ job'.respa = job.respa /\ job'.remote = job.remote /\ job'.listed = job.listed
      /\ job'.rows = job.rows /\ job'.readE = job.readE /\ job'.todo = job.todo
      /\ job'.draft = job.draft /\ job'.made = job.made
  <2> DEFINE X == job'.readR
  <2>1. job' = [job EXCEPT !.readR = X]
    BY <1>2
  <2> HIDE DEF X
  <2> QED
    BY <1>1, <2>1 DEF Jobs
<1>4. \A s \in OutlookRows : Link(s)' = Link(s) /\ (O!Written(s)' <=> O!Written(s))
  BY <1>3 DEF RespaChanges, Link, O!Written
<1>5. /\ \A s \in OutlookRows : s # r => Now(s)' = Now(s)
      /\ Now(r) = resv[r] /\ Now(r)' = row
  BY <1>3 DEF RespaChanges, Now, O!Written
<1> QED
  BY <1>3, <1>4, <1>5 DEF RespaChanges, Made, Whole, Lasting, Spared

\* What changes is new or as it was
LEMMA RespaFormer ==
    ASSUME Basis, Origins, NEW r \in OutlookRows, NEW row, RespaChanges(r, row)
    PROVE  /\ ~Made(resv[r]) \/ (O!Booked(r) /\ Made(resv[r]) /\ Lasting(resv[r])
                                 /\ row.origin = resv[r].origin)
           /\ ~Made(resv[r]) => row.origin = r
           /\ ~Made(resv[r]) => \A s \in OutlookRows : Made(Now(s)) => Now(s).origin # row.origin
           /\ ~Made(resv[r]) => \A s \in OutlookRows : Made(resv[s]) => resv[s].origin # row.origin
           /\ ~Made(resv[r]) => \A e \in OutlookEvents : Made(events[e]) => events[e].origin # row.origin
<1>1. /\ ~Made(resv[r]) \/ (O!Booked(r) /\ Made(resv[r]) /\ Lasting(resv[r])
                            /\ row.origin = resv[r].origin)
      /\ ~Made(resv[r]) => row.origin = r
  BY DEF RespaChanges, Made, O!Booked
<1>2. ~Made(resv[r]) => ~Known(r)
  BY DEF Known
<1> QED
  BY <1>1, <1>2, KnownNow DEF Origins

LEMMA RespaKeepsBasis ==
    ASSUME Basis, NEW r \in OutlookRows, NEW row, RespaChanges(r, row)
    PROVE  Basis'
<1>1. OutlookTypes'
  BY DEF Basis, OutlookTypes, RespaChanges
<1>2. Wholeness'
  BY RespaEffects DEF Basis, Wholeness, RespaChanges
<1>3. Phases'
  BY RespaEffects DEF Basis, Phases, RespaChanges
<1> QED
  BY <1>1, <1>2, <1>3 DEF Basis

LEMMA RespaKeepsOrigins ==
    ASSUME Basis, Origins, NEW r \in OutlookRows, NEW row, RespaChanges(r, row)
    PROVE  Origins'
<1>1. ASSUME NEW o, Known(o) PROVE Known(o)'
  BY <1>1, RespaEffects DEF Known, RespaChanges
<1>2. Known(row.origin)'
  <2>1. CASE Made(resv[r])
    BY <1>1, <2>1, RespaFormer DEF Origins
  <2>2. CASE ~Made(resv[r])
    BY <2>2, RespaFormer, RespaEffects DEF Known, RespaChanges
  <2> QED
    BY <2>1, <2>2
<1>3. ASSUME NEW s \in OutlookRows
      PROVE  /\ Made(resv[s])' => Known(resv[s].origin)'
             /\ O!Written(s)' => Known(job.draft[s].origin)'
             /\ O!Written(s)' /\ Made(resv[s])' => job'.draft[s].origin = resv'[s].origin
  <2>1. CASE s = r
    BY <1>2, <2>1, RespaEffects DEF RespaChanges
  <2>2. CASE s # r
    <3>1. resv'[s] = resv[s]
      BY <2>2 DEF RespaChanges
    <3> QED
      BY <1>1, <3>1, RespaEffects DEF Origins, Made
  <2> QED
    BY <2>1, <2>2
<1>4. ASSUME NEW e \in OutlookEvents PROVE Made(events[e])' => Known(events[e].origin)'
  BY <1>1 DEF Origins, RespaChanges, Made
<1> QED
  BY <1>3, <1>4 DEF Origins

LEMMA RespaKeepsMappings ==
    ASSUME Basis, Origins, Mappings, NEW r \in OutlookRows, NEW row, RespaChanges(r, row)
    PROVE  Mappings'
<1>1. ASSUME NEW m, MapFits(resv[r], m) PROVE MapFits(row, m)
  BY <1>1, RespaFormer, RespaEffects DEF MapFits
<1>2. ASSUME NEW s \in OutlookRows
      PROVE  MapFits(resv[s], rows[s])' /\ MapFits(Now(s), Link(s))'
  <2>1. MapFits(resv'[s], rows[s]) /\ MapFits(Now(s)', Link(s))
    <3>1. CASE s = r
      BY <1>1, <3>1, RespaEffects DEF RespaChanges, Mappings
    <3>2. CASE s # r
      BY <3>2, RespaEffects DEF RespaChanges, Mappings
    <3> QED
      BY <3>1, <3>2
  <2>2. rows' = rows /\ events' = events /\ Link(s)' = Link(s)
    BY RespaEffects DEF RespaChanges
  <2> QED
    BY <2>1, <2>2 DEF MapFits
<1>3. \A s \in OutlookRows : Link(s)' = Link(s) /\ rows'[s] = rows[s]
  BY RespaEffects DEF RespaChanges
<1>4. at' = at
  BY DEF RespaChanges
<1>5. /\ \A s, u \in OutlookRows : rows[s].event # None /\ rows[s].event = rows[u].event => s = u
      /\ \A s, u \in OutlookRows : Link(s).event # None /\ Link(s).event = Link(u).event => s = u
      /\ at = "plan" => \A s \in OutlookRows : Link(s).event = rows[s].event
  BY DEF Mappings
<1>6. ASSUME NEW s \in OutlookRows, NEW u \in OutlookRows
      PROVE  /\ rows'[s].event # None /\ rows'[s].event = rows'[u].event => s = u
             /\ Link(s)'.event # None /\ Link(s)'.event = Link(u)'.event => s = u
  <2>1. rows'[s] = rows[s] /\ rows'[u] = rows[u] /\ Link(s)' = Link(s) /\ Link(u)' = Link(u)
    BY <1>3
  <2>2. /\ rows[s].event # None /\ rows[s].event = rows[u].event => s = u
        /\ Link(s).event # None /\ Link(s).event = Link(u).event => s = u
    BY <1>5
  <2> QED
    BY <2>1, <2>2
<1>7. at' = "plan" => \A s \in OutlookRows : Link(s)'.event = rows'[s].event
  BY <1>3, <1>4, <1>5
<1> QED
  BY <1>2, <1>6, <1>7 DEF Mappings

LEMMA RespaKeepsFamilies ==
    ASSUME Basis, Origins, OneRow, OneEvent, Paired, PastAlike,
           NEW r \in OutlookRows, NEW row, RespaChanges(r, row)
    PROVE  OneRow' /\ OneEvent' /\ Paired' /\ PastAlike'
<1>0. /\ events' = events /\ rows' = rows /\ phase' = phase /\ hit \subseteq hit'
      /\ resv'[r] = row /\ job'.made = job.made
      /\ \A s \in OutlookRows : s # r => resv'[s] = resv[s]
  BY RespaEffects DEF RespaChanges
<1>1. OneRow'
  <2>1. ASSUME NEW s \in OutlookRows, Made(Now(s)), Made(row), Now(s).origin = row.origin,
               Spared(row)'
        PROVE  s = r
    <3>1. CASE Made(resv[r])
      <4>1. Made(Now(r)) /\ Now(r).origin = row.origin
        <5>1. Now(r) = resv[r]
          BY RespaEffects
        <5>2. row.origin = resv[r].origin
          BY <3>1, RespaFormer
        <5> QED
          BY <3>1, <5>1, <5>2
      <4>2. Spared(Now(r))
        <5>1. row.origin \notin hit'
          BY <2>1 DEF Spared
        <5>2. row.origin \notin hit
          BY <1>0, <5>1
        <5> QED
          BY <4>1, <5>2 DEF Spared
      <4> QED
        BY <2>1, <4>1, <4>2 DEF OneRow
    <3>2. CASE ~Made(resv[r])
      BY <2>1, <3>2, RespaFormer
    <3> QED
      BY <3>1, <3>2
  <2>2. ASSUME NEW s \in OutlookRows, NEW u \in OutlookRows, Made(Now(s))', Made(Now(u))',
               Now(s)'.origin = Now(u)'.origin, Now(s)'.origin \notin hit'
        PROVE  s = u
    <3>1. CASE s # r /\ u # r
      <4>1. Now(s)' = Now(s) /\ Now(u)' = Now(u)
        BY <3>1, RespaEffects
      <4>2. Now(s).origin \notin hit
        BY <1>0, <2>2, <4>1
      <4> QED
        BY <2>2, <4>1, <4>2 DEF OneRow, Spared, Made
    <3>2. CASE s = r
      BY <2>1, <2>2, <3>2, RespaEffects DEF Spared, Made
    <3>3. CASE u = r
      BY <2>1, <2>2, <3>3, RespaEffects DEF Spared, Made
    <3> QED
      BY <3>1, <3>2, <3>3
  <2> QED
    BY <2>2 DEF OneRow, Spared
<1>2. OneEvent'
  BY <1>0 DEF OneEvent, O!There, Spared
<1>3. ASSUME NEW e \in OutlookEvents, Akin(row, e)'
      PROVE  Akin(resv[r], e) /\ Akin(Now(r), e)
  <2>1. /\ O!There(e) /\ row.origin = events[e].origin /\ row.origin \notin hit
        /\ Made(events[e])
    BY <1>0, <1>3, Events DEF Akin, Spared, O!There
  <2>2. Made(resv[r]) /\ row.origin = resv[r].origin
    BY <2>1, RespaFormer
  <2> QED
    BY <2>1, <2>2, RespaEffects DEF Akin, Spared
<1>4. ASSUME NEW s \in OutlookRows, s # r, NEW e \in OutlookEvents
      PROVE  /\ Akin(Now(s), e)' => Akin(Now(s), e)
             /\ Akin(resv[s], e)' => Akin(resv[s], e)
  BY <1>0, <1>4, RespaEffects DEF Akin, Made, Spared, O!There
<1>5. Paired'
  <2>1. ASSUME NEW s \in OutlookRows, NEW e \in OutlookEvents
        PROVE  /\ Akin(Now(s), e)' => Akin(Now(s), e)
               /\ Akin(resv[s], e)' => Akin(resv[s], e)
    <3>1. CASE s = r
      BY <1>0, <1>3, <3>1, RespaEffects DEF Akin, Made, Spared, O!There
    <3> QED
      BY <1>4, <3>1
  <2> QED
    BY <1>0, <2>1, RespaEffects DEF Paired, Lasting
<1>6. PastAlike'
  <2>1. ASSUME NEW e \in OutlookEvents, Akin(row, e)'
        PROVE  Lasting(row)' /\ Lasting(events[e])'
    <3>1. Akin(resv[r], e) /\ Lasting(resv[r])
      BY <1>3, <2>1, RespaFormer DEF Akin
    <3>2. Lasting(events[e])
      BY <3>1 DEF PastAlike, Alike, Lasting
    <3> QED
      BY <1>0, <3>2, RespaEffects DEF Lasting
  <2>2. ASSUME NEW s \in OutlookRows, NEW e \in OutlookEvents
        PROVE  Alike(resv[s], e)' /\ Alike(Now(s), e)'
    <3>1. CASE s = r
      BY <1>0, <2>1, <3>1, RespaEffects DEF Alike, Akin, Made, Spared, Lasting, O!There
    <3>2. CASE s # r
      BY <1>0, <1>4, <3>2, RespaEffects DEF PastAlike, Alike, Lasting
    <3> QED
      BY <3>1, <3>2
  <2> QED
    BY <2>2 DEF PastAlike
<1> QED
  BY <1>1, <1>2, <1>5, <1>6

LEMMA RespaKeepsNear ==
    ASSUME Basis, NotFar, NEW r \in OutlookRows, NEW row, RespaChanges(r, row)
    PROVE  NotFar'
<1>0. /\ events' = events /\ phase' = phase /\ hit \subseteq hit' /\ resv'[r] = row
      /\ \A s \in OutlookRows : s # r => resv'[s] = resv[s]
      /\ Now(r)' = row /\ \A s \in OutlookRows : s # r => Now(s)' = Now(s)
  BY RespaEffects DEF RespaChanges
<1>1. Close(row)'
  <2>1. ASSUME row.origin \notin hit', phase[row.time] = "far" PROVE FALSE
    <3>1. row.time = resv[r].time /\ row.time \in Time
      BY <2>1 DEF RespaChanges
    <3>2. Made(resv[r]) /\ row.origin = resv[r].origin
      BY <3>1, Views, NoRows DEF Whole, RespaChanges, Made, O!Booked, O!NoResv
    <3> QED
      BY <1>0, <2>1, <3>1, <3>2 DEF NotFar, Close, Spared
  <2> QED
    BY <1>0, <2>1 DEF Close, Spared
<1>2. ASSUME NEW x, Close(x) PROVE Close(x)'
  BY <1>0, <1>2 DEF Close, Made, Spared
<1>3. ASSUME NEW s \in OutlookRows PROVE Close(resv[s])' /\ Close(Now(s))'
  <2>1. CASE s = r
    BY <1>0, <1>1, <2>1 DEF Close, Made, Spared
  <2>2. CASE s # r
    BY <1>0, <1>2, <2>2 DEF NotFar, Close, Made, Spared
  <2> QED
    BY <2>1, <2>2
<1>4. ASSUME NEW e \in OutlookEvents PROVE Close(events[e])'
  BY <1>0 DEF NotFar, Close, Made, Spared
<1> QED
  BY <1>3, <1>4 DEF NotFar

\* All that is seen of it
RespaView(r, row) ==
    /\ job'.respa = job.respa /\ job'.remote = job.remote /\ job'.listed = job.listed
    /\ job'.rows = job.rows /\ job'.readE = job.readE /\ job'.todo = job.todo
    /\ job'.draft = job.draft /\ job'.made = job.made
    /\ \A s \in OutlookRows : Link(s)' = Link(s) /\ (O!Written(s)' <=> O!Written(s))
    /\ \A s \in OutlookRows : s # r =>
          /\ resv'[s] = resv[s] /\ Now(s)' = Now(s)
          /\ (s \in recent' <=> s \in recent) /\ (s \in job'.readR <=> s \in job.readR)
          /\ (Unread(s) => Unread(s)')
    /\ resv'[r] = row /\ Now(r) = resv[r] /\ Now(r)' = row
    /\ Made(row) /\ Lasting(row) /\ ~O!Written(r)
    /\ Spared(row)' => r \in recent' /\ r \notin job'.readR /\ Unread(r)' /\ Spared(row)
    /\ \A e \in OutlookEvents : Unseen(e) => Unseen(e)'
    /\ queue' = TRUE /\ rows' = rows /\ events' = events /\ notices' = notices
    /\ phase' = phase /\ fresh' = fresh /\ hit \subseteq hit' /\ at' = at

LEMMA RespaSeen ==
    ASSUME Basis, NEW r \in OutlookRows, NEW row, RespaChanges(r, row)
    PROVE  RespaView(r, row)
<1>1. /\ job'.respa = job.respa /\ job'.remote = job.remote /\ job'.listed = job.listed
      /\ job'.rows = job.rows /\ job'.readE = job.readE /\ job'.todo = job.todo
      /\ job'.draft = job.draft /\ job'.made = job.made
      /\ \A s \in OutlookRows : Link(s)' = Link(s) /\ (O!Written(s)' <=> O!Written(s))
      /\ \A s \in OutlookRows : s # r => Now(s)' = Now(s)
      /\ Now(r) = resv[r] /\ Now(r)' = row /\ Made(row) /\ Lasting(row)
      /\ Spared(row)' => Spared(row)
  BY RespaEffects
<1>2. /\ resv'[r] = row /\ ~O!Written(r) /\ queue' = TRUE
      /\ Spared(row)' => r \in recent' /\ r \notin job'.readR
      /\ \A s \in OutlookRows : s # r => resv'[s] = resv[s] /\ (s \in recent' <=> s \in recent)
                                          /\ (s \in job'.readR <=> s \in job.readR)
      /\ rows' = rows /\ events' = events /\ notices' = notices
      /\ phase' = phase /\ fresh' = fresh /\ hit \subseteq hit' /\ at' = at
  BY DEF RespaChanges, Spared
<1>3. /\ Spared(row)' => Unread(r)'
      /\ \A s \in OutlookRows : s # r => (Unread(s) => Unread(s)')
      /\ \A e \in OutlookEvents : Unseen(e) => Unseen(e)'
  BY <1>1, <1>2 DEF Unread, O!Unread, Unseen
<1> QED
  BY <1>1, <1>2, <1>3 DEF RespaView

LEMMA RespaKeepsRecords ==
    ASSUME Basis, Recorded, NEW r \in OutlookRows, NEW row, RespaChanges(r, row)
    PROVE  Recorded'
<1>v. RespaView(r, row)
  BY RespaSeen
<1>1. ASSUME NEW s \in OutlookRows
      PROVE  /\ InForce(resv[s])' =>
                  s \in recent' \/ (rows'[s].event # None /\ rows'[s].key = resv'[s].time)
             /\ Dropped(resv[s])' /\ rows'[s].event # None /\ O!There(rows[s].event)' => s \in recent'
  <2>1. CASE s = r
    BY <2>1, <1>v DEF RespaView, InForce, Dropped, Spared
  <2>2. CASE s # r
    BY <2>2, <1>v DEF RespaView, Recorded, InForce, Dropped, Spared, Lasting, O!There
  <2> QED
    BY <2>1, <2>2
<1>2. ASSUME NEW e \in OutlookEvents, Live(e)'
      PROVE  \/ e \in fresh'
             \/ \E s \in OutlookRows : rows'[s].event = e /\ rows'[s].key = events'[e].time
  <2>1. Live(e)
    BY <1>2, <1>v DEF RespaView, Live, O!There, Spared, Lasting
  <2> QED
    BY <2>1, <1>v DEF RespaView, Recorded
<1> QED
  BY <1>1, <1>2 DEF Recorded

LEMMA RespaKeepsNotes ==
    ASSUME Basis, Noted, NEW r \in OutlookRows, NEW row, RespaChanges(r, row)
    PROVE  Noted'
<1>v. RespaView(r, row)
  BY RespaSeen
<1> SUFFICES ASSUME at # "plan" PROVE Noted'
  BY <1>v DEF RespaView, Noted, RowNoted, EventNoted
<1>0. job'.todo = job.todo
  BY <1>v DEF RespaView
<1>1. ASSUME NEW s \in OutlookRows
      PROVE  /\ InForce(Now(s))' =>
                  \/ Unread(s)'
                  \/ \E o \in job'.todo : o.r = s
                  \/ (Link(s).event # None /\ Link(s).key = Now(s).time)'
             /\ (Dropped(Now(s)) /\ Link(s).event # None /\ O!There(Link(s).event))' =>
                  \/ Unread(s)' \/ (O!Written(s) /\ queue)'
                  \/ \E o \in job'.todo : o.r = s /\ o.act = "delete in calendar"
             /\ (InForce(Now(s)) /\ Link(s).event # None /\ ~O!There(Link(s).event))' =>
                  queue' \/ notices' \/ (\E o \in job'.todo : o.r = s)
  <2>1. CASE s = r
    BY <2>1, <1>v DEF RespaView, InForce, Dropped, Spared
  <2>2. CASE s # r
    <3>1. /\ Now(s)' = Now(s) /\ Link(s)' = Link(s) /\ (O!Written(s)' <=> O!Written(s))
          /\ Unread(s) => Unread(s)'
      BY <2>2, <1>v DEF RespaView
    <3>2. /\ InForce(Now(s))' => InForce(Now(s))
          /\ Dropped(Now(s))' => Dropped(Now(s))
          /\ (O!There(Link(s).event))' => O!There(Link(s).event)
      BY <3>1, <1>v DEF RespaView, InForce, Dropped, Spared, Lasting, O!There
    <3>3. /\ InForce(Now(s)) =>
               \/ Unread(s)
               \/ \E o \in job.todo : o.r = s
               \/ (Link(s).event # None /\ Link(s).key = Now(s).time)
          /\ Dropped(Now(s)) /\ Link(s).event # None /\ O!There(Link(s).event) =>
               \/ Unread(s) \/ (O!Written(s) /\ queue)
               \/ \E o \in job.todo : o.r = s /\ o.act = "delete in calendar"
      BY DEF Noted, RowNoted, EventNoted
    <3>4. queue' = TRUE
      BY <1>v DEF RespaView
    <3> QED
      BY <1>0, <3>1, <3>2, <3>3, <3>4
  <2> QED
    BY <2>1, <2>2
<1>2. ASSUME NEW e \in OutlookEvents, Live(e)'
      PROVE  \/ Unseen(e)'
             \/ \E o \in job'.todo : o.e = e
             \/ \E s \in OutlookRows : (Link(s).event = e /\ Link(s).key = events[e].time)'
  <2>1. Live(e)
    BY <1>2, <1>v DEF RespaView, Live, O!There, Spared, Lasting
  <2>2. /\ Unseen(e) => Unseen(e)'
        /\ \A s \in OutlookRows : Link(s)' = Link(s)
        /\ events' = events
    BY <1>v DEF RespaView
  <2>3. \/ Unseen(e)
        \/ \E o \in job.todo : o.e = e
        \/ \E s \in OutlookRows : Link(s).event = e /\ Link(s).key = events[e].time
    BY <2>1 DEF Noted, RowNoted, EventNoted
  <2> QED
    BY <1>0, <2>2, <2>3
<1> QED
  BY <1>1, <1>2 DEF Noted, RowNoted, EventNoted

LEMMA RespaKeepsTodo ==
    ASSUME Basis, Origins, Todo, NEW r \in OutlookRows, NEW row, RespaChanges(r, row)
    PROVE  Todo'
<1>v. RespaView(r, row)
  BY RespaSeen
<1>0. job'.todo = job.todo
  BY <1>v DEF RespaView
<1>1. ASSUME NEW o \in job.todo PROVE OpFits(o)' /\ OpMeant(o)'
  <2>0. OpFits(o) /\ OpMeant(o) /\ o.r \in OutlookRows \cup {None}
    BY JobTypes DEF Todo
  <2>1. OpFits(o)'
    <3>1. o.r # None => Made(resv[o.r])'
      BY <2>0, <1>v DEF RespaView, OpFits, Made
    <3>2. /\ \A s \in OutlookRows : Link(s)' = Link(s) /\ (O!Written(s)' <=> O!Written(s))
          /\ events' = events /\ rows' = rows /\ phase' = phase
      BY <1>v DEF RespaView
    <3>3. /\ o.e # None => Made(events[o.e])'
          /\ Lasting(events[o.e])' <=> Lasting(events[o.e])
      BY <2>0, <3>2 DEF OpFits, Made, Lasting
    <3> QED
      BY <2>0, <3>1, <3>2, <3>3 DEF OpFits
  <2>2. OpMeant(o)'
    <3>1. CASE o.r = r
      <4> SUFFICES ASSUME Spared(row)' PROVE OpMeant(o)'
        BY <3>1, <1>v DEF RespaView, OpMeant, Spared
      <4>1. /\ O!Booked(r) /\ Lasting(resv[r]) /\ Spared(resv[r]) /\ resv'[r] = row
            /\ r # None
        BY <2>0, <3>1, RespaFormer, <1>v, OutlookConstants DEF RespaView, OpFits, Spared
      <4>2. Lasting(resv[r])' /\ Unread(r)'
        BY <4>1, <1>v DEF RespaView, Lasting
      <4>3. \A e \in OutlookEvents : Gone(e)' <=> Gone(e)
        BY <1>v DEF RespaView, Gone
      <4>4. Gone(o.e)' <=> Gone(o.e)
        BY <1>v DEF RespaView, Gone
      <4> QED
        BY <2>0, <3>1, <4>1, <4>2, <4>4 DEF OpMeant
    <3>2. CASE o.r # r
      <4>1. CASE o.r = None
        BY <4>1 DEF OpMeant
      <4>2. CASE o.r \in OutlookRows
        <5>1. /\ resv'[o.r] = resv[o.r] /\ Link(o.r)' = Link(o.r) /\ (Unread(o.r) => Unread(o.r)')
              /\ events' = events /\ phase' = phase /\ hit \subseteq hit'
          BY <3>2, <4>2, <1>v DEF RespaView
        <5> QED
          BY <2>0, <5>1 DEF OpMeant, Spared, Lasting, O!Booked, Gone
      <4> QED
        BY <2>0, <4>1, <4>2
    <3> QED
      BY <3>1, <3>2
  <2> QED
    BY <2>1, <2>2
<1> QED
  BY <1>0, <1>1 DEF Todo

LEMMA RespaKeepsJustice ==
    ASSUME Basis, Justified, NEW r \in OutlookRows, NEW row, RespaChanges(r, row)
    PROVE  Justified'
<1>v. RespaView(r, row)
  BY RespaSeen
<1>1. ~O!Written(r)' /\ job'.draft = job.draft
  BY <1>v DEF RespaView, RespaChanges
<1>2. ASSUME NEW s \in OutlookRows, s # r
      PROVE  /\ O!Written(s)' => O!Written(s)
             /\ resv'[s] = resv[s] /\ rows' = rows /\ events' = events /\ hit \subseteq hit'
  BY <1>2, <1>v DEF RespaView
<1> QED
  BY <1>1, <1>2 DEF Justified, O!Booked, Spared, Gone

LEMMA RespaKeepsReading ==
    ASSUME Basis, Origins, Mappings, Reading,
           NEW r \in OutlookRows, NEW row, RespaChanges(r, row)
    PROVE  Reading'
<1>v. RespaView(r, row)
  BY RespaSeen
<1> SUFFICES ASSUME at = "plan" PROVE Reading'
  BY <1>v DEF RespaView, Reading
<1>0. /\ job'.respa = job.respa /\ job'.remote = job.remote /\ job'.listed = job.listed
      /\ job'.rows = job.rows /\ job'.readE = job.readE
  BY <1>v DEF RespaView
<1>1. RowRead(r)'
  <2> SUFFICES ASSUME Spared(row)' PROVE RowRead(r)'
    BY <1>v DEF RespaView, RowRead, Spared
  <2>1. /\ resv'[r] = row /\ r \in recent' /\ Unread(r)' /\ Lasting(resv[r])' /\ Spared(row)
        /\ r \notin job'.readR /\ queue' = TRUE /\ rows' = rows /\ events' = events
    BY <1>v DEF RespaView, Lasting, Unread, O!Unread
  <2>2. CASE Made(resv[r])
    <3>1. O!Booked(r) /\ Lasting(resv[r]) /\ Spared(resv[r]) /\ RowRead(r)
      BY <2>1, <2>2, RespaFormer DEF Reading, Spared
    <3> QED
      BY <1>0, <2>1, <2>2, <3>1 DEF RowRead, Gone
  <2>3. CASE ~Made(resv[r])
    <3>1. job.respa[r] = "absent" /\ rows[r].event = None
      BY <2>3 DEF Reading, Mappings, MapFits
    <3> QED
      BY <1>0, <2>1, <3>1 DEF RowRead
  <2> QED
    BY <2>2, <2>3
<1>2. ASSUME NEW s \in OutlookRows, s # r PROVE RowRead(s)'
  <2>1. /\ resv'[s] = resv[s] /\ (s \in recent' <=> s \in recent)
        /\ (s \in job'.readR <=> s \in job.readR)
        /\ queue' = TRUE /\ rows' = rows /\ events' = events /\ phase' = phase /\ hit \subseteq hit'
    BY <1>2, <1>v DEF RespaView
  <2>2. RowRead(s)
    BY DEF Reading
  <2>3. O!RespaType(rows[s], s)' = O!RespaType(rows[s], s)
    BY <2>1 DEF O!RespaType, O!Seen
  <2> QED
    BY <1>0, <2>1, <2>2, <2>3 DEF RowRead, Made, Spared, Lasting, O!Booked, Gone, O!Unread
<1>3. ASSUME NEW s \in OutlookRows
      PROVE  /\ job'.respa[s] # "absent" => Made(resv[s])'
             /\ job'.respa[s] \in {"absent", "no change"} => job'.rows[s] = rows'[s]
  BY <1>0, <1>v DEF RespaView, Reading, Made
<1>4. ASSUME NEW e \in OutlookEvents PROVE EventRead(e)'
  <2>1. Live(e)' => Live(e)
    BY <1>v DEF RespaView, Live, O!There, Spared, Lasting
  <2> QED
    BY <1>0, <2>1, <1>v DEF RespaView, Reading, EventRead
<1> QED
  BY <1>1, <1>2, <1>3, <1>4 DEF Reading

-----------------------------------------------------------------------------
(* An event changes *)

CalendarView(e, row) ==
    /\ job'.respa = job.respa /\ job'.remote = job.remote /\ job'.listed = job.listed
    /\ job'.rows = job.rows /\ job'.readR = job.readR /\ job'.todo = job.todo
    /\ job'.draft = job.draft /\ job'.made = job.made /\ job'.readE = job.readE \ {e}
    /\ \A r \in OutlookRows :
          /\ Link(r)' = Link(r) /\ Now(r)' = Now(r) /\ (O!Written(r)' <=> O!Written(r))
          /\ Unread(r)' <=> Unread(r)
    /\ \A d \in OutlookEvents : d # e => events'[d] = events[d] /\ (Unseen(d) => Unseen(d)')
    /\ events'[e] = row /\ e \in fresh' /\ Unseen(e)'
    /\ Made(row) /\ Lasting(row) /\ Whole(row)
    /\ fresh' = fresh \cup {e} /\ notices' = TRUE /\ queue' = queue /\ recent' = recent
    /\ rows' = rows /\ resv' = resv /\ phase' = phase /\ at' = at /\ hit \subseteq hit'

LEMMA CalendarSeen ==
    ASSUME Basis, NEW e \in OutlookEvents, NEW row, CalendarChanges(e, row)
    PROVE  CalendarView(e, row)
<1>0. job \in Jobs
  BY DEF Basis, OutlookTypes
<1>1. /\ job'.respa = job.respa /\ job'.remote = job.remote /\ job'.listed = job.listed
      /\ job'.rows = job.rows /\ job'.readR = job.readR /\ job'.todo = job.todo
      /\ job'.draft = job.draft /\ job'.made = job.made /\ job'.readE = job.readE \ {e}
  BY <1>0 DEF CalendarChanges, Jobs
<1>2. /\ events'[e] = row /\ e \in fresh' /\ Made(row) /\ Lasting(row) /\ Whole(row)
      /\ \A d \in OutlookEvents : d # e => events'[d] = events[d]
      /\ fresh' = fresh \cup {e} /\ notices' = TRUE /\ queue' = queue /\ recent' = recent
      /\ rows' = rows /\ resv' = resv /\ phase' = phase /\ at' = at /\ hit \subseteq hit'
  BY DEF CalendarChanges, Made, Lasting, Whole
<1>3. \A r \in OutlookRows :
          /\ Link(r)' = Link(r) /\ Now(r)' = Now(r) /\ (O!Written(r)' <=> O!Written(r))
          /\ Unread(r)' <=> Unread(r)
  BY <1>1, <1>2 DEF Link, Now, O!Written, Unread, O!Unread
<1>4. Unseen(e)' /\ \A d \in OutlookEvents : d # e => (Unseen(d) => Unseen(d)')
  BY <1>1, <1>2 DEF Unseen
<1> QED
  BY <1>1, <1>2, <1>3, <1>4 DEF CalendarView

LEMMA CalendarFormer ==
    ASSUME Basis, Origins, NEW e \in OutlookEvents, NEW row, CalendarChanges(e, row)
    PROVE  /\ ~Made(events[e]) \/ (O!There(e) /\ Made(events[e]) /\ Lasting(events[e])
                                   /\ row.origin = events[e].origin)
           /\ ~Gone(e)
           /\ ~Made(events[e]) => row.origin = e
           /\ ~Made(events[e]) =>
                /\ \A s \in OutlookRows : Made(Now(s)) => Now(s).origin # row.origin
                /\ \A s \in OutlookRows : Made(resv[s]) => resv[s].origin # row.origin
                /\ \A d \in OutlookEvents : Made(events[d]) => events[d].origin # row.origin
<1>1. /\ ~Made(events[e]) \/ (O!There(e) /\ Made(events[e]) /\ Lasting(events[e])
                              /\ row.origin = events[e].origin)
      /\ ~Made(events[e]) => row.origin = e
      /\ ~Gone(e)
  BY DEF CalendarChanges, Made, O!There, Gone
<1>2. ~Made(events[e]) => ~Known(e)
  BY DEF Known
<1> QED
  BY <1>1, <1>2, KnownNow DEF Origins

LEMMA CalendarKeepsBasis ==
    ASSUME Basis, NEW e \in OutlookEvents, NEW row, CalendarChanges(e, row)
    PROVE  Basis'
<1>v. CalendarView(e, row)
  BY CalendarSeen
<1>1. OutlookTypes'
  <2>1. OutlookTypes
    BY DEF Basis
  <2>2. fresh' \subseteq OutlookEvents
    BY <1>v, <2>1 DEF CalendarView, OutlookTypes
  <2> QED
    BY <2>1, <2>2 DEF OutlookTypes, CalendarChanges
<1>2. Wholeness'
  <2>1. ASSUME NEW d \in OutlookEvents PROVE Whole(events'[d]) /\ (Made(events[d]) => Made(events'[d]))
    BY <1>v DEF Basis, Wholeness, CalendarView
  <2>2. \A d \in fresh' \cup job'.readE \cup job'.made : d = e \/ d \in fresh \cup job.readE \cup job.made
    BY <1>v DEF CalendarView
  <2>3. fresh \cup job.readE \cup job.made \subseteq OutlookEvents
    BY DEF Basis, OutlookTypes, Jobs
  <2>4. \A d \in fresh' \cup job'.readE \cup job'.made : Made(events'[d])
    BY <1>v, <2>1, <2>2, <2>3 DEF Basis, Wholeness, CalendarView
  <2>5. resv' = resv /\ job'.draft = job.draft
    BY <1>v DEF CalendarView
  <2> QED
    BY <2>1, <2>4, <2>5 DEF Basis, Wholeness, Whole, Made
<1>3. Phases'
  BY <1>v DEF Basis, Phases, CalendarView, CalendarChanges
<1> QED
  BY <1>1, <1>2, <1>3 DEF Basis

LEMMA CalendarKeepsOrigins ==
    ASSUME Basis, Origins, NEW e \in OutlookEvents, NEW row, CalendarChanges(e, row)
    PROVE  Origins'
<1>v. CalendarView(e, row)
  BY CalendarSeen
<1>1. ASSUME NEW o, Known(o) PROVE Known(o)'
  BY <1>1, <1>v DEF Known, CalendarView
<1>2. Known(row.origin)'
  <2>1. CASE Made(events[e])
    BY <1>1, <2>1, CalendarFormer DEF Origins
  <2>2. CASE ~Made(events[e])
    BY <1>v, <2>2, CalendarFormer DEF Known, CalendarView
  <2> QED
    BY <2>1, <2>2
<1>3. ASSUME NEW s \in OutlookRows
      PROVE  /\ Made(resv[s])' => Known(resv[s].origin)'
             /\ O!Written(s)' => Known(job.draft[s].origin)'
             /\ O!Written(s)' /\ Made(resv[s])' => job'.draft[s].origin = resv'[s].origin
  BY <1>1, <1>v DEF Origins, Made, CalendarView
<1>4. ASSUME NEW d \in OutlookEvents PROVE Made(events[d])' => Known(events[d].origin)'
  <2>1. CASE d = e
    BY <1>2, <1>v, <2>1 DEF CalendarView
  <2>2. CASE d # e
    BY <1>1, <1>v, <2>2 DEF CalendarView, Origins, Made
  <2> QED
    BY <2>1, <2>2
<1> QED
  BY <1>3, <1>4 DEF Origins

LEMMA CalendarKeepsMappings ==
    ASSUME Basis, Origins, Mappings, NEW e \in OutlookEvents, NEW row, CalendarChanges(e, row)
    PROVE  Mappings'
<1>v. CalendarView(e, row)
  BY CalendarSeen
<1>1. ASSUME NEW x, NEW m \in MapRows, MapFits(x, m) PROVE MapFits(x, m)'
  <2>1. CASE m.event = e
    BY <1>1, <1>v, <2>1, CalendarFormer DEF MapFits, CalendarView
  <2>2. CASE m.event # e
    BY <1>1, <1>v, <2>2 DEF MapFits, CalendarView, MapRows, Made
  <2> QED
    BY <2>1, <2>2
<1>2. ASSUME NEW s \in OutlookRows
      PROVE  MapFits(resv[s], rows[s])' /\ MapFits(Now(s), Link(s))'
  <2>1. /\ rows[s] \in MapRows /\ Link(s) \in MapRows
        /\ MapFits(resv[s], rows[s]) /\ MapFits(Now(s), Link(s))
    BY Views DEF Mappings
  <2> DEFINE x == resv[s]
             y == Now(s)
             m == rows[s]
             n == Link(s)
  <2>2. resv'[s] = x /\ rows'[s] = m /\ Now(s)' = y /\ Link(s)' = n
    BY <1>v DEF CalendarView
  <2>3. /\ m.event # None => Made(x) /\ Made(events'[m.event])
                             /\ x.origin = events'[m.event].origin
        /\ n.event # None => Made(y) /\ Made(events'[n.event])
                             /\ y.origin = events'[n.event].origin
    <3>1. MapFits(x, m) /\ MapFits(y, n) /\ m \in MapRows /\ n \in MapRows
      BY <2>1
    <3> HIDE DEF x, y, m, n
    <3> QED
      BY <1>1, <3>1 DEF MapFits, Made
  <2> QED
    BY <2>2, <2>3 DEF MapFits
<1> QED
  BY <1>2, <1>v DEF Mappings, CalendarView

LEMMA CalendarKeepsFamilies ==
    ASSUME Basis, Origins, OneRow, OneEvent, Paired, PastAlike,
           NEW e \in OutlookEvents, NEW row, CalendarChanges(e, row)
    PROVE  OneRow' /\ OneEvent' /\ Paired' /\ PastAlike'
<1>v. CalendarView(e, row)
  BY CalendarSeen
<1>1. OneRow'
  BY <1>v DEF CalendarView, OneRow, Spared, Made
<1>3. ASSUME NEW x, Made(x), O!There(e)', x.origin = row.origin, x.origin \notin hit',
             ~Made(events[e]) => x.origin # row.origin
      PROVE  Akin(x, e) /\ Lasting(events[e])
  BY <1>3, <1>v, CalendarFormer DEF Akin, Spared, CalendarView
<1>4. ASSUME NEW x, Made(x), NEW d \in OutlookEvents, d # e, Akin(x, d)'
      PROVE  Akin(x, d)
  BY <1>4, <1>v DEF Akin, Spared, CalendarView, O!There
<1>a. ASSUME NEW s \in OutlookRows, NEW d \in OutlookEvents
      PROVE  /\ Akin(Now(s), d)' => Akin(Now(s), d) /\ (d = e => Lasting(events[e]))
             /\ Akin(resv[s], d)' => Akin(resv[s], d) /\ (d = e => Lasting(events[e]))
  <2>1. Now(s)' = Now(s) /\ resv'[s] = resv[s]
    BY <1>v DEF CalendarView
  <2>2. CASE d = e
    <3>1. events'[e] = row
      BY <1>v DEF CalendarView
    <3>2. ~Made(events[e]) => /\ Made(Now(s)) => Now(s).origin # row.origin
                              /\ Made(resv[s]) => resv[s].origin # row.origin
      BY CalendarFormer
    <3> QED
      BY <1>3, <2>1, <2>2, <3>1, <3>2 DEF Akin, Spared, Made
  <2>3. CASE d # e
    BY <1>4, <2>1, <2>3 DEF Akin, Spared, Made, O!There
  <2> QED
    BY <2>2, <2>3
<1>2. OneEvent'
  <2>1. ASSUME NEW c \in OutlookEvents, c # e, O!There(c), O!There(e)',
               events[c].origin = row.origin, row.origin \notin hit'
        PROVE  FALSE
    <3>1. Made(events[e]) /\ O!There(e) /\ events[e].origin = row.origin
      BY <2>1, CalendarFormer, Events
    <3> QED
      BY <1>v, <2>1, <3>1 DEF OneEvent, CalendarView, Spared
  <2>2. ASSUME NEW c \in OutlookEvents, NEW d \in OutlookEvents, O!There(c)', O!There(d)',
               events'[c].origin = events'[d].origin, events'[c].origin \notin hit'
        PROVE  c = d
    <3>1. CASE c = e \/ d = e
      BY <1>v, <2>1, <2>2, <3>1 DEF CalendarView, O!There
    <3>2. CASE c # e /\ d # e
      BY <1>v, <2>2, <3>2 DEF CalendarView, O!There, OneEvent, Spared
    <3> QED
      BY <3>1, <3>2
  <2> QED
    BY <2>2 DEF OneEvent, Spared
<1>5. Paired'
  <2>1. ASSUME NEW s \in OutlookRows, NEW d \in OutlookEvents
        PROVE  /\ (Akin(Now(s), d) /\ Lasting(events[d]))' => Link(s)'.event = d
               /\ (Akin(resv[s], d) /\ Lasting(events[d]))' => rows'[s].event = d \/ d \in job'.made
    <3>1. /\ (Akin(Now(s), d) /\ Lasting(events[d]))' => Akin(Now(s), d) /\ Lasting(events[d])
          /\ (Akin(resv[s], d) /\ Lasting(events[d]))' => Akin(resv[s], d) /\ Lasting(events[d])
      BY <1>a, <1>v DEF CalendarView, Lasting
    <3> QED
      BY <1>v, <3>1 DEF CalendarView, Paired
  <2> QED
    BY <2>1 DEF Paired
<1>6. PastAlike'
  <2>1. ASSUME NEW s \in OutlookRows, NEW d \in OutlookEvents,
               NEW x \in {resv[s], Now(s)}, Akin(x, d), d = e => Lasting(events[e]), 
               ~Lasting(x) \/ ~Lasting(events'[d])
        PROVE  x.time = events'[d].time
    <3>1. ~Lasting(x) \/ ~Lasting(events[d]) => x.time = events[d].time
      BY <2>1 DEF PastAlike, Alike
    <3>2. CASE d = e
      BY <1>v, <2>1, <3>1, <3>2 DEF CalendarView, Lasting
    <3>3. CASE d # e
      BY <1>v, <2>1, <3>1, <3>3 DEF CalendarView
    <3> QED
      BY <3>2, <3>3
  <2>2. ASSUME NEW s \in OutlookRows, NEW d \in OutlookEvents
        PROVE  Alike(resv[s], d)' /\ Alike(Now(s), d)'
    <3>1. Now(s)' = Now(s) /\ resv'[s] = resv[s] /\ phase' = phase
      BY <1>v DEF CalendarView
    <3> QED
      BY <1>a, <2>1, <3>1 DEF Alike, Lasting, Akin, Made, Spared, O!There
  <2> QED
    BY <2>2 DEF PastAlike
<1> QED
  BY <1>1, <1>2, <1>5, <1>6

LEMMA CalendarKeepsNear ==
    ASSUME Basis, NotFar, NEW e \in OutlookEvents, NEW row, CalendarChanges(e, row)
    PROVE  NotFar'
<1>v. CalendarView(e, row)
  BY CalendarSeen
<1>1. Close(row)'
  <2>1. ASSUME row.origin \notin hit', phase[row.time] = "far" PROVE FALSE
    <3>1. row.time = events[e].time /\ row.time \in Time
      BY <2>1 DEF CalendarChanges
    <3>2. Made(events[e]) /\ row.origin = events[e].origin
      BY <3>1, Events, NoRows DEF Whole, CalendarChanges, Made, O!There, O!NoResv
    <3> QED
      BY <1>v, <2>1, <3>1, <3>2 DEF CalendarView, NotFar, Close, Spared
  <2> QED
    BY <1>v, <2>1 DEF CalendarView, Close, Spared
<1>2. ASSUME NEW s \in OutlookRows PROVE Close(resv[s])' /\ Close(Now(s))'
  BY <1>v DEF CalendarView, NotFar, Close, Made, Spared
<1>3. ASSUME NEW d \in OutlookEvents PROVE Close(events[d])'
  BY <1>1, <1>v DEF CalendarView, NotFar, Close, Made, Spared
<1> QED
  BY <1>2, <1>3 DEF NotFar

LEMMA CalendarKeepsRecords ==
    ASSUME Basis, Origins, Mappings, Recorded,
           NEW e \in OutlookEvents, NEW row, CalendarChanges(e, row)
    PROVE  Recorded'
<1>v. CalendarView(e, row)
  BY CalendarSeen
<1>1. ASSUME NEW s \in OutlookRows
      PROVE  /\ InForce(resv[s])' =>
                  s \in recent' \/ (rows'[s].event # None /\ rows'[s].key = resv'[s].time)
             /\ Dropped(resv[s])' /\ rows'[s].event # None /\ O!There(rows[s].event)' => s \in recent'
  <2>1. rows[s].event # None /\ O!There(rows[s].event)' => O!There(rows[s].event)
    <3>1. CASE rows[s].event = e
      BY <3>1, CalendarFormer DEF Mappings, MapFits
    <3>2. CASE rows[s].event # e
      BY <1>v, <3>2, Views DEF CalendarView, O!There, MapRows
    <3> QED
      BY <3>1, <3>2
  <2> QED
    BY <1>v, <2>1 DEF CalendarView, Recorded, InForce, Dropped, Spared, Lasting
<1>2. ASSUME NEW d \in OutlookEvents, Live(d)'
      PROVE  \/ d \in fresh'
             \/ \E s \in OutlookRows : rows'[s].event = d /\ rows'[s].key = events'[d].time
  <2>1. CASE d = e
    BY <1>v, <2>1 DEF CalendarView
  <2>2. CASE d # e
    <3>1. Live(d)
      BY <1>2, <1>v, <2>2 DEF CalendarView, Live, O!There, Spared, Lasting
    <3>2. d \in fresh \/ \E s \in OutlookRows : rows[s].event = d /\ rows[s].key = events[d].time
      BY <3>1 DEF Recorded
    <3>3. fresh' = fresh \cup {e} /\ rows' = rows /\ events'[d] = events[d]
      BY <1>v, <2>2 DEF CalendarView
    <3> QED
      BY <3>2, <3>3
  <2> QED
    BY <2>1, <2>2
<1> QED
  BY <1>1, <1>2 DEF Recorded

LEMMA CalendarKeepsNotes ==
    ASSUME Basis, Origins, Mappings, Noted,
           NEW e \in OutlookEvents, NEW row, CalendarChanges(e, row)
    PROVE  Noted'
<1>v. CalendarView(e, row)
  BY CalendarSeen
<1> SUFFICES ASSUME at # "plan" PROVE Noted'
  BY <1>v DEF CalendarView, Noted, RowNoted, EventNoted
<1>0. job'.todo = job.todo /\ notices' = TRUE
  BY <1>v DEF CalendarView
<1>1. ASSUME NEW s \in OutlookRows
      PROVE  /\ InForce(Now(s))' =>
                  \/ Unread(s)'
                  \/ \E o \in job'.todo : o.r = s
                  \/ (Link(s).event # None /\ Link(s).key = Now(s).time)'
             /\ (Dropped(Now(s)) /\ Link(s).event # None /\ O!There(Link(s).event))' =>
                  \/ Unread(s)' \/ (O!Written(s) /\ queue)'
                  \/ \E o \in job'.todo : o.r = s /\ o.act = "delete in calendar"
  <2>1. Link(s).event # None /\ O!There(Link(s).event)' => O!There(Link(s).event)
    <3>1. CASE Link(s).event = e
      BY <3>1, CalendarFormer DEF Mappings, MapFits
    <3>2. CASE Link(s).event # e
      <4>1. Link(s)' = Link(s) /\ (Link(s).event # None => Link(s).event \in OutlookEvents)
        BY <1>v, Views DEF CalendarView, MapRows
      <4>2. Link(s).event # None => events'[Link(s).event] = events[Link(s).event]
        BY <1>v, <3>2, <4>1 DEF CalendarView
      <4> QED
        BY <4>1, <4>2 DEF O!There
    <3> QED
      BY <3>1, <3>2
  <2>2. /\ Now(s)' = Now(s) /\ Link(s)' = Link(s) /\ (O!Written(s)' <=> O!Written(s))
        /\ Unread(s)' <=> Unread(s)
        /\ queue' = queue
    BY <1>v DEF CalendarView
  <2>3. /\ InForce(Now(s)) =>
             \/ Unread(s)
             \/ \E o \in job.todo : o.r = s
             \/ (Link(s).event # None /\ Link(s).key = Now(s).time)
        /\ Dropped(Now(s)) /\ Link(s).event # None /\ O!There(Link(s).event) =>
             \/ Unread(s) \/ (O!Written(s) /\ queue)
             \/ \E o \in job.todo : o.r = s /\ o.act = "delete in calendar"
    BY DEF Noted, RowNoted, EventNoted
  <2>4. /\ InForce(Now(s))' => InForce(Now(s))
        /\ Dropped(Now(s))' => Dropped(Now(s))
    BY <1>v, <2>2 DEF CalendarView, InForce, Dropped, Spared, Lasting
  <2> QED
    BY <1>0, <2>1, <2>2, <2>3, <2>4
<1>2. ASSUME NEW d \in OutlookEvents, Live(d)'
      PROVE  \/ Unseen(d)'
             \/ \E o \in job'.todo : o.e = d
             \/ \E s \in OutlookRows : (Link(s).event = d /\ Link(s).key = events[d].time)'
  <2>1. CASE d = e
    BY <1>v, <2>1 DEF CalendarView
  <2>2. CASE d # e
    <3>1. Live(d)
      BY <1>2, <1>v, <2>2 DEF CalendarView, Live, O!There, Spared, Lasting
    <3>2. /\ Unseen(d) => Unseen(d)'
          /\ \A s \in OutlookRows : Link(s)' = Link(s)
          /\ events'[d] = events[d]
      BY <1>v, <2>2 DEF CalendarView
    <3>3. \/ Unseen(d)
          \/ \E o \in job.todo : o.e = d
          \/ \E s \in OutlookRows : Link(s).event = d /\ Link(s).key = events[d].time
      BY <3>1 DEF Noted, RowNoted, EventNoted
    <3> QED
      BY <1>0, <3>2, <3>3
  <2> QED
    BY <2>1, <2>2
<1> QED
  BY <1>0, <1>1, <1>2 DEF Noted, RowNoted, EventNoted

LEMMA CalendarKeepsTodo ==
    ASSUME Basis, Origins, Todo, NEW e \in OutlookEvents, NEW row, CalendarChanges(e, row)
    PROVE  Todo'
<1>v. CalendarView(e, row)
  BY CalendarSeen
<1>0. job'.todo = job.todo
  BY <1>v DEF CalendarView
<1>1. ASSUME NEW o \in job.todo PROVE OpFits(o)' /\ OpMeant(o)'
  <2>0. /\ OpFits(o) /\ OpMeant(o)
        /\ o.r \in OutlookRows \cup {None} /\ o.e \in OutlookEvents \cup {None}
    BY JobTypes DEF Todo
  <2>1. /\ Made(events[o.e]) /\ o.e # None => Made(events[o.e])'
        /\ o.e # None /\ Lasting(events[o.e]) => Lasting(events[o.e])'
        /\ o.e # None /\ Gone(o.e) => Gone(o.e)'
        /\ o.e # None /\ Made(events[o.e]) /\ ~Lasting(events[o.e]) => ~Lasting(events[o.e])'
    <3>1. CASE o.e = e
      BY <1>v, <3>1, CalendarFormer DEF CalendarView, Lasting
    <3>2. CASE o.e # e
      BY <1>v, <2>0, <3>2 DEF CalendarView, Lasting, Made, Gone
    <3> QED
      BY <3>1, <3>2
  <2>2. /\ \A s \in OutlookRows : Link(s)' = Link(s) /\ (O!Written(s)' <=> O!Written(s))
                                  /\ (Unread(s)' <=> Unread(s))
        /\ resv' = resv /\ rows' = rows /\ phase' = phase /\ hit \subseteq hit'
    BY <1>v DEF CalendarView
  <2>3. o.act = "create in Respa" => o.e # None
    BY JobTypes, OutlookConstants DEF Operations
  <2>4. OpFits(o)'
    BY <2>0, <2>1, <2>2, <2>3 DEF OpFits, Made
  <2>5. CASE o.r = None
    BY <2>4, <2>5 DEF OpMeant
  <2>6. CASE o.r \in OutlookRows
    <3>0. o.act \in {"delete in Respa", "remove mapping"} => o.e # None
      BY JobTypes, OutlookConstants DEF Operations
    <3>1. OpMeant(o)'
      BY <2>0, <2>1, <2>2, <2>6, <3>0 DEF OpMeant, OpFits, Spared, Lasting, O!Booked
    <3> QED
      BY <2>4, <3>1
  <2> QED
    BY <2>0, <2>5, <2>6
<1> QED
  BY <1>0, <1>1 DEF Todo

LEMMA CalendarKeepsJustice ==
    ASSUME Basis, Origins, Justified, NEW e \in OutlookEvents, NEW row, CalendarChanges(e, row)
    PROVE  Justified'
<1>v. CalendarView(e, row)
  BY CalendarSeen
<1>1. \A d \in OutlookEvents : Gone(d) => Gone(d)'
  BY <1>v, CalendarFormer DEF CalendarView, Gone
<1>2. \A s \in OutlookRows : rows[s].event # None => rows[s].event \in OutlookEvents
  BY Views DEF MapRows
<1> QED
  BY <1>1, <1>2, <1>v DEF CalendarView, Justified, O!Booked, Spared, Gone

LEMMA CalendarKeepsReading ==
    ASSUME Basis, Origins, Mappings, Reading,
           NEW e \in OutlookEvents, NEW row, CalendarChanges(e, row)
    PROVE  Reading'
<1>v. CalendarView(e, row)
  BY CalendarSeen
<1> SUFFICES ASSUME at = "plan" PROVE Reading'
  BY <1>v DEF CalendarView, Reading
<1>1. ASSUME NEW s \in OutlookRows PROVE RowRead(s)'
  <2>1. /\ job'.respa = job.respa /\ job'.remote = job.remote /\ job'.listed = job.listed
        /\ job'.rows = job.rows /\ job'.readR = job.readR
        /\ queue' = queue /\ recent' = recent
        /\ rows' = rows /\ resv' = resv /\ phase' = phase /\ hit \subseteq hit'
    BY <1>v DEF CalendarView
  <2>2. RowRead(s)
    BY DEF Reading
  <2>3. O!RespaType(rows[s], s)' = O!RespaType(rows[s], s)
    BY <2>1 DEF O!RespaType, O!Seen
  <2>4. rows[s].event # None /\ Gone(rows[s].event) => Gone(rows[s].event)'
    BY ZenonT(60), <1>v, Views, CalendarFormer DEF CalendarView, Gone, MapRows
  <2> QED
    BY <2>1, <2>2, <2>3, <2>4 DEF RowRead, Made, Spared, Lasting, O!Booked, O!Unread
<1>3. ASSUME NEW s \in OutlookRows
      PROVE  /\ job'.respa[s] # "absent" => Made(resv[s])'
             /\ job'.respa[s] \in {"absent", "no change"} => job'.rows[s] = rows'[s]
  BY <1>v DEF CalendarView, Reading, Made
<1>4. ASSUME NEW d \in OutlookEvents PROVE EventRead(d)'
  <2>1. CASE d = e
    BY <1>v, <2>1 DEF CalendarView, Reading, EventRead
  <2>2. CASE d # e
    <3>1. Live(d)' => Live(d)
      BY <1>v, <2>2 DEF CalendarView, Live, O!There, Spared, Lasting
    <3> QED
      BY <1>v, <2>2, <3>1 DEF CalendarView, Reading, EventRead
  <2> QED
    BY <2>1, <2>2
<1> QED
  BY <1>1, <1>3, <1>4 DEF Reading

-----------------------------------------------------------------------------
(* What holds in every state *)

\* The inductive invariant
OutlookInv ==
    /\ Basis /\ Origins /\ Mappings
    /\ OneRow /\ OneEvent /\ Paired /\ PastAlike /\ NotFar
    /\ Recorded /\ Noted /\ Todo /\ Justified /\ Reading

LEMMA RespaKeeps ==
    ASSUME OutlookInv, NEW r \in OutlookRows, NEW row, RespaChanges(r, row)
    PROVE  OutlookInv'
BY RespaKeepsBasis, RespaKeepsOrigins, RespaKeepsMappings, RespaKeepsFamilies, RespaKeepsNear,
   RespaKeepsRecords, RespaKeepsNotes, RespaKeepsTodo, RespaKeepsJustice, RespaKeepsReading
   DEF OutlookInv

LEMMA CalendarKeeps ==
    ASSUME OutlookInv, NEW e \in OutlookEvents, NEW row, CalendarChanges(e, row)
    PROVE  OutlookInv'
BY CalendarKeepsBasis, CalendarKeepsOrigins, CalendarKeepsMappings, CalendarKeepsFamilies,
   CalendarKeepsNear, CalendarKeepsRecords, CalendarKeepsNotes, CalendarKeepsTodo,
   CalendarKeepsJustice, CalendarKeepsReading
   DEF OutlookInv

\* The bookings and what the process holds are the same; queue and notices only come
LEMMA SameKeeps ==
    ASSUME OutlookInv, queue' \in BOOLEAN, notices' \in BOOLEAN,
           queue' = TRUE \/ UNCHANGED <<queue, notices>>,
           UNCHANGED <<phase, resv, events, rows, recent, fresh, at, job, left, hit>>
    PROVE  OutlookInv'
<1>0. queue => queue'
  BY DEF OutlookInv, Basis, OutlookTypes
<1>1. /\ \A r \in OutlookRows :
            /\ Link(r)' = Link(r) /\ Now(r)' = Now(r) /\ (O!Written(r)' <=> O!Written(r))
            /\ Unread(r) => Unread(r)'
      /\ \A e \in OutlookEvents : Unseen(e) => Unseen(e)'
  BY <1>0 DEF Link, Now, O!Written, Unread, O!Unread, Unseen
<1>2. Basis'
  BY DEF OutlookInv, Basis, OutlookTypes, Wholeness, Phases, Whole, Made
<1>3. Origins'
  BY <1>1 DEF OutlookInv, Origins, Known, Made
<1>4. Mappings'
  BY <1>1 DEF OutlookInv, Mappings, MapFits, Made
<1>5. OneRow' /\ OneEvent' /\ Paired'
  BY <1>1 DEF OutlookInv, OneRow, OneEvent, Paired, Akin, Spared, Made, O!There, Lasting
<1>6. PastAlike' /\ NotFar'
  BY <1>1 DEF OutlookInv, PastAlike, Alike, NotFar, Close, Akin, Spared, Made, O!There, Lasting
<1>7. Recorded'
  BY DEF OutlookInv, Recorded, InForce, Dropped, Live, Spared, Lasting, O!There
<1>8. Noted'
  <2> SUFFICES ASSUME at # "plan" PROVE Noted'
    BY DEF Noted, RowNoted, EventNoted
  <2>0. Noted
    BY DEF OutlookInv
  <2>1. ASSUME NEW r \in OutlookRows
        PROVE  /\ InForce(Now(r))' =>
                    \/ Unread(r)'
                    \/ \E o \in job'.todo : o.r = r
                    \/ (Link(r).event # None /\ Link(r).key = Now(r).time)'
               /\ (Dropped(Now(r)) /\ Link(r).event # None /\ O!There(Link(r).event))' =>
                    \/ Unread(r)' \/ (O!Written(r) /\ queue)'
                    \/ \E o \in job'.todo : o.r = r /\ o.act = "delete in calendar"
               /\ (InForce(Now(r)) /\ Link(r).event # None /\ ~O!There(Link(r).event))' =>
                    queue' \/ notices' \/ (\E o \in job'.todo : o.r = r)
    <3>1. /\ InForce(Now(r)) =>
               \/ Unread(r)
               \/ \E o \in job.todo : o.r = r
               \/ (Link(r).event # None /\ Link(r).key = Now(r).time)
          /\ Dropped(Now(r)) /\ Link(r).event # None /\ O!There(Link(r).event) =>
               \/ Unread(r) \/ (O!Written(r) /\ queue)
               \/ \E o \in job.todo : o.r = r /\ o.act = "delete in calendar"
          /\ InForce(Now(r)) /\ Link(r).event # None /\ ~O!There(Link(r).event) =>
               queue \/ notices \/ (\E o \in job.todo : o.r = r)
      BY <2>0 DEF Noted, RowNoted, EventNoted
    <3>2. /\ Now(r)' = Now(r) /\ Link(r)' = Link(r) /\ (O!Written(r)' <=> O!Written(r))
          /\ Unread(r) => Unread(r)'
      BY <1>1
    <3>3. /\ InForce(Now(r))' <=> InForce(Now(r))
          /\ Dropped(Now(r))' <=> Dropped(Now(r))
          /\ O!There(Link(r).event)' <=> O!There(Link(r).event)
      BY <3>2 DEF InForce, Dropped, Spared, Lasting, O!There
    <3> QED
      BY <1>0, <3>1, <3>2, <3>3
  <2>2. ASSUME NEW e \in OutlookEvents, Live(e)'
        PROVE  \/ Unseen(e)'
               \/ \E o \in job'.todo : o.e = e
               \/ \E s \in OutlookRows : (Link(s).event = e /\ Link(s).key = events[e].time)'
    <3>1. Live(e)
      BY <2>2 DEF Live, Spared, Lasting, O!There
    <3>2. \/ Unseen(e)
          \/ \E o \in job.todo : o.e = e
          \/ \E s \in OutlookRows : Link(s).event = e /\ Link(s).key = events[e].time
      BY <2>0, <3>1 DEF Noted, RowNoted, EventNoted
    <3> QED
      BY <1>1, <3>2
  <2> QED
    BY <2>1, <2>2 DEF Noted, RowNoted, EventNoted
<1>9. Todo'
  <2>1. ASSUME NEW o \in job.todo PROVE OpFits(o)' /\ OpMeant(o)'
    <3>1. OpFits(o) /\ OpMeant(o) /\ o.r \in OutlookRows \cup {None}
      BY JobTypes DEF OutlookInv, Todo
    <3>2. OpFits(o)'
      BY <1>1, <3>1 DEF OpFits, Made, Lasting
    <3>3. OpMeant(o)'
      BY <1>1, <3>1 DEF OpMeant, Lasting, Spared, Gone, O!Booked
    <3> QED
      BY <3>2, <3>3
  <2> QED
    BY <2>1 DEF OutlookInv, Todo
<1>10. Justified'
  BY <1>1 DEF OutlookInv, Justified, O!Booked, Spared, Gone
<1>11. Reading'
  <2> SUFFICES ASSUME at = "plan" PROVE Reading'
    BY DEF Reading
  <2>1. ASSUME NEW r \in OutlookRows
        PROVE  /\ RowRead(r)'
               /\ (job.respa[r] # "absent" => Made(resv[r]))'
               /\ (job.respa[r] \in {"absent", "no change"} => job.rows[r] = rows[r])'
    <3>1. O!RespaType(rows[r], r)' = O!RespaType(rows[r], r)
      BY DEF O!RespaType, O!Seen
    <3>2. RowRead(r)
      BY DEF OutlookInv, Reading
    <3>3. RowRead(r)'
      BY <1>0, <3>1, <3>2 DEF RowRead, Made, Spared, Lasting, O!Booked, Gone, O!Unread
    <3> QED
      BY <3>3 DEF OutlookInv, Reading, Made
  <2>2. ASSUME NEW e \in OutlookEvents PROVE EventRead(e)'
    <3>1. EventRead(e)
      BY DEF OutlookInv, Reading
    <3>2. Live(e)' <=> Live(e)
      BY DEF Live, O!There, Spared, Lasting
    <3>3. queue \/ notices => queue' \/ notices'
      OBVIOUS
    <3> QED
      BY <3>1, <3>2, <3>3 DEF EventRead
  <2> QED
    BY <2>1, <2>2 DEF Reading
<1> QED
  BY <1>2, <1>3, <1>4, <1>5, <1>6, <1>7, <1>8, <1>9, <1>10, <1>11 DEF OutlookInv

LEMMA QueuesKeeps == ASSUME OutlookInv, Queues PROVE OutlookInv'
BY SameKeeps DEF Queues

LEMMA StutterKeeps == ASSUME OutlookInv, UNCHANGED outlook PROVE OutlookInv'
BY SameKeeps DEF outlook, OutlookInv, Basis, OutlookTypes

-----------------------------------------------------------------------------
(* The process stops *)

LEMMA StopKeeps ==
    ASSUME OutlookInv, Stops
    PROVE  OutlookInv'
<1>0. /\ at' = "idle" /\ job' = O!Idle /\ queue' = TRUE /\ left' \in 0 .. MaxEvents
      /\ hit' = hit \cup {events[e].origin : e \in job.made}
      /\ phase' = phase /\ resv' = resv /\ events' = events /\ rows' = rows
      /\ recent' = recent /\ fresh' = fresh /\ notices' = notices
  BY DEF Stops
<1>h. hit \subseteq hit' /\ hit' \subseteq O!Booking
  <2>1. /\ hit \subseteq O!Booking /\ job.made \subseteq OutlookEvents
        /\ \A e \in job.made : Made(events[e])
    BY DEF OutlookInv, Basis, OutlookTypes, Wholeness, Jobs
  <2>2. \A e \in job.made : events[e].origin \in O!Booking
    BY <2>1 DEF OutlookInv, Basis, Wholeness, Whole
  <2> QED
    BY <1>0, <2>1, <2>2
<1>1. \A r \in OutlookRows : ~O!Written(r)' /\ Now(r)' = resv[r] /\ Link(r)' = rows[r]
  BY <1>0, IdleJob DEF Now, Link, O!Written
<1>2. Basis'
  BY <1>0, <1>h, IdleJob, NoRows DEF OutlookInv, Basis, OutlookTypes, Wholeness, Phases, Whole, Made
<1>3. Origins'
  BY <1>0, <1>1 DEF OutlookInv, Origins, Known, Made
<1>4. Mappings'
  <2>1. ASSUME NEW r \in OutlookRows PROVE MapFits(resv[r], rows[r])' /\ MapFits(Now(r), Link(r))'
    BY ZenonT(60), <1>0, <1>1 DEF OutlookInv, Mappings, MapFits, Made
  <2>2. ASSUME NEW r \in OutlookRows, NEW s \in OutlookRows
        PROVE  /\ (rows[r].event # None /\ rows[r].event = rows[s].event)' => r = s
               /\ (Link(r).event # None /\ Link(r).event = Link(s).event)' => r = s
    BY <1>0, <1>1 DEF OutlookInv, Mappings
  <2> QED
    BY <1>0, <2>1, <2>2 DEF Mappings
<1>k. \A r \in OutlookRows : Made(resv[r]) => Made(Now(r)) /\ Now(r).origin = resv[r].origin
  BY KnownNow DEF OutlookInv
<1>5. OneRow'
  BY <1>0, <1>1, <1>h, <1>k DEF OutlookInv, OneRow, Spared, Made
<1>6. OneEvent'
  BY <1>0, <1>h DEF OutlookInv, OneEvent, O!There, Spared
<1>7. Paired'
  <2>1. ASSUME NEW r \in OutlookRows, NEW e \in OutlookEvents, Akin(resv[r], e)',
               Lasting(events[e])'
        PROVE  rows[r].event = e
    <3>1. Akin(resv[r], e) /\ Lasting(events[e]) /\ e \notin job.made
      BY <1>0, <1>h, <2>1 DEF Akin, Made, Spared, O!There, Lasting
    <3> QED
      BY <3>1 DEF OutlookInv, Paired
  <2> QED
    BY <1>0, <1>1, <2>1 DEF Paired, Akin, Made, Spared, O!There, Lasting
<1>8. PastAlike' /\ NotFar'
  BY <1>0, <1>1, <1>h DEF OutlookInv, PastAlike, Alike, NotFar, Close, Akin, Spared, Made, O!There,
     Lasting
<1>9. Recorded'
  BY <1>0, <1>h DEF OutlookInv, Recorded, InForce, Dropped, Live, Spared, Lasting, O!There
<1>10. Noted'
  <2>1. job'.readR = {} /\ job'.readE = {}
    BY <1>0, IdleJob
  <2>2. /\ \A r \in OutlookRows : r \in recent => Unread(r)'
        /\ \A e \in OutlookEvents : e \in fresh => Unseen(e)'
    BY <1>0, <2>1 DEF Unread, O!Unread, Unseen
  <2>3. Recorded'
    BY <1>9
  <2>4. ASSUME NEW r \in OutlookRows
        PROVE  /\ InForce(Now(r))' => Unread(r)' \/ (Link(r).event # None /\ Link(r).key = Now(r).time)'
               /\ (Dropped(Now(r)) /\ Link(r).event # None /\ O!There(Link(r).event))' => Unread(r)'
    <3>1. /\ InForce(resv[r])' =>
               r \in recent' \/ (rows'[r].event # None /\ rows'[r].key = resv'[r].time)
          /\ Dropped(resv[r])' /\ rows'[r].event # None /\ O!There(rows[r].event)' => r \in recent'
      BY <2>3 DEF Recorded
    <3>2. /\ InForce(Now(r))' <=> InForce(resv[r])'
          /\ Dropped(Now(r))' <=> Dropped(resv[r])'
          /\ O!There(Link(r).event)' <=> O!There(rows[r].event)'
      BY <1>0, <1>1 DEF InForce, Dropped, Spared, Lasting, O!There
    <3> QED
      BY <1>0, <1>1, <2>2, <3>1, <3>2
  <2>5. ASSUME NEW e \in OutlookEvents, Live(e)'
        PROVE  Unseen(e)' \/ \E s \in OutlookRows : (Link(s).event = e /\ Link(s).key = events[e].time)'
    <3>1. \/ e \in fresh'
          \/ \E s \in OutlookRows : rows'[s].event = e /\ rows'[s].key = events'[e].time
      BY <2>3, <2>5 DEF Recorded
    <3> QED
      BY <1>0, <1>1, <2>2, <3>1
  <2> QED
    BY <1>0, <2>4, <2>5 DEF Noted, RowNoted, EventNoted
<1>11. Todo' /\ Justified' /\ Reading'
  BY <1>0, <1>1, IdleJob DEF Todo, Justified, Reading
<1> QED
  BY <1>2, <1>3, <1>4, <1>5, <1>6, <1>7, <1>8, <1>9, <1>10, <1>11 DEF OutlookInv

-----------------------------------------------------------------------------
(* The process commits *)

LEMMA FinishKeeps ==
    ASSUME OutlookInv, Finishes
    PROVE  OutlookInv'
<1>0. /\ at = "ops" /\ job.todo = {} /\ at' = "idle" /\ job' = O!Idle
      /\ recent' = O!Unread \cup {r \in OutlookRows : O!Written(r)}
      /\ fresh' = fresh \ job.readE
      /\ phase' = phase /\ events' = events /\ queue' = queue /\ notices' = notices
      /\ left' = left /\ hit' = hit
  BY DEF Finishes
<1>1. ASSUME NEW r \in OutlookRows
      PROVE  /\ ~O!Written(r)' /\ resv'[r] = Now(r) /\ Now(r)' = Now(r) /\ Link(r)' = rows'[r]
             /\ rows'[r].event = Link(r).event
             /\ Link(r).event # None => rows'[r] = Link(r)
             /\ Unread(r) => r \in recent' /\ Unread(r)'
             /\ O!Written(r) /\ queue => r \in recent' /\ Unread(r)'
             /\ O!Written(r) => r \in recent'
  <2>1. resv'[r] = Now(r)
    BY DEF Finishes
  <2>2. ~O!Written(r)' /\ Now(r)' = Now(r) /\ Link(r)' = rows'[r]
    BY <1>0, <2>1, IdleJob DEF Now, Link, O!Written
  <2>3. /\ Link(r) = job.rows[r]
        /\ rows'[r] = IF job.rows[r].event = None THEN O!NoRow ELSE job.rows[r]
    BY <1>0 DEF Link, Finishes
  <2>4. job'.readR = {}
    BY <1>0, IdleJob
  <2> QED
    BY <1>0, <2>1, <2>2, <2>3, <2>4, NoRows DEF Unread, O!Unread
<1>2. Basis'
  <2>1. Basis
    BY DEF OutlookInv
  <2>2. OutlookTypes'
    <3>1. resv' \in [OutlookRows -> ResvRows]
      BY <2>1, Views DEF Finishes
    <3>2. rows' \in [OutlookRows -> MapRows]
      BY <2>1, Views, NoRows DEF Finishes
    <3>3. recent' \subseteq OutlookRows
      BY <1>0, <2>1 DEF Basis, OutlookTypes, O!Unread
    <3> QED
      BY <1>0, <2>1, <3>1, <3>2, <3>3, IdleJob DEF Basis, OutlookTypes
  <2>3. Wholeness'
    <3>1. /\ \A r \in OutlookRows : Whole(resv'[r]) /\ Whole(job'.draft[r])
          /\ \A e \in OutlookEvents : Whole(events[e])
          /\ \A e \in fresh' \cup job'.readE \cup job'.made : Made(events[e])
      BY <1>0, <1>1, <2>1, Views, Events, IdleJob, NoRows DEF Basis, Wholeness
    <3> QED
      BY <1>0, <3>1 DEF Wholeness, Whole, Made
  <2> QED
    BY <1>0, <2>2, <2>3 DEF Basis, Phases
<1>k. ASSUME NEW r \in OutlookRows
      PROVE  /\ Made(Now(r)) => Known(Now(r).origin)
             /\ Made(resv[r]) => Made(Now(r))
  BY KnownNow DEF OutlookInv
<1>3. Origins'
  <2>1. ASSUME NEW o, Known(o) PROVE Known(o)'
    BY <1>0, <1>1, <1>k, <2>1 DEF Known, Made
  <2>2. ASSUME NEW r \in OutlookRows PROVE Made(resv[r])' => Known(resv[r].origin)'
    <3>1. Made(resv[r])' => Made(Now(r)) /\ Known(Now(r).origin)
      BY <1>1, <1>k DEF Made
    <3> QED
      BY <1>1, <2>1, <3>1 DEF Known
  <2>3. ASSUME NEW e \in OutlookEvents PROVE Made(events[e])' => Known(events[e].origin)'
    BY <1>0, <2>1 DEF OutlookInv, Origins, Made
  <2> QED
    BY <1>1, <2>2, <2>3 DEF Origins
<1>4. Mappings'
  <2>1. ASSUME NEW r \in OutlookRows PROVE MapFits(resv[r], rows[r])' /\ MapFits(Now(r), Link(r))'
    <3>1. MapFits(Now(r), Link(r))
      BY DEF OutlookInv, Mappings
    <3> QED
      BY <1>0, <1>1, <3>1 DEF MapFits, Made
  <2>2. ASSUME NEW r \in OutlookRows, NEW s \in OutlookRows
        PROVE  /\ (rows[r].event # None /\ rows[r].event = rows[s].event)' => r = s
               /\ (Link(r).event # None /\ Link(r).event = Link(s).event)' => r = s
    BY <1>1 DEF OutlookInv, Mappings
  <2> QED
    BY <1>0, <2>1, <2>2 DEF Mappings
<1>5. OneRow'
  BY <1>0, <1>1 DEF OutlookInv, OneRow, Spared, Made
<1>6. OneEvent'
  BY <1>0 DEF OutlookInv, OneEvent, O!There, Spared
<1>7. Paired'
  <2>1. ASSUME NEW r \in OutlookRows, NEW e \in OutlookEvents
        PROVE  /\ (Akin(Now(r), e) /\ Lasting(events[e]))' => Link(r)'.event = e
               /\ (Akin(resv[r], e) /\ Lasting(events[e]))' => rows'[r].event = e
    <3>1. Akin(Now(r), e) /\ Lasting(events[e]) => Link(r).event = e
      BY DEF OutlookInv, Paired
    <3> QED
      BY <1>0, <1>1, <3>1 DEF Akin, Made, Spared, O!There, Lasting
  <2> QED
    BY <2>1 DEF Paired
<1>8. PastAlike' /\ NotFar'
  <2>1. ASSUME NEW r \in OutlookRows
        PROVE  /\ \A e \in OutlookEvents : Alike(resv[r], e)' /\ Alike(Now(r), e)'
               /\ Close(resv[r])' /\ Close(Now(r))'
    <3>1. resv'[r] = Now(r) /\ Now(r)' = Now(r)
      BY <1>1
    <3>2. ASSUME NEW e \in OutlookEvents PROVE Alike(Now(r), e)'
      <4>1. Alike(Now(r), e)
        BY DEF OutlookInv, PastAlike
      <4> QED
        BY <1>0, <3>1, <4>1 DEF Alike, Akin, Made, Spared, O!There, Lasting
    <3>3. Close(Now(r))'
      <4>1. Close(Now(r))
        BY DEF OutlookInv, NotFar
      <4> QED
        BY <1>0, <3>1, <4>1 DEF Close, Made, Spared
    <3> QED
      BY <3>1, <3>2, <3>3 DEF Alike, Akin, Close, Made, Spared
  <2>2. ASSUME NEW e \in OutlookEvents PROVE Close(events[e])'
    BY <1>0 DEF OutlookInv, NotFar, Close, Made, Spared
  <2> QED
    BY <2>1, <2>2 DEF PastAlike, NotFar
<1>9. ASSUME NEW r \in OutlookRows
      PROVE  /\ InForce(Now(r)) =>
                  (r \in recent' /\ Unread(r)') \/ (Link(r).event # None /\ Link(r).key = Now(r).time)
             /\ Dropped(Now(r)) /\ Link(r).event # None /\ O!There(Link(r).event) =>
                  r \in recent' /\ Unread(r)'
             /\ InForce(Now(r)) /\ Link(r).event # None /\ ~O!There(Link(r).event) =>
                  queue \/ notices
  <2>1. /\ InForce(Now(r)) =>
             Unread(r) \/ (Link(r).event # None /\ Link(r).key = Now(r).time)
        /\ Dropped(Now(r)) /\ Link(r).event # None /\ O!There(Link(r).event) =>
             Unread(r) \/ (O!Written(r) /\ queue)
        /\ InForce(Now(r)) /\ Link(r).event # None /\ ~O!There(Link(r).event) =>
             queue \/ notices
    BY <1>0 DEF OutlookInv, Noted, RowNoted, EventNoted
  <2> QED
    BY <1>1, <2>1
<1>10. ASSUME NEW e \in OutlookEvents, Live(e)
       PROVE  \/ e \in fresh' /\ Unseen(e)'
              \/ \E r \in OutlookRows : Link(r).event = e /\ Link(r).key = events[e].time
  <2>1. \/ Unseen(e)
        \/ \E r \in OutlookRows : Link(r).event = e /\ Link(r).key = events[e].time
    BY <1>0, <1>10 DEF OutlookInv, Noted, RowNoted, EventNoted
  <2>2. job'.readE = {}
    BY <1>0, IdleJob
  <2> QED
    BY <1>0, <2>1, <2>2 DEF Unseen
<1>11. ASSUME NEW r \in OutlookRows
       PROVE  /\ InForce(resv[r])' <=> InForce(Now(r))
              /\ Dropped(resv[r])' <=> Dropped(Now(r))
              /\ InForce(Now(r))' <=> InForce(Now(r))
              /\ Dropped(Now(r))' <=> Dropped(Now(r))
              /\ \A e \in OutlookEvents \cup {None} : O!There(e)' <=> O!There(e)
  BY <1>0, <1>1 DEF InForce, Dropped, Spared, Lasting, O!There
<1>12. ASSUME NEW e \in OutlookEvents PROVE Live(e)' <=> Live(e)
  BY <1>0 DEF Live, Spared, Lasting, O!There
<1>e. ASSUME NEW e \in OutlookEvents,
             \E r \in OutlookRows : Link(r).event = e /\ Link(r).key = events[e].time
      PROVE  \E r \in OutlookRows : /\ Link(r)'.event = e /\ Link(r)'.key = events'[e].time
                                    /\ rows'[r].event = e /\ rows'[r].key = events'[e].time
  BY <1>0, <1>1, <1>e, OutlookConstants
<1>13. Recorded'
  <2>1. ASSUME NEW r \in OutlookRows
        PROVE  /\ InForce(resv[r])' =>
                    r \in recent' \/ (rows'[r].event # None /\ rows'[r].key = resv'[r].time)
               /\ Dropped(resv[r])' /\ rows'[r].event # None /\ O!There(rows[r].event)' =>
                    r \in recent'
    BY <1>0, <1>1, <1>9, <1>11 DEF O!There
  <2>2. ASSUME NEW e \in OutlookEvents, Live(e)'
        PROVE  \/ e \in fresh'
               \/ \E s \in OutlookRows : rows'[s].event = e /\ rows'[s].key = events'[e].time
    BY <1>10, <1>12, <1>e, <2>2
  <2> QED
    BY <2>1, <2>2 DEF Recorded
<1>14. Noted'
  <2>1. ASSUME NEW r \in OutlookRows
        PROVE  /\ InForce(Now(r))' =>
                    Unread(r)' \/ (Link(r).event # None /\ Link(r).key = Now(r).time)'
               /\ (Dropped(Now(r)) /\ Link(r).event # None /\ O!There(Link(r).event))' => Unread(r)'
               /\ (InForce(Now(r)) /\ Link(r).event # None /\ ~O!There(Link(r).event))' =>
                    queue' \/ notices'
    BY <1>0, <1>1, <1>9, <1>11 DEF O!There
  <2>2. ASSUME NEW e \in OutlookEvents, Live(e)'
        PROVE  \/ Unseen(e)'
               \/ \E s \in OutlookRows : (Link(s).event = e /\ Link(s).key = events[e].time)'
    BY <1>10, <1>12, <1>e, <2>2
  <2> QED
    BY <1>0, <2>1, <2>2 DEF Noted, RowNoted, EventNoted
<1>15. Todo' /\ Justified' /\ Reading'
  BY <1>0, <1>1, IdleJob DEF Todo, Justified, Reading
<1> QED
  BY <1>2, <1>3, <1>4, <1>5, <1>6, <1>7, <1>8, <1>13, <1>14, <1>15 DEF OutlookInv

-----------------------------------------------------------------------------
(* Time passes *)

\* At rest, the two sides show the same
LEMMA RestAgrees ==
    ASSUME OutlookInv, at = "idle", ~queue, ~notices
    PROVE  /\ \A r \in OutlookRows :
                 /\ Now(r) = resv[r] /\ Link(r) = rows[r]
                 /\ InForce(resv[r]) => /\ rows[r].event # None /\ rows[r].key = resv[r].time
                                        /\ O!There(rows[r].event)
                 /\ Dropped(resv[r]) /\ rows[r].event # None => ~O!There(rows[r].event)
           /\ \A e \in OutlookEvents : Live(e) =>
                 \E r \in OutlookRows : rows[r].event = e /\ rows[r].key = events[e].time
<1>1. job.todo = {} /\ \A r \in OutlookRows : Now(r) = resv[r] /\ Link(r) = rows[r]
  BY Views, IdleJob DEF OutlookInv, Basis, Phases
<1>2. Noted
  BY DEF OutlookInv
<1>3. /\ \A r \in OutlookRows : ~Unread(r)
      /\ \A e \in OutlookEvents : ~Unseen(e)
  BY DEF Unread, Unseen
<1>4. ASSUME NEW r \in OutlookRows
      PROVE  /\ InForce(resv[r]) => /\ rows[r].event # None /\ rows[r].key = resv[r].time
                                    /\ O!There(rows[r].event)
             /\ Dropped(resv[r]) /\ rows[r].event # None => ~O!There(rows[r].event)
  BY <1>1, <1>2, <1>3 DEF Noted, RowNoted, EventNoted
<1>5. ASSUME NEW e \in OutlookEvents, Live(e)
      PROVE  \E r \in OutlookRows : rows[r].event = e /\ rows[r].key = events[e].time
  <2>1. \E r \in OutlookRows : Link(r).event = e /\ Link(r).key = events[e].time
    BY <1>1, <1>2, <1>3, <1>5 DEF Noted, RowNoted, EventNoted
  <2> QED
    BY <1>1, <2>1
<1> QED
  BY <1>1, <1>4, <1>5

LEMMA RestAlike ==
    ASSUME OutlookInv, at = "idle", ~queue, ~notices,
           NEW r \in OutlookRows, NEW e \in OutlookEvents, Akin(resv[r], e)
    PROVE  resv[r].time = events[e].time
<1>1. CASE ~Lasting(resv[r]) \/ ~Lasting(events[e])
  BY <1>1 DEF OutlookInv, PastAlike, Alike
<1>2. CASE Lasting(resv[r]) /\ Lasting(events[e])
  <2>1. Live(e)
    BY <1>2 DEF Akin, Live, Spared
  <2>2. rows[r].event = e
    <3>1. Akin(Now(r), e) /\ Link(r) = rows[r]
      BY RestAgrees
    <3> QED
      BY <1>2, <3>1 DEF OutlookInv, Paired
  <2>3. rows[r].key = events[e].time
    <3>1. PICK s \in OutlookRows : rows[s].event = e /\ rows[s].key = events[e].time
      BY <2>1, RestAgrees
    <3>2. s = r
      BY <2>2, <3>1 DEF OutlookInv, Mappings
    <3> QED
      BY <3>1, <3>2
  <2>4. InForce(resv[r]) \/ Dropped(resv[r])
    BY <1>2, Views DEF OutlookInv, Akin, Made, ResvRows, InForce, Dropped
  <2>5. ~Dropped(resv[r])
    BY <2>1, <2>2, RestAgrees DEF Live
  <2> QED
    BY <2>3, <2>4, <2>5, RestAgrees
<1> QED
  BY <1>1, <1>2

LEMMA AgeKeeps ==
    ASSUME OutlookInv, NEW t \in Time, Ages(t)
    PROVE  OutlookInv'
<1>0. /\ at = "idle" /\ ~queue /\ ~notices
      /\ resv' = resv /\ events' = events /\ rows' = rows /\ recent' = recent /\ fresh' = fresh
      /\ queue' = queue /\ notices' = notices /\ at' = at /\ job' = job /\ left' = left
      /\ hit' = hit
      /\ phase' = [phase EXCEPT ![t] = IF @ = "far" THEN "near" ELSE "past"]
      /\ phase \in [Time -> {"far", "near", "past"}]
  BY DEF Ages, OutlookInv, Basis, OutlookTypes
<1>1. /\ phase' \in [Time -> {"far", "near", "past"}]
      /\ \A u \in Time : /\ phase'[u] # "past" => phase[u] # "past"
                         /\ phase[u] # "far" => phase'[u] # "far"
  BY <1>0
<1>2. \A r \in OutlookRows :
          /\ Link(r)' = Link(r) /\ Now(r)' = Now(r) /\ (O!Written(r)' <=> O!Written(r))
          /\ Unread(r)' <=> Unread(r)
  BY <1>0 DEF Link, Now, O!Written, Unread, O!Unread
<1>r. \A r \in OutlookRows : Now(r) = resv[r] /\ Link(r) = rows[r]
  BY <1>0, RestAgrees
<1>w. /\ \A r \in OutlookRows : Made(resv[r]) => resv[r].time \in Time
      /\ \A e \in OutlookEvents : Made(events[e]) => events[e].time \in Time
  BY Views, Events DEF OutlookInv, Whole
<1>l. /\ \A r \in OutlookRows : Made(resv[r]) /\ Lasting(resv[r])' => Lasting(resv[r])
      /\ \A e \in OutlookEvents : Made(events[e]) /\ Lasting(events[e])' => Lasting(events[e])
  BY <1>0, <1>1, <1>w DEF Lasting
<1>3. Basis'
  BY <1>0, <1>1 DEF OutlookInv, Basis, OutlookTypes, Wholeness, Phases, Whole, Made
<1>4. Origins'
  BY <1>0, <1>2 DEF OutlookInv, Origins, Known, Made
<1>5. Mappings'
  <2>1. ASSUME NEW r \in OutlookRows PROVE MapFits(resv[r], rows[r])' /\ MapFits(Now(r), Link(r))'
    BY <1>0, <1>2 DEF OutlookInv, Mappings, MapFits, Made
  <2>2. ASSUME NEW r \in OutlookRows, NEW s \in OutlookRows
        PROVE  /\ (rows[r].event # None /\ rows[r].event = rows[s].event)' => r = s
               /\ (Link(r).event # None /\ Link(r).event = Link(s).event)' => r = s
    <3>1. rows' = rows /\ Link(r)' = Link(r) /\ Link(s)' = Link(s)
      BY <1>0, <1>2
    <3>2. Mappings
      BY DEF OutlookInv
    <3> QED
      BY <3>1, <3>2 DEF Mappings
  <2> QED
    BY <1>0, <2>1, <2>2 DEF Mappings
<1>6. OneRow' /\ OneEvent'
  BY <1>0, <1>2 DEF OutlookInv, OneRow, OneEvent, Spared, Made, O!There
<1>a. ASSUME NEW r \in OutlookRows, NEW e \in OutlookEvents
      PROVE  /\ Akin(resv[r], e)' => Akin(resv[r], e)
             /\ Akin(Now(r), e)' => Akin(resv[r], e)
             /\ Akin(resv[r], e) => Made(events[e])
  <2>1. Akin(resv[r], e) => Made(events[e])
    BY Events DEF OutlookInv, Akin
  <2>2. /\ resv'[r] = resv[r] /\ Now(r)' = resv[r] /\ events' = events /\ hit' = hit
    BY <1>0, <1>2, <1>r
  <2> QED
    BY <2>1, <2>2 DEF Akin, Made, Spared, O!There
<1>7. Paired'
  <2>1. ASSUME NEW r \in OutlookRows, NEW e \in OutlookEvents, Akin(resv[r], e),
               Lasting(events[e])'
        PROVE  rows[r].event = e
    <3>1. Lasting(events[e])
      BY <1>a, <1>l, <2>1
    <3> QED
      BY <1>r, <2>1, <3>1 DEF OutlookInv, Paired
  <2> QED
    BY <1>0, <1>2, <1>a, <1>r, <2>1 DEF Paired
<1>8. PastAlike'
  <2>1. ASSUME NEW r \in OutlookRows, NEW e \in OutlookEvents
        PROVE  Alike(resv[r], e)' /\ Alike(Now(r), e)'
    BY <1>0, <1>2, <1>a, <1>r, RestAlike DEF Alike
  <2> QED
    BY <2>1 DEF PastAlike
<1>9. NotFar'
  <2>1. ASSUME NEW r \in OutlookRows PROVE Close(resv[r])' /\ Close(Now(r))'
    BY <1>0, <1>1, <1>2, <1>r, <1>w DEF OutlookInv, NotFar, Close, Made, Spared
  <2>2. ASSUME NEW e \in OutlookEvents PROVE Close(events[e])'
    BY <1>0, <1>1, <1>w DEF OutlookInv, NotFar, Close, Made, Spared
  <2> QED
    BY <2>1, <2>2 DEF NotFar
<1>f. ASSUME NEW r \in OutlookRows
      PROVE  /\ InForce(resv[r])' => InForce(resv[r])
             /\ Dropped(resv[r])' => Dropped(resv[r])
             /\ InForce(Now(r))' => InForce(resv[r])
             /\ Dropped(Now(r))' => Dropped(resv[r])
  BY <1>0, <1>2, <1>r, <1>l DEF InForce, Dropped, Spared, Made, Lasting
<1>e. ASSUME NEW e \in OutlookEvents PROVE Live(e)' => Live(e)
  BY <1>0, <1>l, Events DEF OutlookInv, Live, Spared, O!There, Lasting
<1>t. \A e : O!There(e)' <=> O!There(e)
  BY <1>0 DEF O!There
<1>10. Recorded'
  BY <1>0, <1>f, <1>e, <1>t DEF OutlookInv, Recorded
<1>11. Noted'
  <2>1. ASSUME NEW r \in OutlookRows
        PROVE  /\ InForce(Now(r))' => (Link(r).event # None /\ Link(r).key = Now(r).time)'
               /\ ~(Dropped(Now(r)) /\ Link(r).event # None /\ O!There(Link(r).event))'
               /\ ~(InForce(Now(r)) /\ Link(r).event # None /\ ~O!There(Link(r).event))'
    BY <1>0, <1>2, <1>f, <1>r, RestAgrees DEF O!There
  <2>2. ASSUME NEW e \in OutlookEvents, Live(e)'
        PROVE  \E s \in OutlookRows : (Link(s).event = e /\ Link(s).key = events[e].time)'
    <3>1. \E s \in OutlookRows : rows[s].event = e /\ rows[s].key = events[e].time
      BY <1>0, <1>e, <2>2, RestAgrees
    <3> QED
      BY <1>0, <1>2, <1>r, <3>1
  <2> QED
    BY <2>1, <2>2 DEF Noted, RowNoted, EventNoted
<1>12. Todo' /\ Justified' /\ Reading'
  <2>1. job.todo = {} /\ \A r \in OutlookRows : ~O!Written(r)
    BY <1>0, Views, IdleJob DEF OutlookInv, Basis, Phases
  <2> QED
    BY <1>0, <1>2, <2>1 DEF Todo, Justified, Reading
<1> QED
  BY <1>3, <1>4, <1>5, <1>6, <1>7, <1>8, <1>9, <1>10, <1>11, <1>12 DEF OutlookInv

-----------------------------------------------------------------------------
(* The process reads *)

LEMMA ReadKeepsBasis ==
    ASSUME OutlookInv, NEW listed \in SUBSET OutlookEvents, Reads(listed)
    PROVE  /\ Basis' /\ Origins' /\ Mappings'
           /\ OneRow' /\ OneEvent' /\ Paired' /\ PastAlike' /\ NotFar'
           /\ Recorded' /\ Noted' /\ Todo' /\ Justified'
<1>0. /\ at = "idle" /\ at' = "plan" /\ queue' = FALSE /\ job' \in Jobs
      /\ job'.draft = O!Idle.draft /\ job'.made = {} /\ job'.todo = {}
      /\ hit \subseteq hit' /\ hit' \subseteq O!Booking /\ left' \in 0 .. MaxEvents
      /\ phase' = phase /\ resv' = resv /\ events' = events /\ rows' = rows
      /\ recent' = recent /\ fresh' = fresh /\ notices' = notices
  BY DEF Reads
<1>1. ASSUME NEW r \in OutlookRows
      PROVE  /\ ~O!Written(r)' /\ Now(r)' = resv[r] /\ Now(r) = resv[r] /\ Link(r) = rows[r]
             /\ Link(r)'.event = rows[r].event
             /\ rows[r] \in MapRows
  <2>1. ~O!Written(r)' /\ Now(r)' = resv[r] /\ Link(r)' = job'.rows[r]
    BY <1>0, IdleJob DEF Now, Link, O!Written
  <2>2. Now(r) = resv[r] /\ Link(r) = rows[r] /\ rows[r] \in MapRows
    BY <1>0, Views DEF OutlookInv
  <2>3. job'.rows[r].event = rows[r].event
    BY <2>2 DEF Reads, O!Reread, MapRows
  <2> QED
    BY <2>1, <2>2, <2>3
<1>2. Basis'
  <2>1. \A e \in job'.readE : e \in fresh
    BY <1>0 DEF Reads, Jobs
  <2>2. OutlookTypes'
    BY <1>0 DEF OutlookInv, Basis, OutlookTypes
  <2>3. Wholeness'
    BY <1>0, <2>1, IdleJob, NoRows DEF OutlookInv, Basis, Wholeness, Whole, Made
  <2> QED
    BY <1>0, <2>2, <2>3 DEF Basis, Phases, O!Idle
<1>3. Origins'
  BY <1>0, <1>1 DEF OutlookInv, Origins, Known, Made
<1>4. Mappings'
  <2>1. ASSUME NEW r \in OutlookRows PROVE MapFits(resv[r], rows[r])' /\ MapFits(Now(r), Link(r))'
    <3>1. MapFits(resv[r], rows[r])
      BY DEF OutlookInv, Mappings
    <3> QED
      BY <1>0, <1>1, <3>1 DEF MapFits, Made
  <2>2. ASSUME NEW r \in OutlookRows, NEW s \in OutlookRows
        PROVE  /\ (rows[r].event # None /\ rows[r].event = rows[s].event)' => r = s
               /\ (Link(r).event # None /\ Link(r).event = Link(s).event)' => r = s
    <3>1. rows[r].event # None /\ rows[r].event = rows[s].event => r = s
      BY DEF OutlookInv, Mappings
    <3> QED
      BY <1>0, <1>1, <3>1
  <2> QED
    BY <1>0, <1>1, <2>1, <2>2 DEF Mappings
<1>5. OneRow'
  BY <1>0, <1>1 DEF OutlookInv, OneRow, Spared, Made
<1>6. OneEvent'
  BY <1>0 DEF OutlookInv, OneEvent, O!There, Spared
<1>7. Paired'
  <2>1. ASSUME NEW r \in OutlookRows, NEW e \in OutlookEvents, Akin(resv[r], e),
               Lasting(events[e])
        PROVE  rows[r].event = e
    BY <1>1, <2>1 DEF OutlookInv, Paired
  <2> QED
    BY <1>0, <1>1, <2>1 DEF Paired, Akin, Made, Spared, O!There, Lasting
<1>8. PastAlike' /\ NotFar'
  BY <1>0, <1>1 DEF OutlookInv, PastAlike, Alike, NotFar, Close, Akin, Spared, Made, O!There,
     Lasting
<1>9. Recorded'
  BY <1>0 DEF OutlookInv, Recorded, InForce, Dropped, Live, Spared, Lasting, O!There
<1>10. Noted' /\ Todo' /\ Justified'
  BY <1>0, <1>1 DEF Noted, RowNoted, EventNoted, Todo, Justified
<1> QED
  BY <1>2, <1>3, <1>4, <1>5, <1>6, <1>7, <1>8, <1>9, <1>10

LEMMA ReadKeepsReading ==
    ASSUME OutlookInv, NEW listed \in SUBSET OutlookEvents, Reads(listed)
    PROVE  Reading'
<1>0. /\ at = "idle" /\ at' = "plan" /\ queue' = FALSE /\ job' \in Jobs
      /\ job'.listed = listed /\ listed \subseteq O!InCalendar
      /\ \A e \in O!InCalendar \ listed : events[e].origin \in hit'
      /\ hit \subseteq hit'
      /\ phase' = phase /\ resv' = resv /\ events' = events /\ rows' = rows
      /\ recent' = recent /\ fresh' = fresh /\ notices' = notices
  BY DEF Reads
<1>1. ASSUME NEW r \in OutlookRows
      PROVE  /\ InRead(r) => /\ r \in job'.readR /\ job'.respa[r] = O!RespaType(rows[r], r)
                             /\ job'.rows[r] = O!Reread(rows[r], r)
             /\ ~InRead(r) => /\ job'.respa[r] = "absent" /\ job'.rows[r] = rows[r]
                              /\ r \in job'.readR => r \in recent
             /\ rows[r].event # None /\ rows[r].event \notin listed =>
                  job'.remote[rows[r].event] = O!UnlistedType(r)
             /\ rows[r] \in MapRows /\ resv[r] \in ResvRows /\ Whole(resv[r])
             /\ Now(r) = resv[r]
  BY <1>0, Views DEF Reads, OutlookInv
<1>2. ASSUME NEW e \in OutlookEvents
      PROVE  /\ e \in listed \cap fresh => e \in job'.readE /\ job'.remote[e] = "changed"
             /\ e \notin listed \cap fresh =>
                  /\ e \in job'.readE => e \in fresh
                  /\ job'.remote[e] # "changed"
                  /\ job'.remote[e] \in {"deleted", "expired"} =>
                       e \notin listed /\ \E r \in OutlookRows : rows[r].event = e
  BY DEF Reads
<1>3. \A t \in Time : phase[t] \in {"far", "near", "past"}
  BY DEF OutlookInv, Basis, OutlookTypes
\* Nothing that counts is beyond the horizon
<1>4. ASSUME NEW r \in OutlookRows, Made(resv[r]), resv[r].origin \notin hit'
      PROVE  O!Near(resv[r]) <=> Lasting(resv[r])
  <2>1. resv[r].time \in Time /\ phase[resv[r].time] # "far"
    BY <1>0, <1>1, <1>4 DEF OutlookInv, NotFar, Close, Spared, Whole
  <2> QED
    BY <1>3, <2>1, OutlookConstants DEF O!Near, Lasting
<1>5. ASSUME NEW e \in OutlookEvents, O!There(e), events[e].origin \notin hit', Lasting(events[e])
      PROVE  e \in listed
  <2>1. Made(events[e]) /\ events[e].time \in Time
    BY <1>5, Events DEF OutlookInv, Whole
  <2>2. phase[events[e].time] # "far"
    BY <1>0, <1>5, <2>1 DEF OutlookInv, NotFar, Close, Spared
  <2>3. e \in O!InCalendar
    BY <1>3, <1>5, <2>1, <2>2, OutlookConstants DEF O!InCalendar, O!Near, Lasting
  <2> QED
    BY <1>0, <1>5, <2>3
<1>6. ASSUME NEW r \in OutlookRows, Made(resv[r]), resv[r].origin \notin hit', Lasting(resv[r]),
             rows[r].event # None, rows[r].event \notin listed
      PROVE  Gone(rows[r].event)
  <2> DEFINE e == rows[r].event
  <2>1. e \in OutlookEvents /\ Made(events[e]) /\ events[e].origin = resv[r].origin
    BY <1>1, <1>6 DEF OutlookInv, Mappings, MapFits, MapRows
  <2> HIDE DEF e
  <2>2. ASSUME O!There(e) PROVE FALSE
    <3>1. Akin(resv[r], e)
      BY <1>0, <1>6, <2>1, <2>2 DEF Akin, Spared
    <3>2. ~Lasting(events[e])
      BY <1>5, <1>6, <2>1, <2>2 DEF e
    <3>3. resv[r].time = events[e].time
      BY <2>1, <3>1, <3>2 DEF OutlookInv, PastAlike, Alike
    <3> QED
      BY <1>6, <3>2, <3>3 DEF Lasting
  <2> QED
    BY <2>1, <2>2, Events DEF OutlookInv, e
<1>7. ASSUME NEW r \in OutlookRows PROVE RowRead(r)'
  <2> SUFFICES ASSUME Made(resv[r]), resv[r].origin \notin hit' PROVE RowRead(r)'
    BY <1>0 DEF RowRead, Made, Spared
  <2>1. /\ job'.respa[r] # "absent" => InRead(r)
        /\ InRead(r) => r \in recent /\ O!Near(resv[r])
        /\ r \in recent /\ O!Near(resv[r]) => InRead(r)
    BY <1>1 DEF InRead
  <2>2. job'.respa[r] = "deleted" => ~O!Booked(r)
    BY <1>1 DEF O!RespaType, O!Booked
  <2>3. Lasting(resv[r]) =>
          /\ r \in job'.readR => /\ job'.respa[r] = O!RespaType(rows[r], r)
                                 /\ job'.rows[r].key = resv[r].time
          /\ r \in recent => r \in job'.readR
          /\ rows[r].event # None =>
                rows[r].event \in job'.listed \/ job'.remote[rows[r].event] = "deleted"
    BY <1>0, <1>1, <1>4, <2>1 DEF O!Reread, MapRows, O!UnlistedType
  <2>4. rows[r].event # None =>
          /\ job'.remote[rows[r].event] = "deleted" => Gone(rows[r].event) /\ Lasting(resv[r])
          /\ job'.remote[rows[r].event] = "expired" => ~Lasting(resv[r])
    <3> SUFFICES ASSUME rows[r].event # None,
                        job'.remote[rows[r].event] \in {"deleted", "expired"}
                 PROVE  /\ job'.remote[rows[r].event] = "deleted" =>
                             Gone(rows[r].event) /\ Lasting(resv[r])
                        /\ job'.remote[rows[r].event] = "expired" => ~Lasting(resv[r])
      OBVIOUS
    <3>1. rows[r].event \notin listed
      BY <1>1, <1>2 DEF MapRows
    <3>2. job'.remote[rows[r].event] = O!UnlistedType(r)
      BY <1>1, <3>1
    <3> QED
      BY <1>4, <1>6, <3>1, <3>2 DEF O!UnlistedType
  <2>5. O!RespaType(rows[r], r)' = O!RespaType(rows[r], r)
    BY <1>0 DEF O!RespaType, O!Seen
  <2> QED
    BY <1>0, <1>4, <2>1, <2>2, <2>3, <2>4, <2>5
       DEF RowRead, Made, Spared, Lasting, O!Booked, Gone, O!Unread
<1>8. ASSUME NEW r \in OutlookRows
      PROVE  /\ job'.respa[r] # "absent" => Made(resv[r])'
             /\ job'.respa[r] \in {"absent", "no change"} => job'.rows[r] = rows'[r]
  <2>1. CASE InRead(r)
    <3>1. job'.respa[r] # "absent"
      BY <1>1, <2>1 DEF O!RespaType
    <3>2. Made(resv[r])
      BY <2>1 DEF InRead
    <3>3. ASSUME job'.respa[r] = "no change" PROVE job'.rows[r] = rows[r]
      <4>1. rows[r].key = resv[r].time
        BY <1>1, <2>1, <3>3 DEF O!RespaType, O!Seen, InRead
      <4>2. O!Reread(rows[r], r) = rows[r]
        BY <1>1, <4>1 DEF O!Reread, MapRows
      <4> QED
        BY <1>1, <2>1, <4>2
    <3> QED
      BY <1>0, <3>1, <3>2, <3>3 DEF Made
  <2>2. CASE ~InRead(r)
    BY <1>0, <1>1, <2>2
  <2> QED
    BY <2>1, <2>2
<1>9. ASSUME NEW e \in OutlookEvents PROVE EventRead(e)'
  <2>1. Live(e)' => O!There(e) /\ events[e].origin \notin hit' /\ Lasting(events[e])
    BY <1>0 DEF Live, O!There, Spared, Lasting
  <2>2. Live(e)' => e \in listed
    BY <1>5, <2>1
  <2> QED
    BY <1>0, <1>2, <2>2 DEF EventRead
<1> QED
  BY <1>7, <1>8, <1>9 DEF Reading

LEMMA ReadKeeps ==
    ASSUME OutlookInv, NEW listed \in SUBSET OutlookEvents, Reads(listed)
    PROVE  OutlookInv'
BY ReadKeepsBasis, ReadKeepsReading DEF OutlookInv

-----------------------------------------------------------------------------
(* The process performs an operation *)

OpView(o, r, e) ==
    /\ at = "ops" /\ o \in job.todo /\ job'.todo = job.todo \ {o}
    /\ \A s \in OutlookRows :
          /\ s # r => Now(s)' = Now(s) /\ Link(s)' = Link(s) /\ (O!Written(s)' <=> O!Written(s))
          /\ Unread(s)' <=> Unread(s)
    /\ Link(r)' = job'.rows[r] /\ Link(r) = job.rows[r]
    /\ job'.draft[r] = job.draft[r] => Now(r)' = Now(r) /\ (O!Written(r)' <=> O!Written(r))
    /\ Made(job'.draft[r]) => Now(r)' = job'.draft[r] /\ O!Written(r)'
    /\ \A d \in OutlookEvents : d # e =>
          /\ events'[d] = events[d]
          /\ (Unseen(d) => Unseen(d)') /\ (d \in job'.made <=> d \in job.made)
          /\ (d \in fresh => d \in fresh')
    /\ phase' = phase /\ resv' = resv /\ rows' = rows /\ recent' = recent /\ queue' = queue
    /\ at' = at /\ hit' = hit /\ (notices => notices') /\ job' \in Jobs

LEMMA OpSeen ==
    ASSUME Basis, NEW o \in job.todo, NEW r \in OutlookRows, NEW e \in OutlookEvents,
           Operates(o, r, e)
    PROVE  OpView(o, r, e)
<1>0. /\ at = "ops" /\ job'.todo = job.todo \ {o} /\ job'.readR = job.readR /\ job' \in Jobs
      /\ \A s \in OutlookRows \ {r} : job'.rows[s] = job.rows[s] /\ job'.draft[s] = job.draft[s]
      /\ \A d \in OutlookEvents \ {e} :
            /\ events'[d] = events[d]
            /\ d \in fresh' <=> d \in fresh
            /\ d \in job'.readE <=> d \in job.readE
            /\ d \in job'.made <=> d \in job.made
      /\ notices' = TRUE \/ notices' = notices
      /\ phase' = phase /\ resv' = resv /\ rows' = rows /\ recent' = recent /\ queue' = queue
      /\ at' = at /\ hit' = hit
  BY DEF Operates
<1>1. \A s \in OutlookRows : Link(s)' = job'.rows[s] /\ Link(s) = job.rows[s]
  BY <1>0 DEF Link
<1>2. \A s \in OutlookRows :
          /\ job'.draft[s] = job.draft[s] => Now(s)' = Now(s) /\ (O!Written(s)' <=> O!Written(s))
          /\ Made(job'.draft[s]) => Now(s)' = job'.draft[s] /\ O!Written(s)'
  BY <1>0, NoRows DEF Now, O!Written
<1>3. /\ \A s \in OutlookRows : Unread(s)' <=> Unread(s)
      /\ \A d \in OutlookEvents : d # e => (Unseen(d) => Unseen(d)')
  <2>1. ASSUME NEW s \in OutlookRows PROVE Unread(s)' <=> Unread(s)
    BY <1>0 DEF Unread, O!Unread
  <2>2. ASSUME NEW d \in OutlookEvents, d # e, Unseen(d) PROVE Unseen(d)'
    <3>1. notices => notices'
      BY <1>0
    <3> QED
      BY <1>0, <2>2, <3>1 DEF Unseen
  <2> QED
    BY <2>1, <2>2
<1>4. \A s \in OutlookRows :
          /\ s # r => Now(s)' = Now(s) /\ Link(s)' = Link(s) /\ (O!Written(s)' <=> O!Written(s))
          /\ Unread(s)' <=> Unread(s)
  BY <1>0, <1>1, <1>2, <1>3
<1>5. \A d \in OutlookEvents : d # e =>
          /\ events'[d] = events[d]
          /\ (Unseen(d) => Unseen(d)') /\ (d \in job'.made <=> d \in job.made)
          /\ (d \in fresh => d \in fresh')
  BY <1>0, <1>3
<1> QED
  BY <1>0, <1>1, <1>2, <1>4, <1>5 DEF OpView

\* What the other operations are about
LEMMA OpsApart ==
    ASSUME OutlookInv, NEW o \in job.todo, NEW p \in job.todo, p # o
    PROVE  /\ p.r = None \/ p.r # o.r
           /\ p.e = None \/ p.e # o.e
           /\ OpFits(p) /\ OpMeant(p) /\ p \in Operations
           /\ p.r \in OutlookRows \cup {None} /\ p.e \in OutlookEvents \cup {None}
           /\ p.r # None => Link(p.r).event = p.e
           /\ p.e # None => Made(events[p.e])
BY JobTypes DEF OutlookInv, Todo, OpFits

\* They stay as they were
LEMMA OthersKeepTodo ==
    ASSUME OutlookInv, NEW o \in job.todo, NEW r \in OutlookRows, NEW e \in OutlookEvents,
           OpView(o, r, e),
           \A p \in job.todo : p # o => p.r # r /\ p.e # e /\
              (p.act = "create in Respa" => job'.rows[r].event # p.e)
    PROVE  Todo'
<1>1. ASSUME NEW p \in job.todo, p # o PROVE OpFits(p)' /\ OpMeant(p)'
  <2>1. /\ OpFits(p) /\ OpMeant(p) /\ p \in Operations /\ p.r # r /\ p.e # e
        /\ p.r \in OutlookRows \cup {None} /\ p.e \in OutlookEvents \cup {None}
        /\ p.act = "create in Respa" => job'.rows[r].event # p.e
    BY <1>1, OpsApart
  <2>2. /\ p.r # None => /\ Link(p.r)' = Link(p.r) /\ (O!Written(p.r)' <=> O!Written(p.r))
                         /\ (Unread(p.r)' <=> Unread(p.r))
        /\ p.e # None => events'[p.e] = events[p.e]
        /\ \A s \in OutlookRows : s # r => Link(s)' = Link(s)
        /\ Link(r)' = job'.rows[r]
        /\ phase' = phase /\ resv' = resv /\ rows' = rows /\ hit' = hit
    BY <2>1 DEF OpView
  <2>3. p.act \in {"create in Respa", "delete in Respa", "remove mapping"} => p.e # None
    BY <2>1 DEF Operations
  <2>4. OpFits(p)'
    BY <2>1, <2>2, <2>3 DEF OpFits, Made, Lasting
  <2>5. OpMeant(p)'
    BY <2>1, <2>2, <2>3 DEF OpMeant, Spared, Lasting, O!Booked, Gone
  <2> QED
    BY <2>4, <2>5
<1>2. job'.todo = job.todo \ {o}
  BY DEF OpView
<1> QED
  BY <1>1, <1>2 DEF Todo, OutlookInv

\* So are the rows and events that it is not about
LEMMA OthersKeepNotes ==
    ASSUME OutlookInv, NEW o \in job.todo, NEW r \in OutlookRows, NEW e \in OutlookEvents,
           OpView(o, r, e), o.r \in {r, None},
           \A s \in OutlookRows : s # r => Link(s).event # e
    PROVE  /\ \A s \in OutlookRows : s # r => RowNoted(s)'
           /\ \A d \in OutlookEvents : d # e /\ d # o.e /\ d # Link(r).event => EventNoted(d)'
<1>0. /\ at = "ops" /\ job'.todo = job.todo \ {o} /\ hit' = hit /\ phase' = phase
      /\ queue' = queue /\ (notices => notices')
  BY DEF OpView
<1>1. ASSUME NEW s \in OutlookRows, s # r PROVE RowNoted(s)'
  <2>1. /\ InForce(Now(s)) =>
             \/ Unread(s)
             \/ \E p \in job.todo : p.r = s
             \/ (Link(s).event # None /\ Link(s).key = Now(s).time)
        /\ Dropped(Now(s)) /\ Link(s).event # None /\ O!There(Link(s).event) =>
             \/ Unread(s) \/ (O!Written(s) /\ queue)
             \/ \E p \in job.todo : p.r = s /\ p.act = "delete in calendar"
        /\ InForce(Now(s)) /\ Link(s).event # None /\ ~O!There(Link(s).event) =>
             queue \/ notices \/ (\E p \in job.todo : p.r = s)
    BY <1>0 DEF OutlookInv, Noted, RowNoted, EventNoted
  <2>2. \A p \in job.todo : p.r = s => p \in job'.todo
    BY <1>0, <1>1
  <2>3. /\ Now(s)' = Now(s) /\ Link(s)' = Link(s) /\ (O!Written(s)' <=> O!Written(s))
        /\ (Unread(s)' <=> Unread(s))
    BY <1>1 DEF OpView
  <2>4. Link(s).event # None => events'[Link(s).event] = events[Link(s).event]
    BY <1>1, Views DEF OpView, MapRows, OutlookInv
  <2>5. /\ InForce(Now(s))' <=> InForce(Now(s))
        /\ Dropped(Now(s))' <=> Dropped(Now(s))
        /\ Link(s).event # None => (O!There(Link(s).event)' <=> O!There(Link(s).event))
    BY <1>0, <2>3, <2>4 DEF InForce, Dropped, Spared, Lasting, O!There
  <2> QED
    BY <1>0, <2>1, <2>2, <2>3, <2>5 DEF RowNoted
<1>2. ASSUME NEW d \in OutlookEvents, d # e, d # o.e, d # Link(r).event, Live(d)'
      PROVE  \/ Unseen(d)'
             \/ \E p \in job'.todo : p.e = d
             \/ \E s \in OutlookRows : (Link(s).event = d /\ Link(s).key = events[d].time)'
  <2>1. events'[d] = events[d] /\ (Unseen(d) => Unseen(d)')
    BY <1>2 DEF OpView
  <2>2. Live(d)
    BY <1>0, <1>2, <2>1 DEF Live, Spared, Lasting, O!There
  <2>3. \/ Unseen(d)
        \/ \E p \in job.todo : p.e = d
        \/ \E s \in OutlookRows : Link(s).event = d /\ Link(s).key = events[d].time
    BY <1>0, <2>2 DEF OutlookInv, Noted, RowNoted, EventNoted
  <2>4. \A p \in job.todo : p.e = d => p \in job'.todo
    BY <1>0, <1>2
  <2>5. \A s \in OutlookRows : Link(s).event = d => Link(s)' = Link(s)
    BY <1>2 DEF OpView
  <2> QED
    BY <2>1, <2>3, <2>4, <2>5
<1> QED
  BY <1>1, <1>2 DEF EventNoted

-----------------------------------------------------------------------------
(* Respa gets what the calendar has *)

RowView(o, r, e) ==
    /\ OpView(o, r, e) /\ o.e = e /\ O!There(e) /\ Made(events[e])
    /\ events' = events /\ fresh' = fresh /\ notices' = notices
    /\ job'.readE = job.readE /\ job'.made = job.made
    /\ ~O!Written(r) /\ O!Written(r)' /\ Now(r) = resv[r] /\ Now(r)' = job'.draft[r]
    /\ Made(job'.draft[r]) /\ Whole(job'.draft[r])
    /\ job'.draft[r].time = events[e].time /\ job'.draft[r].origin = events[e].origin
    /\ Link(r)' = [event |-> e, key |-> events[e].time]
    /\ \A s \in OutlookRows : s # r => Link(s).event # e
    /\ \/ /\ o.r = None /\ ~Made(resv[r]) /\ Link(r).event = None
          /\ job'.draft[r].state = "booked" /\ Lasting(events[e])
          /\ o.act = "create in Respa"
       \/ /\ o.r = r /\ Made(resv[r]) /\ Link(r).event = e /\ rows[r].event = e
          /\ resv[r].origin = events[e].origin /\ job'.draft[r].state = resv[r].state
          /\ o.act = "update Respa"

LEMMA RowSeen ==
    ASSUME OutlookInv, NEW o \in job.todo, NEW r \in OutlookRows, NEW e \in OutlookEvents,
           WritesRow(o, r, e)
    PROVE  RowView(o, r, e)
<1>1. OpView(o, r, e)
  BY OpSeen DEF OutlookInv, WritesRow
<1>2. OpFits(o) /\ Mappings
  BY DEF OutlookInv, Todo
<1>3. Made(events[e]) /\ events[e].time \in Time /\ events[e].origin \in O!Booking
  BY Events DEF OutlookInv, WritesRow, Whole
<1>4. ~O!Written(r) /\ Now(r) = resv[r]
  BY DEF WritesRow, Now
<1>5. /\ job'.draft[r].time = events[e].time /\ job'.draft[r].origin = events[e].origin
      /\ job'.rows[r] = [event |-> e, key |-> events[e].time] /\ o.e = e /\ O!There(e)
      /\ events' = events /\ fresh' = fresh /\ notices' = notices
      /\ job'.readE = job.readE /\ job'.made = job.made
      /\ \/ /\ o.act = "create in Respa" /\ o.r = None
            /\ resv[r].state = "none" /\ job'.draft[r].state = "booked"
         \/ /\ o.act = "update Respa" /\ o.r = r
            /\ resv[r].state # "none" /\ job'.draft[r].state = resv[r].state
  BY DEF WritesRow
<1>6. Made(job'.draft[r]) /\ Whole(job'.draft[r])
  BY <1>3, <1>5 DEF Made, Whole
<1>7. O!Written(r)' /\ Now(r)' = job'.draft[r]
      /\ Link(r)' = [event |-> e, key |-> events[e].time]
  BY <1>1, <1>5, <1>6 DEF OpView
<1>8. \/ /\ o.r = None /\ ~Made(resv[r]) /\ Link(r).event = None
         /\ job'.draft[r].state = "booked" /\ Lasting(events[e])
         /\ o.act = "create in Respa" /\ \A s \in OutlookRows : Link(s).event # e
      \/ /\ o.r = r /\ Made(resv[r]) /\ Link(r).event = e /\ rows[r].event = e
         /\ resv[r].origin = events[e].origin /\ job'.draft[r].state = resv[r].state
         /\ o.act = "update Respa"
  <2>1. CASE o.act = "create in Respa"
    <3>1. ~Made(resv[r])
      BY <1>5, <2>1 DEF Made
    <3>2. Link(r).event = None
      BY <1>2, <1>4, <3>1 DEF Mappings, MapFits
    <3> QED
      BY <1>2, <1>5, <2>1, <3>1, <3>2 DEF OpFits
  <2>2. CASE o.act = "update Respa"
    <3>1. Made(resv[r]) /\ o.r = r /\ r # None
      BY <1>5, <2>2, OutlookConstants DEF Made
    <3>2. Link(r).event = e /\ rows[r].event = e /\ e # None
      BY <1>2, <1>5, <3>1, OutlookConstants DEF OpFits
    <3>3. resv[r].origin = events[e].origin
      BY <1>2, <3>2 DEF Mappings, MapFits
    <3> QED
      BY <1>5, <2>2, <3>1, <3>2, <3>3
  <2> QED
    BY <1>5, <2>1, <2>2
<1>9. \A s \in OutlookRows : s # r => Link(s).event # e
  BY <1>2, <1>8, OutlookConstants DEF Mappings
<1> QED
  BY <1>1, <1>3, <1>4, <1>5, <1>6, <1>7, <1>8, <1>9 DEF RowView

\* Who has the row that is written, and the event it is written from
LEMMA RowKin ==
    ASSUME OutlookInv, NEW o \in job.todo, NEW r \in OutlookRows, NEW e \in OutlookEvents,
           RowView(o, r, e)
    PROVE  /\ \A s \in OutlookRows : /\ Made(Now(s)) /\ Now(s).origin = events[e].origin
                                     /\ Spared(events[e])
                                     => s = r
           /\ \A d \in OutlookEvents : Akin(Now(r), d)' => d = e
<1>1. ASSUME NEW s \in OutlookRows, Made(Now(s)), Now(s).origin = events[e].origin,
             Spared(events[e])
      PROVE  s = r
  <2>1. Akin(Now(s), e)
    BY <1>1 DEF RowView, Akin, Spared
  <2>2. CASE o.r = None
    <3>1. Link(s).event = e
      BY <1>1, <2>1, <2>2, OutlookConstants DEF OutlookInv, Paired, RowView
    <3> QED
      BY <3>1 DEF RowView
  <2>3. CASE o.r # None
    BY <1>1, <2>3 DEF RowView, OutlookInv, OneRow, Spared
  <2> QED
    BY <2>2, <2>3
<1>2. ASSUME NEW d \in OutlookEvents, Akin(Now(r), d)'
      PROVE  d = e
  BY <1>2 DEF RowView, OpView, Akin, OutlookInv, OneEvent, O!There, Spared
<1> QED
  BY <1>1, <1>2

LEMMA RowKeepsBasis ==
    ASSUME OutlookInv, NEW o \in job.todo, NEW r \in OutlookRows, NEW e \in OutlookEvents,
           WritesRow(o, r, e)
    PROVE  Basis' /\ Origins' /\ Mappings'
<1>v. RowView(o, r, e)
  BY RowSeen
<1>0. /\ at = "ops" /\ at' = "ops" /\ phase' = phase /\ resv' = resv /\ rows' = rows
      /\ recent' = recent /\ queue' = queue /\ hit' = hit /\ job' \in Jobs
      /\ events' = events /\ fresh' = fresh /\ notices' = notices
      /\ job'.readE = job.readE /\ job'.made = job.made
  BY <1>v DEF RowView, OpView
<1>d. \A s \in OutlookRows : s # r => job'.draft[s] = job.draft[s]
  BY DEF WritesRow, Operates
<1>1. Basis'
  <2>1. left' = left
    BY DEF WritesRow, Operates
  <2>2. OutlookTypes'
    BY <1>0, <2>1 DEF OutlookInv, Basis, OutlookTypes
  <2>3. \A s \in OutlookRows : Whole(job'.draft[s])
    BY <1>d, <1>v DEF RowView, OutlookInv, Basis, Wholeness
  <2>4. Wholeness'
    BY <1>0, <2>3 DEF OutlookInv, Basis, Wholeness, Whole, Made
  <2> QED
    BY <1>0, <2>2, <2>4 DEF Basis, Phases
<1>2. Origins'
  <2>1. \A x : Known(x) => Known(x)'
    BY <1>0 DEF Known, Made
  <2>2. Known(job.draft[r].origin)'
    BY <1>v, <2>1 DEF RowView, OutlookInv, Origins
  <2>3. ASSUME NEW s \in OutlookRows
        PROVE  /\ Made(resv[s])' => Known(resv[s].origin)'
               /\ O!Written(s)' => Known(job.draft[s].origin)'
               /\ O!Written(s)' /\ Made(resv[s])' => job'.draft[s].origin = resv'[s].origin
    <3>1. Made(resv[s])' => Known(resv[s].origin)'
      BY <1>0, <2>1 DEF OutlookInv, Origins, Made
    <3>2. CASE s = r
      BY <1>0, <1>v, <2>2, <3>1, <3>2 DEF RowView, Made
    <3>3. CASE s # r
      <4>1. O!Written(s)' <=> O!Written(s)
        BY <1>v, <3>3 DEF RowView, OpView
      <4> QED
        BY <1>0, <1>d, <2>1, <3>1, <3>3, <4>1 DEF OutlookInv, Origins, Made
    <3> QED
      BY <3>2, <3>3
  <2> QED
    BY <1>0, <2>1, <2>3 DEF OutlookInv, Origins, Made
<1>3. Mappings'
  <2>0. Mappings
    BY DEF OutlookInv
  <2>1. ASSUME NEW s \in OutlookRows PROVE MapFits(resv[s], rows[s])' /\ MapFits(Now(s), Link(s))'
    <3>1. MapFits(resv[s], rows[s])'
      BY <1>0, <2>0 DEF Mappings, MapFits, Made
    <3>2. CASE s = r
      <4>1. /\ Now(s)' = job'.draft[r] /\ Link(s)' = [event |-> e, key |-> events[e].time]
            /\ Made(job'.draft[r]) /\ Made(events[e]) /\ job'.draft[r].origin = events[e].origin
        BY <1>v, <3>2 DEF RowView
      <4> HIDE <1>v
      <4> QED
        BY <1>0, <3>1, <4>1 DEF MapFits, Made
    <3>3. CASE s # r
      <4>1. Now(s)' = Now(s) /\ Link(s)' = Link(s)
        BY <1>v, <3>3 DEF RowView, OpView
      <4> QED
        BY <1>0, <2>0, <3>1, <4>1 DEF Mappings, MapFits, Made
    <3> QED
      BY <3>2, <3>3
  <2>2. ASSUME NEW s \in OutlookRows, NEW u \in OutlookRows
        PROVE  /\ (rows[s].event # None /\ rows[s].event = rows[u].event)' => s = u
               /\ (Link(s).event # None /\ Link(s).event = Link(u).event)' => s = u
    <3>1. \A w \in OutlookRows : /\ w # r => Link(w)' = Link(w) /\ Link(w).event # e
                                 /\ w = r => Link(w)'.event = e
      <4>1. Link(r)'.event = e
        <5>1. Link(r)' = [event |-> e, key |-> events[e].time]
          BY <1>v DEF RowView
        <5> QED
          BY <5>1
      <4>2. \A w \in OutlookRows : w # r => Link(w)' = Link(w) /\ Link(w).event # e
        <5>1. OpView(o, r, e) /\ \A w \in OutlookRows : w # r => Link(w).event # e
          BY <1>v DEF RowView
        <5> QED
          BY <5>1 DEF OpView
      <4> QED
        BY <4>1, <4>2
    <3>2. /\ rows[s].event # None /\ rows[s].event = rows[u].event => s = u
          /\ Link(s).event # None /\ Link(s).event = Link(u).event => s = u
      BY <2>0 DEF Mappings
    <3> QED
      BY <1>0, <3>1, <3>2
  <2> QED
    BY <1>0, <2>1, <2>2 DEF Mappings
<1> QED
  BY <1>1, <1>2, <1>3

LEMMA RowKeepsFamilies ==
    ASSUME OutlookInv, NEW o \in job.todo, NEW r \in OutlookRows, NEW e \in OutlookEvents,
           WritesRow(o, r, e)
    PROVE  OneRow' /\ OneEvent' /\ Paired' /\ PastAlike' /\ NotFar'
<1>v. RowView(o, r, e)
  BY RowSeen
<1>0. /\ phase' = phase /\ resv' = resv /\ rows' = rows /\ hit' = hit /\ events' = events
      /\ job'.made = job.made
  BY <1>v DEF RowView, OpView
<1>1. /\ \A s \in OutlookRows : s # r => Now(s)' = Now(s) /\ Link(s)' = Link(s)
      /\ Now(r)' = job'.draft[r] /\ Link(r)' = [event |-> e, key |-> events[e].time]
      /\ job'.draft[r].time = events[e].time /\ job'.draft[r].origin = events[e].origin
      /\ Made(events[e]) /\ O!There(e)
  BY <1>v DEF RowView, OpView
<1>2. Link(r)'.event = e /\ Now(r)'.origin = events[e].origin /\ Now(r)'.time = events[e].time
  BY <1>1
<1>k. /\ \A s \in OutlookRows : /\ Made(Now(s)) /\ Now(s).origin = events[e].origin
                                /\ Spared(events[e])
                                => s = r
      /\ \A d \in OutlookEvents : Akin(Now(r), d)' => d = e
  BY <1>v, RowKin
<1>3. OneRow'
  <2>1. ASSUME NEW s \in OutlookRows, NEW u \in OutlookRows, Made(Now(s))', Made(Now(u))',
               Now(s)'.origin = Now(u)'.origin, Now(s)'.origin \notin hit
        PROVE  s = u
    <3>1. CASE s # r /\ u # r
      BY <1>1, <2>1, <3>1 DEF OutlookInv, OneRow, Spared, Made
    <3>2. CASE s = r /\ u # r
      BY <1>1, <1>2, <1>k, <2>1, <3>2 DEF Spared, Made
    <3>3. CASE s # r /\ u = r
      BY <1>1, <1>2, <1>k, <2>1, <3>3 DEF Spared, Made
    <3> QED
      BY <3>1, <3>2, <3>3
  <2> QED
    BY <1>0, <2>1 DEF OneRow, Spared
<1>4. OneEvent'
  BY <1>0 DEF OutlookInv, OneEvent, O!There, Spared
<1>5. ASSUME NEW s \in OutlookRows, s # r, NEW d \in OutlookEvents
      PROVE  /\ Akin(Now(s), d)' <=> Akin(Now(s), d)
             /\ Alike(Now(s), d)'
  <2>1. Alike(Now(s), d)
    BY DEF OutlookInv, PastAlike
  <2> QED
    BY <1>0, <1>1, <1>5, <2>1 DEF Alike, Akin, Made, Spared, O!There, Lasting
<1>6. ASSUME NEW s \in OutlookRows, NEW d \in OutlookEvents
      PROVE  /\ Akin(resv[s], d)' <=> Akin(resv[s], d)
             /\ Alike(resv[s], d)'
  <2>1. Alike(resv[s], d)
    BY DEF OutlookInv, PastAlike
  <2> QED
    BY <1>0, <2>1 DEF Alike, Akin, Made, Spared, O!There, Lasting
<1>7. Paired'
  <2>1. ASSUME NEW s \in OutlookRows, NEW d \in OutlookEvents
        PROVE  /\ (Akin(Now(s), d) /\ Lasting(events[d]))' => Link(s)'.event = d
               /\ (Akin(resv[s], d) /\ Lasting(events[d]))' => rows'[s].event = d \/ d \in job'.made
    <3>1. (Akin(resv[s], d) /\ Lasting(events[d]))' => rows'[s].event = d \/ d \in job'.made
      BY <1>0, <1>6 DEF OutlookInv, Paired, Lasting
    <3>2. CASE s = r
      BY <1>2, <1>k, <3>1, <3>2
    <3>3. CASE s # r
      BY <1>0, <1>1, <1>5, <3>1, <3>3 DEF OutlookInv, Paired, Lasting
    <3> QED
      BY <3>2, <3>3
  <2> QED
    BY <2>1 DEF Paired
<1>8. PastAlike'
  <2>1. ASSUME NEW d \in OutlookEvents PROVE Alike(Now(r), d)'
    BY <1>0, <1>2, <1>k DEF Alike
  <2> QED
    BY <1>5, <1>6, <2>1 DEF PastAlike
<1>9. NotFar'
  <2>1. ASSUME NEW s \in OutlookRows PROVE Close(resv[s])' /\ Close(Now(s))'
    <3>1. Close(resv[s]) /\ Close(Now(s)) /\ Close(events[e])
      BY DEF OutlookInv, NotFar
    <3>2. CASE s = r
      BY <1>0, <1>1, <1>2, <3>1, <3>2 DEF Close, Made, Spared
    <3>3. CASE s # r
      BY <1>0, <1>1, <3>1, <3>3 DEF Close, Made, Spared
    <3> QED
      BY <3>2, <3>3
  <2>2. ASSUME NEW d \in OutlookEvents PROVE Close(events[d])'
    BY <1>0 DEF OutlookInv, NotFar, Close, Made, Spared
  <2> QED
    BY <2>1, <2>2 DEF NotFar
<1> QED
  BY <1>3, <1>4, <1>7, <1>8, <1>9

LEMMA RowKeepsNotes ==
    ASSUME OutlookInv, NEW o \in job.todo, NEW r \in OutlookRows, NEW e \in OutlookEvents,
           WritesRow(o, r, e)
    PROVE  Recorded' /\ Noted' /\ Todo' /\ Justified' /\ Reading'
<1>v. RowView(o, r, e)
  BY RowSeen
<1>0. /\ at = "ops" /\ at' = at /\ phase' = phase /\ resv' = resv /\ rows' = rows
      /\ recent' = recent /\ hit' = hit /\ events' = events /\ fresh' = fresh
      /\ OpView(o, r, e) /\ job'.todo = job.todo \ {o} /\ o.e = e /\ e # None
      /\ o.r \in {r, None}
  BY <1>v, OutlookConstants DEF RowView, OpView
<1>1. Recorded'
  BY <1>0 DEF OutlookInv, Recorded, InForce, Dropped, Live, Spared, Lasting, O!There
<1>2. /\ Now(r)' = job'.draft[r] /\ Link(r)' = [event |-> e, key |-> events[e].time]
      /\ job'.draft[r].time = events[e].time /\ O!There(e)
      /\ O!Written(r)' /\ ~O!Written(r) /\ Now(r) = resv[r]
      /\ \A s \in OutlookRows : s # r => Link(s).event # e
  BY <1>v DEF RowView
<1>3. Link(r)'.event = e /\ Link(r)'.key = events[e].time /\ Now(r)'.time = events[e].time
  BY <1>2
<1>4. Dropped(Now(r))' => Unread(r)'
  <2> SUFFICES ASSUME Dropped(Now(r))' PROVE Unread(r)'
    OBVIOUS
  <2>1. /\ o.r = r /\ Link(r).event = e /\ resv[r].origin = events[e].origin /\ Made(resv[r])
        /\ resv[r].state = "cancelled" /\ o.act = "update Respa"
    BY <1>v DEF RowView, Dropped
  <2>2. Spared(resv[r]) /\ Lasting(events[e])
    BY <1>0, <1>3, <2>1, <1>v DEF RowView, Dropped, Spared, Lasting
  <2>3. Lasting(resv[r])
    <3>1. Akin(resv[r], e)
      BY <1>2, <2>1, <2>2 DEF Akin
    <3> QED
      BY <2>2, <3>1 DEF OutlookInv, PastAlike, Alike, Lasting
  <2>4. \/ Unread(r) \/ (O!Written(r) /\ queue)
        \/ \E p \in job.todo : p.r = r /\ p.act = "delete in calendar"
    <3>1. Dropped(Now(r)) /\ Link(r).event # None /\ O!There(Link(r).event)
      BY <1>2, <2>1, <2>2, <2>3, OutlookConstants DEF Dropped
    <3>2. RowNoted(r)
      BY <1>0 DEF OutlookInv, Noted
    <3> QED
      BY <3>1, <3>2 DEF RowNoted
  <2>5. \A p \in job.todo : p.r = r => p = o
    BY <2>1, OpsApart, OutlookConstants
  <2> QED
    BY <1>0, <1>2, <2>1, <2>4, <2>5 DEF OpView
<1>o. /\ \A s \in OutlookRows : s # r => RowNoted(s)'
      /\ \A d \in OutlookEvents : d # e /\ d # Link(r).event => EventNoted(d)'
  <2>1. o.e = e /\ OpView(o, r, e) /\ o.r \in {r, None}
    BY <1>0
  <2> QED
    BY <1>2, <2>1, OthersKeepNotes
<1>5. Noted'
  <2>1. RowNoted(r)'
    <3>1. O!There(Link(r).event)'
      BY <1>0, <1>2, <1>3 DEF O!There
    <3> QED
      BY <1>0, <1>3, <1>4, <3>1 DEF RowNoted
  <2>2. ASSUME NEW d \in OutlookEvents PROVE EventNoted(d)'
    <3>1. CASE d = e
      BY <1>0, <1>3, <3>1 DEF EventNoted
    <3>2. CASE d # e
      <4>1. d # Link(r).event
        BY <1>v, <3>2, OutlookConstants DEF RowView
      <4> QED
        BY <1>o, <3>2, <4>1
    <3> QED
      BY <3>1, <3>2
  <2> QED
    BY <1>o, <2>1, <2>2 DEF Noted
<1>6. Todo'
  <2>1. ASSUME NEW p \in job.todo, p # o
        PROVE  p.r # r /\ p.e # e /\ (p.act = "create in Respa" => job'.rows[r].event # p.e)
    <3>1. p.e # e
      BY <1>0, <2>1, OpsApart
    <3>2. p.r # r
      BY <1>v, <2>1, OpsApart, OutlookConstants DEF RowView, OpFits
    <3>3. job'.rows[r].event = e
      BY <1>0, <1>3 DEF OpView
    <3> QED
      BY <3>1, <3>2, <3>3
  <2>2. \A p \in job.todo : p # o => p.r # r /\ p.e # e /\
              (p.act = "create in Respa" => job'.rows[r].event # p.e)
    BY <2>1
  <2>3. OpView(o, r, e)
    BY <1>0
  <2> QED
    BY <2>2, <2>3, OthersKeepTodo
<1>7. Justified'
  <2>1. ASSUME NEW s \in OutlookRows, O!Written(s)', job'.draft[s].state = "cancelled",
               O!Booked(s), Spared(resv[s])
        PROVE  rows[s].event # None /\ Gone(rows[s].event)
    <3>1. s # r
      BY <1>v, <2>1 DEF RowView, O!Booked
    <3>2. O!Written(s) /\ job'.draft[s] = job.draft[s]
      BY <1>0, <2>1, <3>1 DEF OpView, WritesRow, Operates
    <3> QED
      BY <2>1, <3>2 DEF OutlookInv, Justified
  <2> QED
    BY <1>0, <2>1 DEF Justified, O!Booked, Spared, Gone
<1>8. Reading'
  BY <1>0 DEF Reading
<1> QED
  BY <1>1, <1>5, <1>6, <1>7, <1>8

LEMMA RowKeeps ==
    ASSUME OutlookInv, NEW o \in job.todo, NEW r \in OutlookRows, NEW e \in OutlookEvents,
           WritesRow(o, r, e)
    PROVE  OutlookInv'
BY RowKeepsBasis, RowKeepsFamilies, RowKeepsNotes DEF OutlookInv

-----------------------------------------------------------------------------
(* The calendar gets what Respa has *)

EventView(o, r, e) ==
    /\ OpView(o, r, e) /\ o.r = r /\ OpMeant(o) /\ o.e = Link(r).event
    /\ Now(r)' = Now(r) /\ ~O!Written(r)' /\ ~O!Written(r) /\ Now(r) = resv[r]
    /\ Made(resv[r]) /\ Whole(resv[r])
    /\ Link(r)'.event = e /\ Link(r)'.key = Link(r).key
    /\ O!There(e)' /\ Made(events[e])' /\ Unseen(e)' /\ e \in fresh'
    /\ events'[e].time = resv[r].time /\ events'[e].origin = resv[r].origin
    /\ \A s \in OutlookRows : s # r => Link(s).event # e /\ rows[s].event # e
    /\ \/ /\ o.act = "create in calendar" /\ ~Made(events[e]) /\ e \in job'.made
          /\ Link(r).event # e /\ rows[r].event # e
       \/ /\ o.act = "update calendar" /\ O!There(e) /\ Made(events[e])
          /\ (e \in job'.made <=> e \in job.made)
          /\ Link(r).event = e /\ rows[r].event = e /\ events[e].origin = resv[r].origin

LEMMA EventSeen ==
    ASSUME OutlookInv, NEW o \in job.todo, NEW r \in OutlookRows, NEW e \in OutlookEvents,
           WritesEvent(o, r, e)
    PROVE  EventView(o, r, e)
<1>1. OpView(o, r, e)
  BY OpSeen DEF OutlookInv, WritesEvent
<1>2. OpFits(o) /\ OpMeant(o) /\ Mappings
  BY DEF OutlookInv, Todo
<1>3. /\ o.r = r /\ job'.draft[r] = job.draft[r] /\ e # None /\ r # None
      /\ job'.rows[r] = [event |-> e, key |-> job.rows[r].key]
      /\ events'[e] = [state |-> "there", time |-> resv[r].time, origin |-> resv[r].origin]
      /\ e \in fresh' /\ e \notin job'.readE /\ notices'
  BY OutlookConstants DEF WritesEvent
<1>4. Link(r).event = o.e /\ rows[r].event = o.e /\ ~O!Written(r) /\ Made(resv[r])
  BY <1>2, <1>3 DEF OpFits
<1>5. /\ Now(r)' = Now(r) /\ ~O!Written(r)' /\ Now(r) = resv[r] /\ Link(r)' = job'.rows[r]
      /\ Link(r) = job.rows[r] /\ Whole(resv[r])
  BY <1>1, <1>3, <1>4, Views DEF OpView, Now, OutlookInv
<1>6. Link(r)'.event = e /\ Link(r)'.key = Link(r).key
  BY <1>3, <1>5
<1>7. events'[e].state = "there" /\ events'[e].time = resv[r].time /\ events'[e].origin = resv[r].origin
  BY <1>3
<1>8. O!There(e)' /\ Made(events[e])' /\ Unseen(e)'
  BY <1>3, <1>7 DEF O!There, Made, Unseen
<1>m. \A s \in OutlookRows : /\ Link(s).event = e => Made(events[e])
                             /\ rows[s].event = e => Made(events[e])
  BY <1>2, OutlookConstants DEF Mappings, MapFits
<1>9. CASE o.act = "create in calendar"
  <2>1. events[e].state = "none" /\ e \in job'.made
    BY <1>9 DEF WritesEvent
  <2>2. ~Made(events[e])
    BY <2>1 DEF Made
  <2>3. \A s \in OutlookRows : Link(s).event # e /\ rows[s].event # e
    BY <1>m, <2>2
  <2> QED
    BY <1>1, <1>2, <1>3, <1>4, <1>5, <1>6, <1>7, <1>8, <1>9, <2>1, <2>2, <2>3 DEF EventView
<1>10. CASE o.act = "update calendar"
  <2>1. o.e = e /\ O!There(e) /\ job'.made = job.made
    BY <1>10 DEF WritesEvent
  <2>2. Link(r).event = e /\ rows[r].event = e
    BY <1>4, <2>1
  <2>3. \A s \in OutlookRows : s # r => Link(s).event # e /\ rows[s].event # e
    BY <1>2, <1>3, <2>2 DEF Mappings
  <2>4. Made(events[e]) /\ events[e].origin = resv[r].origin
    BY <1>2, <1>3, <2>2 DEF Mappings, MapFits
  <2> QED
    BY <1>1, <1>2, <1>3, <1>4, <1>5, <1>6, <1>7, <1>8, <1>10, <2>1, <2>2, <2>3, <2>4 DEF EventView
<1> QED
  BY <1>9, <1>10 DEF WritesEvent

\* The event that is written is of no other reservation, and the reservation has no other
LEMMA EventKin ==
    ASSUME OutlookInv, NEW o \in job.todo, NEW r \in OutlookRows, NEW e \in OutlookEvents,
           EventView(o, r, e)
    PROVE  /\ \A s \in OutlookRows : Akin(Now(s), e)' \/ Akin(resv[s], e)' => s = r
           /\ \A d \in OutlookEvents : /\ d # e /\ O!There(d) /\ Spared(resv[r])
                                       => events[d].origin # resv[r].origin
<1>0. /\ resv' = resv /\ hit' = hit /\ \A s \in OutlookRows : Now(s)' = Now(s)
      /\ events'[e].origin = resv[r].origin /\ Now(r) = resv[r] /\ Made(resv[r])
      /\ o.r = r /\ o.e = Link(r).event /\ r # None /\ OpMeant(o)
  BY OutlookConstants DEF EventView, OpView
<1>1. ASSUME NEW s \in OutlookRows, Akin(Now(s), e)' \/ Akin(resv[s], e)'
      PROVE  s = r
  <2>1. Made(Now(s)) /\ Now(s).origin = resv[r].origin /\ Spared(resv[r])
    <3>1. CASE Akin(Now(s), e)'
      BY <1>0, <3>1 DEF Akin, Made, Spared
    <3>2. CASE Akin(resv[s], e)'
      <4>1. Made(resv[s]) /\ resv[s].origin = resv[r].origin /\ Spared(resv[r])
        BY <1>0, <3>2 DEF Akin, Made, Spared
      <4> QED
        BY <4>1, KnownNow DEF OutlookInv
    <3> QED
      BY <1>1, <3>1, <3>2
  <2> QED
    BY <1>0, <2>1 DEF OutlookInv, OneRow, Spared
<1>2. ASSUME NEW d \in OutlookEvents, d # e, O!There(d), Spared(resv[r]),
             events[d].origin = resv[r].origin
      PROVE  FALSE
  <2>1. Akin(resv[r], d) /\ Akin(Now(r), d)
    BY <1>0, <1>2 DEF Akin
  <2>2. CASE o.act = "create in calendar"
    <3>1. Lasting(resv[r]) /\ (o.e # None => Gone(o.e))
      BY <1>0, <1>2, <2>2 DEF OpMeant
    <3>2. CASE Lasting(events[d])
      <4>1. Link(r).event = d /\ d # None
        BY <2>1, <3>2, OutlookConstants DEF OutlookInv, Paired
      <4> QED
        BY <1>0, <1>2, <3>1, <4>1, Events DEF OutlookInv
    <3>3. CASE ~Lasting(events[d])
      BY <2>1, <3>1, <3>3 DEF OutlookInv, PastAlike, Alike, Lasting
    <3> QED
      BY <3>2, <3>3
  <2>3. CASE o.act # "create in calendar"
    <3>1. O!There(e) /\ events[e].origin = resv[r].origin
      BY <2>3 DEF EventView
    <3> QED
      BY <1>2, <3>1 DEF OutlookInv, OneEvent, Spared
  <2> QED
    BY <2>2, <2>3
<1> QED
  BY <1>1, <1>2

LEMMA EventKeepsBasis ==
    ASSUME OutlookInv, NEW o \in job.todo, NEW r \in OutlookRows, NEW e \in OutlookEvents,
           WritesEvent(o, r, e)
    PROVE  Basis' /\ Origins' /\ Mappings'
<1>v. EventView(o, r, e)
  BY EventSeen
<1>0. /\ at = "ops" /\ at' = "ops" /\ phase' = phase /\ resv' = resv /\ rows' = rows
      /\ recent' = recent /\ queue' = queue /\ hit' = hit /\ job' \in Jobs
      /\ \A d \in OutlookEvents : d # e => events'[d] = events[d]
      /\ Made(events[e])' /\ events'[e].time = resv[r].time /\ events'[e].origin = resv[r].origin
      /\ Made(resv[r]) /\ Whole(resv[r]) /\ ~O!Written(r) /\ ~O!Written(r)'
  BY <1>v DEF EventView, OpView
<1>d. /\ \A s \in OutlookRows : job'.draft[s] = job.draft[s]
      /\ left' = left /\ notices' = TRUE /\ fresh' \subseteq OutlookEvents
      /\ events' \in [OutlookEvents -> EventRows]
      /\ \A d \in OutlookEvents \ {e} :
          /\ d \in fresh' <=> d \in fresh
          /\ d \in job'.readE <=> d \in job.readE
          /\ d \in job'.made <=> d \in job.made
  BY DEF WritesEvent, Operates
<1>m. \A d \in OutlookEvents : Made(events[d]) => Made(events[d])'
  BY <1>0 DEF Made
<1>1. Basis'
  <2>2. OutlookTypes'
    BY <1>0, <1>d DEF OutlookInv, Basis, OutlookTypes
  <2>3. \A s \in OutlookRows : Whole(resv[s])' /\ Whole(job.draft[s])'
    BY <1>0, <1>d DEF OutlookInv, Basis, Wholeness, Whole, Made
  <2>4. \A d \in OutlookEvents : Whole(events[d])'
    BY <1>0 DEF OutlookInv, Basis, Wholeness, Whole, Made
  <2>5. job'.readE \subseteq OutlookEvents /\ job'.made \subseteq OutlookEvents
    BY <1>0 DEF Jobs
  <2>6. ASSUME NEW d \in fresh' \cup job'.readE \cup job'.made PROVE Made(events[d])'
    <3>1. d \in OutlookEvents
      BY <1>d, <2>5
    <3>2. d # e => d \in fresh \cup job.readE \cup job.made
      BY <1>d, <3>1
    <3> QED
      BY <1>0, <1>m, <3>1, <3>2 DEF OutlookInv, Basis, Wholeness
  <2>7. Wholeness'
    BY <2>3, <2>4, <2>6 DEF Wholeness
  <2> QED
    BY <1>0, <2>2, <2>7 DEF Basis, Phases
<1>2. Origins'
  <2>1. \A x : Known(x) => Known(x)'
    BY <1>0, <1>m DEF Known, Made
  <2>2. ASSUME NEW s \in OutlookRows
        PROVE  /\ Made(resv[s])' => Known(resv[s].origin)'
               /\ O!Written(s)' => Known(job.draft[s].origin)'
               /\ O!Written(s)' /\ Made(resv[s])' => job'.draft[s].origin = resv'[s].origin
    <3>1. Made(resv[s])' => Known(resv[s].origin)'
      BY <1>0, <2>1 DEF OutlookInv, Origins, Made
    <3>2. O!Written(s)' <=> O!Written(s)
      BY <1>0, <1>d DEF O!Written
    <3> QED
      BY <1>0, <1>d, <2>1, <3>1, <3>2 DEF OutlookInv, Origins, Made
  <2>3. ASSUME NEW d \in OutlookEvents, Made(events[d])' PROVE Known(events[d].origin)'
    <3>1. CASE d = e
      BY <1>0, <2>1, <3>1 DEF OutlookInv, Origins
    <3>2. CASE d # e
      BY <1>0, <2>1, <2>3, <3>2 DEF OutlookInv, Origins, Made
    <3> QED
      BY <3>1, <3>2
  <2> QED
    BY <2>2, <2>3 DEF Origins
<1>3. Mappings'
  <2>0. Mappings
    BY DEF OutlookInv
  <2>1. ASSUME NEW s \in OutlookRows PROVE MapFits(resv[s], rows[s])'
    <3>1. MapFits(resv[s], rows[s]) /\ rows[s] \in MapRows
      BY <2>0, Views DEF Mappings, OutlookInv
    <3>2. CASE rows[s].event = e
      <4>1. s = r
        BY <1>v, <3>2 DEF EventView
      <4> QED
        BY <1>0, <3>2, <4>1 DEF MapFits, Made
    <3>3. CASE rows[s].event # e
      BY <1>0, <3>1, <3>3 DEF MapFits, Made, MapRows
    <3> QED
      BY <3>2, <3>3
  <2>2. ASSUME NEW s \in OutlookRows PROVE MapFits(Now(s), Link(s))'
    <3>1. MapFits(Now(s), Link(s)) /\ Link(s) \in MapRows
      BY <2>0, Views DEF Mappings, OutlookInv
    <3>2. CASE s = r
      <4>1. Now(s)' = resv[r] /\ Link(s)'.event = e
        BY <1>v, <3>2 DEF EventView
      <4> QED
        BY <1>0, <4>1 DEF MapFits, Made
    <3>3. CASE s # r
      <4>1. Link(s).event # e
        BY <1>v, <3>3 DEF EventView
      <4>2. Now(s)' = Now(s) /\ Link(s)' = Link(s)
        BY <1>v, <3>3 DEF EventView, OpView
      <4> QED
        BY <1>0, <3>1, <4>1, <4>2 DEF MapFits, Made, MapRows
    <3> QED
      BY <3>2, <3>3
  <2>3. ASSUME NEW s \in OutlookRows, NEW u \in OutlookRows
        PROVE  /\ (rows[s].event # None /\ rows[s].event = rows[u].event)' => s = u
               /\ (Link(s).event # None /\ Link(s).event = Link(u).event)' => s = u
    <3>1. Link(r)'.event = e /\ \A w \in OutlookRows : w # r => Link(w)' = Link(w) /\ Link(w).event # e
      BY <1>v DEF EventView, OpView
    <3>2. /\ rows[s].event # None /\ rows[s].event = rows[u].event => s = u
          /\ Link(s).event # None /\ Link(s).event = Link(u).event => s = u
      BY <2>0 DEF Mappings
    <3> QED
      BY <1>0, <3>1, <3>2
  <2> QED
    BY <1>0, <2>1, <2>2, <2>3 DEF Mappings
<1> QED
  BY <1>1, <1>2, <1>3

LEMMA EventKeepsFamilies ==
    ASSUME OutlookInv, NEW o \in job.todo, NEW r \in OutlookRows, NEW e \in OutlookEvents,
           WritesEvent(o, r, e)
    PROVE  OneRow' /\ OneEvent' /\ Paired' /\ PastAlike' /\ NotFar'
<1>v. EventView(o, r, e)
  BY EventSeen
<1>0. /\ phase' = phase /\ resv' = resv /\ rows' = rows /\ hit' = hit
      /\ \A s \in OutlookRows : Now(s)' = Now(s)
      /\ \A s \in OutlookRows : s # r => Link(s)' = Link(s)
      /\ Link(r)'.event = e /\ Now(r) = resv[r]
      /\ \A d \in OutlookEvents : d # e => events'[d] = events[d] /\ (d \in job'.made <=> d \in job.made)
      /\ events'[e].time = resv[r].time /\ events'[e].origin = resv[r].origin
      /\ Made(resv[r])
  BY <1>v DEF EventView, OpView
<1>k. /\ \A s \in OutlookRows : Akin(Now(s), e)' \/ Akin(resv[s], e)' => s = r
      /\ \A d \in OutlookEvents : /\ d # e /\ O!There(d) /\ Spared(resv[r])
                                  => events[d].origin # resv[r].origin
  BY <1>v, EventKin
<1>3. OneRow'
  BY <1>0 DEF OutlookInv, OneRow, Made, Spared
<1>4. OneEvent'
  <2>1. ASSUME NEW d \in OutlookEvents, NEW f \in OutlookEvents, O!There(d)', O!There(f)',
               events'[d].origin = events'[f].origin, events'[d].origin \notin hit
        PROVE  d = f
    <3>1. CASE d # e /\ f # e
      BY <1>0, <2>1, <3>1 DEF OutlookInv, OneEvent, O!There, Spared
    <3>2. CASE d = e /\ f # e
      BY <1>0, <1>k, <2>1, <3>2 DEF O!There, Spared
    <3>3. CASE d # e /\ f = e
      BY <1>0, <1>k, <2>1, <3>3 DEF O!There, Spared
    <3> QED
      BY <3>1, <3>2, <3>3
  <2> QED
    BY <1>0, <2>1 DEF OneEvent, Spared
<1>5. ASSUME NEW s \in OutlookRows, NEW d \in OutlookEvents, d # e
      PROVE  /\ Akin(Now(s), d)' => Akin(Now(s), d)
             /\ Akin(resv[s], d)' => Akin(resv[s], d)
             /\ Alike(Now(s), d)' /\ Alike(resv[s], d)'
  <2>1. Alike(Now(s), d) /\ Alike(resv[s], d)
    BY DEF OutlookInv, PastAlike
  <2> QED
    BY <1>0, <1>5, <2>1 DEF Alike, Akin, Made, Spared, O!There, Lasting
<1>6. ASSUME NEW d \in OutlookEvents, d # e, Akin(Now(r), d)'
      PROVE  FALSE
  BY <1>0, <1>k, <1>6 DEF Akin, Spared, O!There
<1>7. Paired'
  <2>1. ASSUME NEW s \in OutlookRows, NEW d \in OutlookEvents
        PROVE  /\ (Akin(Now(s), d) /\ Lasting(events[d]))' => Link(s)'.event = d
               /\ (Akin(resv[s], d) /\ Lasting(events[d]))' => rows'[s].event = d \/ d \in job'.made
    <3>1. CASE d = e
      <4>1. s = r => rows'[s].event = e \/ e \in job'.made
        BY <1>0, <1>v DEF EventView
      <4> QED
        BY <1>0, <1>k, <3>1, <4>1
    <3>2. CASE d # e
      <4>1. s # r => Link(s)' = Link(s)
        BY <1>0
      <4>2. Lasting(events[d])' <=> Lasting(events[d])
        BY <1>0, <3>2 DEF Lasting
      <4>3. (Akin(Now(s), d) /\ Lasting(events[d]))' => Link(s)'.event = d
        BY <1>5, <1>6, <3>2, <4>1, <4>2 DEF OutlookInv, Paired
      <4>4. (Akin(resv[s], d) /\ Lasting(events[d]))' => rows'[s].event = d \/ d \in job'.made
        BY <1>0, <1>5, <3>2, <4>2 DEF OutlookInv, Paired
      <4> QED
        BY <4>3, <4>4
    <3> QED
      BY <3>1, <3>2
  <2> QED
    BY <2>1 DEF Paired
<1>8. PastAlike'
  <2>1. ASSUME NEW s \in OutlookRows PROVE Alike(Now(s), e)' /\ Alike(resv[s], e)'
    BY <1>0, <1>k DEF Alike
  <2> QED
    BY <1>5, <2>1 DEF PastAlike
<1>9. NotFar'
  <2>1. ASSUME NEW s \in OutlookRows PROVE Close(resv[s])' /\ Close(Now(s))'
    BY <1>0 DEF OutlookInv, NotFar, Close, Made, Spared
  <2>2. ASSUME NEW d \in OutlookEvents PROVE Close(events[d])'
    <3>1. Close(resv[r]) /\ Close(events[d])
      BY DEF OutlookInv, NotFar
    <3> QED
      BY <1>0, <3>1 DEF Close, Made, Spared
  <2> QED
    BY <2>1, <2>2 DEF NotFar
<1> QED
  BY <1>3, <1>4, <1>7, <1>8, <1>9

LEMMA EventKeepsNotes ==
    ASSUME OutlookInv, NEW o \in job.todo, NEW r \in OutlookRows, NEW e \in OutlookEvents,
           WritesEvent(o, r, e)
    PROVE  Recorded' /\ Noted' /\ Todo' /\ Justified' /\ Reading'
<1>v. EventView(o, r, e)
  BY EventSeen
<1>0. /\ at = "ops" /\ at' = at /\ phase' = phase /\ resv' = resv /\ rows' = rows
      /\ recent' = recent /\ hit' = hit /\ queue' = queue
      /\ OpView(o, r, e) /\ job'.todo = job.todo \ {o} /\ o.r = r /\ o.e = Link(r).event
      /\ \A d \in OutlookEvents : d # e => events'[d] = events[d] /\ (d \in fresh => d \in fresh')
      /\ O!There(e)' /\ Unseen(e)' /\ e \in fresh'
      /\ \A s \in OutlookRows : s # r => Link(s).event # e /\ rows[s].event # e
      /\ OpMeant(o) /\ r # None /\ e # None
  BY <1>v, OutlookConstants DEF EventView, OpView
<1>1. Recorded'
  <2>1. ASSUME NEW s \in OutlookRows
        PROVE  /\ InForce(resv[s])' => \/ s \in recent'
                                       \/ (rows'[s].event # None /\ rows'[s].key = resv'[s].time)
               /\ Dropped(resv[s])' /\ rows'[s].event # None /\ O!There(rows[s].event)' => s \in recent'
    <3>1. InForce(resv[s])' => \/ s \in recent'
                               \/ (rows'[s].event # None /\ rows'[s].key = resv'[s].time)
      BY <1>0 DEF OutlookInv, Recorded, InForce, Spared, Lasting
    <3>2. rows[s].event = e => s = r /\ O!There(e)
      BY <1>0, <1>v DEF EventView
    <3>3. rows[s] \in MapRows
      BY Views DEF OutlookInv
    <3>4. rows[s].event # None /\ O!There(rows[s].event)' => O!There(rows[s].event)
      BY <1>0, <3>2, <3>3 DEF MapRows, O!There
    <3>5. Dropped(resv[s])' => Dropped(resv[s])
      BY <1>0 DEF Dropped, Spared, Lasting
    <3> QED
      BY <1>0, <3>1, <3>4, <3>5 DEF OutlookInv, Recorded
  <2>2. ASSUME NEW d \in OutlookEvents, Live(d)'
        PROVE  d \in fresh' \/ (\E s \in OutlookRows : rows'[s].event = d /\ rows'[s].key = events'[d].time)
    <3>1. CASE d = e
      BY <1>0, <3>1
    <3>2. CASE d # e
      BY <1>0, <2>2, <3>2 DEF OutlookInv, Recorded, Live, Spared, Lasting, O!There
    <3> QED
      BY <3>1, <3>2
  <2> QED
    BY <2>1, <2>2 DEF Recorded
<1>2. /\ Now(r)' = Now(r) /\ Now(r) = resv[r] /\ Link(r)'.event = e /\ Link(r)'.key = Link(r).key
      /\ ~O!Written(r) /\ (Unread(r)' <=> Unread(r)) /\ Made(resv[r])
  BY <1>v DEF EventView, OpView
<1>o. /\ \A s \in OutlookRows : s # r => RowNoted(s)'
      /\ \A d \in OutlookEvents : d # e /\ d # o.e /\ d # Link(r).event => EventNoted(d)'
  <2>1. OpView(o, r, e) /\ o.r \in {r, None} /\ \A s \in OutlookRows : s # r => Link(s).event # e
    BY <1>0
  <2> QED
    BY <2>1, OthersKeepNotes
<1>3. InForce(Now(r))' => Unread(r)' \/ (Link(r)'.event # None /\ Link(r)'.key = Now(r)'.time)
  <2>1. InForce(Now(r))' => Spared(resv[r]) /\ Lasting(resv[r])
    BY <1>0, <1>2 DEF InForce, Spared, Lasting
  <2> QED
    BY <1>0, <1>2, <2>1 DEF OpMeant
<1>4. Dropped(Now(r))' => Unread(r)'
  <2> SUFFICES ASSUME Dropped(Now(r))' PROVE Unread(r)'
    OBVIOUS
  <2>1. Dropped(Now(r)) /\ ~O!Booked(r) /\ Spared(resv[r])
    BY <1>0, <1>2 DEF Dropped, Spared, Lasting, O!Booked
  <2>2. CASE o.act = "create in calendar"
    BY <1>0, <1>2, <2>1, <2>2 DEF OpMeant
  <2>3. CASE o.act # "create in calendar"
    <3>1. Link(r).event = e /\ O!There(e) /\ o.act = "update calendar"
      BY <1>v, <2>3 DEF EventView
    <3>2. RowNoted(r)
      BY <1>0 DEF OutlookInv, Noted
    <3>3. \/ Unread(r) \/ (O!Written(r) /\ queue)
          \/ \E p \in job.todo : p.r = r /\ p.act = "delete in calendar"
      BY <1>0, <2>1, <3>1, <3>2 DEF RowNoted
    <3>4. \A p \in job.todo : p.r = r => p = o
      BY <1>0, OpsApart
    <3> QED
      BY <1>2, <3>1, <3>3, <3>4
  <2> QED
    BY <2>2, <2>3
<1>5. Noted'
  <2>1. RowNoted(r)'
    <3>1. O!There(Link(r).event)'
      BY <1>0, <1>2 DEF O!There
    <3> QED
      BY <1>3, <1>4, <3>1 DEF RowNoted
  <2>2. ASSUME NEW d \in OutlookEvents PROVE EventNoted(d)'
    <3>1. CASE d = e
      BY <1>0, <3>1 DEF EventNoted
    <3>2. CASE d # e /\ d # o.e
      BY <1>0, <1>o, <3>2
    <3>3. CASE d # e /\ d = o.e
      <4>1. o.act = "create in calendar" /\ o.e # None
        BY <1>0, <1>v, <3>3, OutlookConstants DEF EventView
      <4>2. resv[r].origin = events[d].origin
        <5>1. MapFits(Now(r), Link(r))
          BY DEF OutlookInv, Mappings
        <5> QED
          BY <1>0, <1>2, <3>3, <4>1, <5>1 DEF MapFits
      <4>3. Spared(resv[r]) => ~O!There(d)
        BY <1>0, <3>3, <4>1, Events DEF OpMeant, OutlookInv
      <4>4. ~Live(d)'
        BY <1>0, <3>3, <4>2, <4>3 DEF Live, Spared, O!There
      <4> QED
        BY <4>4 DEF EventNoted
    <3> QED
      BY <3>1, <3>2, <3>3
  <2> QED
    BY <1>o, <2>1, <2>2 DEF Noted
<1>6. Todo'
  <2>1. ASSUME NEW p \in job.todo, p # o
        PROVE  p.r # r /\ p.e # e /\ (p.act = "create in Respa" => job'.rows[r].event # p.e)
    <3>1. p.r # r
      BY <1>0, <2>1, OpsApart
    <3>2. p.e # e
      <4>1. o.e = e \/ ~Made(events[e])
        BY <1>0, <1>v DEF EventView
      <4> QED
        BY <1>0, <2>1, <4>1, OpsApart
    <3>3. job'.rows[r].event = e
      BY <1>0, <1>2 DEF OpView
    <3> QED
      BY <3>1, <3>2, <3>3
  <2>2. \A p \in job.todo : p # o => p.r # r /\ p.e # e /\
              (p.act = "create in Respa" => job'.rows[r].event # p.e)
    BY <2>1
  <2>3. OpView(o, r, e)
    BY <1>0
  <2> QED
    BY <2>2, <2>3, OthersKeepTodo
<1>7. Justified'
  <2>1. ASSUME NEW s \in OutlookRows, O!Written(s)', job'.draft[s].state = "cancelled",
               O!Booked(s), Spared(resv[s])
        PROVE  rows[s].event # None /\ Gone(rows[s].event)'
    <3>1. s # r /\ O!Written(s) /\ job'.draft[s] = job.draft[s]
      BY <1>v, <2>1 DEF EventView, OpView, WritesEvent, Operates
    <3>2. rows[s].event # None /\ Gone(rows[s].event)
      BY <2>1, <3>1 DEF OutlookInv, Justified
    <3>3. rows[s] \in MapRows
      BY Views DEF OutlookInv
    <3> QED
      BY <1>0, <3>1, <3>2, <3>3 DEF Gone, MapRows
  <2> QED
    BY <1>0, <2>1 DEF Justified, O!Booked, Spared
<1>8. Reading'
  BY <1>0 DEF Reading
<1> QED
  BY <1>1, <1>5, <1>6, <1>7, <1>8

LEMMA EventKeeps ==
    ASSUME OutlookInv, NEW o \in job.todo, NEW r \in OutlookRows, NEW e \in OutlookEvents,
           WritesEvent(o, r, e)
    PROVE  OutlookInv'
BY EventKeepsBasis, EventKeepsFamilies, EventKeepsNotes DEF OutlookInv

-----------------------------------------------------------------------------
(* A mapping ends *)

PartsView(o, r, e) ==
    /\ OpView(o, r, e) /\ o.r = r /\ o.e = e /\ OpMeant(o)
    /\ Now(r) = resv[r] /\ ~O!Written(r) /\ Made(resv[r]) /\ Whole(resv[r])
    /\ Link(r).event = e /\ rows[r].event = e /\ Link(r)'.event = None
    /\ resv[r].origin = events[e].origin
    /\ Made(events[e]) /\ Made(events[e])' /\ (O!There(e)' => O!There(e)) /\ (Gone(e) => Gone(e)')
    /\ events'[e].time = events[e].time /\ events'[e].origin = events[e].origin
    /\ \A d \in OutlookEvents : d \in fresh => d \in fresh'
    /\ \A s \in OutlookRows : s # r => Link(s).event # e /\ rows[s].event # e
    /\ Made(Now(r)') /\ Whole(job'.draft[r])
    /\ Now(r)'.time = resv[r].time /\ Now(r)'.origin = resv[r].origin
    /\ \/ /\ o.act = "delete in Respa" /\ Now(r)'.state = "cancelled" /\ O!Written(r)'
          /\ Now(r)' = job'.draft[r] /\ events' = events
       \/ /\ o.act = "delete in calendar" /\ Now(r)' = Now(r) /\ ~O!Written(r)' /\ ~O!There(e)'
       \/ /\ o.act = "remove mapping" /\ Now(r)' = Now(r) /\ ~O!Written(r)' /\ events' = events

LEMMA PartsSeen ==
    ASSUME OutlookInv, NEW o \in job.todo, NEW r \in OutlookRows, NEW e \in OutlookEvents,
           Parts(o, r, e)
    PROVE  PartsView(o, r, e)
<1>1. OpView(o, r, e)
  BY OpSeen DEF OutlookInv, Parts
<1>2. OpFits(o) /\ OpMeant(o) /\ Mappings
  BY DEF OutlookInv, Todo
<1>3. /\ o.r = r /\ o.e = e /\ e # None /\ r # None /\ job'.rows[r] = O!NoRow
      /\ events'[e].time = events[e].time /\ events'[e].origin = events[e].origin
  BY OutlookConstants DEF Parts
<1>4. Link(r).event = e /\ rows[r].event = e /\ ~O!Written(r) /\ Made(resv[r])
  BY <1>2, <1>3 DEF OpFits
<1>5. /\ Now(r) = resv[r] /\ Whole(resv[r]) /\ Link(r)' = O!NoRow
      /\ job'.draft[r] = job.draft[r] => Now(r)' = Now(r) /\ ~O!Written(r)' /\ Whole(job'.draft[r])
      /\ Made(job'.draft[r]) => Now(r)' = job'.draft[r] /\ O!Written(r)'
  BY <1>1, <1>3, <1>4, Views DEF OpView, Now, OutlookInv, Basis, Wholeness
<1>6. Link(r)'.event = None
  BY <1>5, NoRows
<1>7. Made(events[e]) /\ resv[r].origin = events[e].origin
  BY <1>2, <1>3, <1>4 DEF Mappings, MapFits
<1>8. \A s \in OutlookRows : s # r => Link(s).event # e /\ rows[s].event # e
  BY <1>2, <1>3, <1>4 DEF Mappings
<1>9. \A d \in OutlookEvents : d \in fresh => d \in fresh'
  BY DEF Parts, Operates
<1>10. CASE o.act = "delete in Respa"
  <2>1. events' = events /\ job'.draft[r] = [state |-> "cancelled", time |-> resv[r].time,
                                             origin |-> resv[r].origin]
    BY <1>10 DEF Parts
  <2>2. /\ job'.draft[r].state = "cancelled" /\ job'.draft[r].time = resv[r].time
        /\ job'.draft[r].origin = resv[r].origin
    BY <2>1
  <2>3. Made(job'.draft[r]) /\ Whole(job'.draft[r])
    BY <1>4, <1>5, <2>2 DEF Made, Whole
  <2>4. Now(r)' = job'.draft[r] /\ O!Written(r)'
    BY <1>5, <2>3
  <2>5. /\ Now(r)'.state = "cancelled" /\ Now(r)'.time = resv[r].time
        /\ Now(r)'.origin = resv[r].origin /\ Made(Now(r)')
    BY <2>2, <2>3, <2>4
  <2>6. Made(events[e])' /\ (O!There(e)' => O!There(e)) /\ (Gone(e) => Gone(e)')
    BY <1>7, <2>1 DEF Made, O!There, Gone
  <2> QED
    BY <1>1, <1>2, <1>3, <1>4, <1>5, <1>6, <1>7, <1>8, <1>9, <1>10, <2>1, <2>3, <2>4, <2>5, <2>6
       DEF PartsView
<1>11. CASE o.act = "delete in calendar"
  <2>1. job'.draft[r] = job.draft[r] /\ events'[e].state = IF O!There(e) THEN "gone" ELSE events[e].state
    BY <1>11 DEF Parts
  <2>2. Made(events[e])' /\ ~O!There(e)' /\ (Gone(e) => Gone(e)')
    BY <1>7, <2>1 DEF Made, O!There, Gone
  <2>3. /\ Now(r)' = resv[r] /\ ~O!Written(r)' /\ Whole(job'.draft[r]) /\ Now(r)' = Now(r)
    BY <1>5, <2>1
  <2>4. Made(Now(r)') /\ Now(r)'.time = resv[r].time /\ Now(r)'.origin = resv[r].origin
    BY <1>4, <2>3
  <2> QED
    BY <1>1, <1>2, <1>3, <1>4, <1>5, <1>6, <1>7, <1>8, <1>9, <1>11, <2>2, <2>3, <2>4 DEF PartsView
<1>12. CASE o.act = "remove mapping"
  <2>1. job'.draft[r] = job.draft[r] /\ events' = events
    BY <1>12 DEF Parts
  <2>2. Made(events[e])' /\ (O!There(e)' => O!There(e)) /\ (Gone(e) => Gone(e)')
    BY <1>7, <2>1 DEF Made, O!There, Gone
  <2>3. /\ Now(r)' = resv[r] /\ ~O!Written(r)' /\ Whole(job'.draft[r]) /\ Now(r)' = Now(r)
    BY <1>5, <2>1
  <2>4. Made(Now(r)') /\ Now(r)'.time = resv[r].time /\ Now(r)'.origin = resv[r].origin
    BY <1>4, <2>3
  <2> QED
    BY <1>1, <1>2, <1>3, <1>4, <1>5, <1>6, <1>7, <1>8, <1>9, <1>12, <2>1, <2>2, <2>3, <2>4
       DEF PartsView
<1> QED
  BY <1>10, <1>11, <1>12 DEF Parts

\* What both sides know each other by stays, and nothing comes back
LEMMA PartsKin ==
    ASSUME OutlookInv, NEW o \in job.todo, NEW r \in OutlookRows, NEW e \in OutlookEvents,
           PartsView(o, r, e)
    PROVE  /\ \A s \in OutlookRows : /\ Made(Now(s))' => Made(Now(s))
                                     /\ Now(s)'.origin = Now(s).origin
                                     /\ Now(s)'.time = Now(s).time
           /\ \A d \in OutlookEvents :
                 /\ Made(events[d])' <=> Made(events[d])
                 /\ O!There(d)' => O!There(d)
                 /\ Gone(d) => Gone(d)'
                 /\ events'[d].time = events[d].time /\ events'[d].origin = events[d].origin
           /\ \A s \in OutlookRows, d \in OutlookEvents :
                 /\ Akin(Now(s), d)' => Akin(Now(s), d)
                 /\ Akin(resv[s], d)' => Akin(resv[s], d)
           /\ ~Live(e)'
<1>0. /\ phase' = phase /\ resv' = resv /\ rows' = rows /\ hit' = hit
      /\ \A s \in OutlookRows : s # r => Now(s)' = Now(s)
      /\ \A d \in OutlookEvents : d # e => events'[d] = events[d]
  BY DEF PartsView, OpView
<1>1. ASSUME NEW s \in OutlookRows
      PROVE  /\ Made(Now(s))' => Made(Now(s))
             /\ Now(s)'.origin = Now(s).origin /\ Now(s)'.time = Now(s).time
  <2>1. CASE s = r
    BY <2>1 DEF PartsView
  <2>2. CASE s # r
    BY <1>0, <2>2 DEF Made
  <2> QED
    BY <2>1, <2>2
<1>2. ASSUME NEW d \in OutlookEvents
      PROVE  /\ Made(events[d])' <=> Made(events[d])
             /\ O!There(d)' => O!There(d)
             /\ Gone(d) => Gone(d)'
             /\ events'[d].time = events[d].time /\ events'[d].origin = events[d].origin
  <2>1. CASE d = e
    BY <2>1 DEF PartsView
  <2>2. CASE d # e
    BY <1>0, <2>2 DEF Made, O!There, Gone
  <2> QED
    BY <2>1, <2>2
<1>3. ASSUME NEW s \in OutlookRows, NEW d \in OutlookEvents
      PROVE  /\ Akin(Now(s), d)' => Akin(Now(s), d)
             /\ Akin(resv[s], d)' => Akin(resv[s], d)
  <2>1. Akin(Now(s), d)' => Akin(Now(s), d)
    BY <1>0, <1>1, <1>2 DEF Akin, Spared
  <2>2. Akin(resv[s], d)' => Akin(resv[s], d)
    BY <1>0, <1>2 DEF Akin, Spared, Made
  <2> QED
    BY <2>1, <2>2
<1>4. ASSUME Live(e)' PROVE FALSE
  <2>1. O!There(e)' /\ O!There(e) /\ Spared(events[e]) /\ Lasting(events[e])
    BY <1>0, <1>2, <1>4 DEF Live, Spared, Lasting
  <2>2. Spared(resv[r]) /\ o.e = e /\ o.r = r /\ r # None /\ OpMeant(o)
    BY <2>1, OutlookConstants DEF PartsView, Spared
  <2>3. ~Gone(e)
    BY <2>1, Events DEF OutlookInv
  <2> QED
    BY <2>1, <2>2, <2>3 DEF PartsView, OpMeant
<1> QED
  BY <1>1, <1>2, <1>3, <1>4

LEMMA PartsKeepsBasis ==
    ASSUME OutlookInv, NEW o \in job.todo, NEW r \in OutlookRows, NEW e \in OutlookEvents,
           Parts(o, r, e)
    PROVE  Basis' /\ Origins' /\ Mappings'
<1>v. PartsView(o, r, e)
  BY PartsSeen
<1>0. /\ at = "ops" /\ at' = "ops" /\ phase' = phase /\ resv' = resv /\ rows' = rows
      /\ recent' = recent /\ queue' = queue /\ hit' = hit /\ job' \in Jobs
  BY <1>v DEF PartsView, OpView
<1>d. /\ \A s \in OutlookRows : s # r => job'.draft[s] = job.draft[s]
      /\ left' = left /\ fresh' \subseteq OutlookEvents
      /\ notices' = TRUE \/ notices' = notices
      /\ events' \in [OutlookEvents -> EventRows]
      /\ job'.readE = job.readE /\ job'.made = job.made
      /\ \A d \in OutlookEvents : d # e => (d \in fresh' <=> d \in fresh) /\ events'[d] = events[d]
  BY DEF Parts, Operates
<1>m. \A d \in OutlookEvents :
                 /\ Made(events[d])' <=> Made(events[d])
                 /\ events'[d].time = events[d].time /\ events'[d].origin = events[d].origin
  BY <1>v, PartsKin
<1>1. Basis'
  <2>2. OutlookTypes'
    BY <1>0, <1>d DEF OutlookInv, Basis, OutlookTypes
  <2>w. Whole(job'.draft[r]) /\ \A s \in OutlookRows : Whole(resv[s]) /\ Whole(job.draft[s])
    BY <1>v DEF OutlookInv, Basis, Wholeness, PartsView
  <2>3. ASSUME NEW s \in OutlookRows PROVE Whole(resv[s])' /\ Whole(job.draft[s])'
    <3>1. resv'[s] = resv[s] /\ (s # r => job'.draft[s] = job.draft[s])
      BY <1>0, <1>d
    <3> QED
      BY <2>w, <3>1 DEF Whole, Made
  <2>4. ASSUME NEW d \in OutlookEvents PROVE Whole(events[d])'
    <3>1. CASE d = e
      BY <1>m, <1>v, <3>1 DEF PartsView, Whole, OutlookInv, Basis, Wholeness
    <3>2. CASE d # e
      BY <1>d, <3>2 DEF Whole, Made, OutlookInv, Basis, Wholeness
    <3> QED
      BY <3>1, <3>2
  <2>5. job'.readE \subseteq OutlookEvents /\ job'.made \subseteq OutlookEvents
    BY <1>0 DEF Jobs
  <2>6. ASSUME NEW d \in fresh' \cup job'.readE \cup job'.made PROVE Made(events[d])'
    <3>1. d \in OutlookEvents
      BY <1>d, <2>5
    <3>2. d # e => d \in fresh \cup job.readE \cup job.made
      BY <1>d, <3>1
    <3>3. Made(events[e])
      BY <1>v DEF PartsView
    <3> QED
      BY <1>m, <3>1, <3>2, <3>3 DEF OutlookInv, Basis, Wholeness
  <2>7. Wholeness'
    BY <2>3, <2>4, <2>6 DEF Wholeness
  <2> QED
    BY <1>0, <2>2, <2>7 DEF Basis, Phases
<1>2. Origins'
  <2>1. \A x : Known(x) => Known(x)'
    BY <1>0, <1>m DEF Known, Made
  <2>2. ASSUME NEW s \in OutlookRows
        PROVE  /\ Made(resv[s])' => Known(resv[s].origin)'
               /\ O!Written(s)' => Known(job.draft[s].origin)'
               /\ O!Written(s)' /\ Made(resv[s])' => job'.draft[s].origin = resv'[s].origin
    <3>1. Made(resv[s])' => Known(resv[s].origin)'
      BY <1>0, <2>1 DEF OutlookInv, Origins, Made
    <3>2. CASE s = r
      <4>1. O!Written(r)' => job'.draft[r].origin = resv[r].origin /\ Made(resv[r])
        BY <1>v DEF PartsView
      <4>2. Made(resv[r])'
        BY <1>0, <1>v DEF PartsView, Made
      <4>3. Known(resv[r].origin)'
        BY <3>1, <3>2, <4>2
      <4> QED
        BY <1>0, <3>1, <3>2, <4>1, <4>3
    <3>3. CASE s # r
      <4>1. O!Written(s)' <=> O!Written(s)
        BY <1>v, <3>3 DEF PartsView, OpView
      <4> QED
        BY <1>0, <1>d, <2>1, <3>1, <3>3, <4>1 DEF OutlookInv, Origins, Made
    <3> QED
      BY <3>2, <3>3
  <2>3. \A d \in OutlookEvents : Made(events[d])' => Known(events[d].origin)'
    BY <1>m, <2>1 DEF OutlookInv, Origins
  <2> QED
    BY <2>2, <2>3 DEF Origins
<1>3. Mappings'
  <2>0. Mappings
    BY DEF OutlookInv
  <2>1. ASSUME NEW s \in OutlookRows PROVE MapFits(resv[s], rows[s])'
    <3>1. MapFits(resv[s], rows[s]) /\ rows[s] \in MapRows
      BY <2>0, Views DEF Mappings, OutlookInv
    <3> QED
      BY <1>0, <1>m, <3>1 DEF MapFits, Made, MapRows
  <2>2. ASSUME NEW s \in OutlookRows PROVE MapFits(Now(s), Link(s))'
    <3>1. MapFits(Now(s), Link(s)) /\ Link(s) \in MapRows
      BY <2>0, Views DEF Mappings, OutlookInv
    <3>2. CASE s = r
      BY <1>v, <3>2 DEF MapFits, PartsView
    <3>3. CASE s # r
      <4>2. Now(s)' = Now(s) /\ Link(s)' = Link(s)
        BY <1>v, <3>3 DEF PartsView, OpView
      <4> QED
        BY <1>m, <3>1, <4>2 DEF MapFits, Made, MapRows
    <3> QED
      BY <3>2, <3>3
  <2>3. ASSUME NEW s \in OutlookRows, NEW u \in OutlookRows
        PROVE  /\ (rows[s].event # None /\ rows[s].event = rows[u].event)' => s = u
               /\ (Link(s).event # None /\ Link(s).event = Link(u).event)' => s = u
    <3>1. Link(r)'.event = None /\ \A w \in OutlookRows : w # r => Link(w)' = Link(w)
      BY <1>v DEF PartsView, OpView
    <3>2. /\ rows[s].event # None /\ rows[s].event = rows[u].event => s = u
          /\ Link(s).event # None /\ Link(s).event = Link(u).event => s = u
      BY <2>0 DEF Mappings
    <3> QED
      BY <1>0, <3>1, <3>2
  <2> QED
    BY <1>0, <2>1, <2>2, <2>3 DEF Mappings
<1> QED
  BY <1>1, <1>2, <1>3

LEMMA PartsKeepsFamilies ==
    ASSUME OutlookInv, NEW o \in job.todo, NEW r \in OutlookRows, NEW e \in OutlookEvents,
           Parts(o, r, e)
    PROVE  OneRow' /\ OneEvent' /\ Paired' /\ PastAlike' /\ NotFar'
<1>v. PartsView(o, r, e)
  BY PartsSeen
<1>0. /\ phase' = phase /\ resv' = resv /\ rows' = rows /\ hit' = hit /\ job'.made = job.made
      /\ \A s \in OutlookRows : s # r => Link(s)' = Link(s)
      /\ Link(r).event = e
  BY <1>v DEF PartsView, OpView, Parts
<1>k. /\ \A s \in OutlookRows : /\ Made(Now(s))' => Made(Now(s))
                                /\ Now(s)'.origin = Now(s).origin
                                /\ Now(s)'.time = Now(s).time
      /\ \A d \in OutlookEvents :
                 /\ Made(events[d])' <=> Made(events[d])
                 /\ O!There(d)' => O!There(d)
                 /\ events'[d].time = events[d].time /\ events'[d].origin = events[d].origin
      /\ \A s \in OutlookRows, d \in OutlookEvents :
                 /\ Akin(Now(s), d)' => Akin(Now(s), d)
                 /\ Akin(resv[s], d)' => Akin(resv[s], d)
      /\ ~Live(e)'
  BY <1>v, PartsKin
<1>3. OneRow'
  BY <1>0, <1>k DEF OutlookInv, OneRow, Spared
<1>4. OneEvent'
  BY <1>0, <1>k DEF OutlookInv, OneEvent, Spared
<1>7. Paired'
  <2>1. ASSUME NEW s \in OutlookRows, NEW d \in OutlookEvents
        PROVE  /\ (Akin(Now(s), d) /\ Lasting(events[d]))' => Link(s)'.event = d
               /\ (Akin(resv[s], d) /\ Lasting(events[d]))' => rows'[s].event = d \/ d \in job'.made
    <3>1. Lasting(events[d])' <=> Lasting(events[d])
      BY <1>0, <1>k DEF Lasting
    <3>2. (Akin(resv[s], d) /\ Lasting(events[d]))' => rows'[s].event = d \/ d \in job'.made
      BY <1>0, <1>k, <3>1 DEF OutlookInv, Paired
    <3>3. (Akin(Now(s), d) /\ Lasting(events[d]))' => Link(s).event = d
      BY <1>0, <1>k, <3>1 DEF OutlookInv, Paired
    <3>4. (Akin(Now(s), d) /\ Lasting(events[d]))' => Live(d)'
      BY DEF Akin, Live, Spared
    <3>5. s = r => ~(Akin(Now(s), d) /\ Lasting(events[d]))'
      BY <1>0, <1>k, <3>3, <3>4
    <3> QED
      BY <1>0, <3>2, <3>3, <3>5
  <2> QED
    BY <2>1 DEF Paired
<1>8. PastAlike'
  <2>1. ASSUME NEW s \in OutlookRows, NEW d \in OutlookEvents
        PROVE  Alike(resv[s], d)' /\ Alike(Now(s), d)'
    <3>1. Alike(resv[s], d) /\ Alike(Now(s), d)
      BY DEF OutlookInv, PastAlike
    <3> QED
      BY <1>0, <1>k, <3>1 DEF Alike, Lasting
  <2> QED
    BY <2>1 DEF PastAlike
<1>9. NotFar'
  <2>1. ASSUME NEW s \in OutlookRows PROVE Close(resv[s])' /\ Close(Now(s))'
    BY <1>0, <1>k DEF OutlookInv, NotFar, Close, Made, Spared
  <2>2. ASSUME NEW d \in OutlookEvents PROVE Close(events[d])'
    BY <1>0, <1>k DEF OutlookInv, NotFar, Close, Made, Spared
  <2> QED
    BY <2>1, <2>2 DEF NotFar
<1> QED
  BY <1>3, <1>4, <1>7, <1>8, <1>9

LEMMA PartsKeepsNotes ==
    ASSUME OutlookInv, NEW o \in job.todo, NEW r \in OutlookRows, NEW e \in OutlookEvents,
           Parts(o, r, e)
    PROVE  Recorded' /\ Noted' /\ Todo' /\ Justified' /\ Reading'
<1>v. PartsView(o, r, e)
  BY PartsSeen
<1>0. /\ at = "ops" /\ at' = at /\ phase' = phase /\ resv' = resv /\ rows' = rows
      /\ recent' = recent /\ hit' = hit /\ queue' = queue
      /\ OpView(o, r, e) /\ job'.todo = job.todo \ {o} /\ o.r = r /\ o.e = e
      /\ \A s \in OutlookRows : s # r => Link(s).event # e /\ rows[s].event # e
      /\ OpMeant(o) /\ r # None /\ e # None /\ Link(r).event = e /\ rows[r].event = e
      /\ \A d \in OutlookEvents : d \in fresh => d \in fresh'
  BY <1>v, OutlookConstants DEF PartsView, OpView
<1>k. /\ \A d \in OutlookEvents :
                 /\ O!There(d)' => O!There(d)
                 /\ Gone(d) => Gone(d)'
                 /\ events'[d].time = events[d].time /\ events'[d].origin = events[d].origin
      /\ ~Live(e)'
  BY <1>v, PartsKin
<1>1. Recorded'
  <2>1. ASSUME NEW s \in OutlookRows
        PROVE  /\ InForce(resv[s])' => \/ s \in recent'
                                       \/ (rows'[s].event # None /\ rows'[s].key = resv'[s].time)
               /\ Dropped(resv[s])' /\ rows'[s].event # None /\ O!There(rows[s].event)' => s \in recent'
    <3>1. InForce(resv[s])' => \/ s \in recent'
                               \/ (rows'[s].event # None /\ rows'[s].key = resv'[s].time)
      BY <1>0 DEF OutlookInv, Recorded, InForce, Spared, Lasting
    <3>2. rows[s] \in MapRows
      BY Views DEF OutlookInv
    <3>3. rows[s].event # None /\ O!There(rows[s].event)' => O!There(rows[s].event)
      BY <1>0, <1>k, <3>2 DEF MapRows, O!There
    <3>4. Dropped(resv[s])' => Dropped(resv[s])
      BY <1>0 DEF Dropped, Spared, Lasting
    <3> QED
      BY <1>0, <3>1, <3>3, <3>4 DEF OutlookInv, Recorded
  <2>2. ASSUME NEW d \in OutlookEvents, Live(d)'
        PROVE  d \in fresh' \/ (\E s \in OutlookRows : rows'[s].event = d /\ rows'[s].key = events'[d].time)
    <3>1. Live(d)
      BY <1>0, <1>k, <2>2 DEF Live, Spared, Lasting
    <3> QED
      BY <1>0, <1>k, <3>1 DEF OutlookInv, Recorded
  <2> QED
    BY <2>1, <2>2 DEF Recorded
<1>o. /\ \A s \in OutlookRows : s # r => RowNoted(s)'
      /\ \A d \in OutlookEvents : d # e /\ d # o.e /\ d # Link(r).event => EventNoted(d)'
  <2>1. OpView(o, r, e) /\ o.r \in {r, None} /\ \A s \in OutlookRows : s # r => Link(s).event # e
    BY <1>0
  <2> QED
    BY <2>1, OthersKeepNotes
<1>3. ~InForce(Now(r))'
  <2>1. ASSUME InForce(Now(r))' PROVE FALSE
    <3>1. /\ Now(r)'.state = "booked" /\ Now(r)'.time = resv[r].time
          /\ Now(r)'.origin = resv[r].origin
      BY <1>v, <2>1 DEF PartsView, InForce
    <3>2. Spared(resv[r]) /\ Lasting(resv[r])
      BY <1>0, <2>1, <3>1 DEF InForce, Spared, Lasting
    <3>3. Now(r)' = resv[r] /\ o.act # "delete in Respa"
      BY <1>v, <3>1 DEF PartsView
    <3>4. O!Booked(r)
      BY <3>1, <3>3 DEF O!Booked
    <3> QED
      BY <1>0, <1>v, <3>2, <3>3, <3>4 DEF PartsView, OpMeant
  <2> QED
    BY <2>1
<1>5. Noted'
  <2>1. RowNoted(r)'
    <3>1. Link(r)'.event = None
      BY <1>v DEF PartsView
    <3> QED
      BY <1>3, <3>1 DEF RowNoted
  <2>2. ASSUME NEW d \in OutlookEvents PROVE EventNoted(d)'
    <3>1. CASE d = e
      BY <1>k, <3>1 DEF EventNoted
    <3>2. CASE d # e
      BY <1>0, <1>o, <3>2
    <3> QED
      BY <3>1, <3>2
  <2> QED
    BY <1>o, <2>1, <2>2 DEF Noted
<1>6. Todo'
  <2>1. ASSUME NEW p \in job.todo, p # o
        PROVE  p.r # r /\ p.e # e /\ (p.act = "create in Respa" => job'.rows[r].event # p.e)
    <3>1. p.r # r /\ p.e # e /\ p \in Operations
      BY <1>0, <2>1, OpsApart
    <3>2. job'.rows[r].event = None
      BY <1>v DEF PartsView, OpView
    <3>3. p.act = "create in Respa" => p.e \in OutlookEvents
      BY <3>1 DEF Operations
    <3> QED
      BY <3>1, <3>2, <3>3, OutlookConstants
  <2>2. \A p \in job.todo : p # o => p.r # r /\ p.e # e /\
              (p.act = "create in Respa" => job'.rows[r].event # p.e)
    BY <2>1
  <2>3. OpView(o, r, e)
    BY <1>0
  <2> QED
    BY <2>2, <2>3, OthersKeepTodo
<1>7. Justified'
  <2>1. ASSUME NEW s \in OutlookRows, O!Written(s)', job'.draft[s].state = "cancelled",
               O!Booked(s), Spared(resv[s])
        PROVE  rows[s].event # None /\ Gone(rows[s].event)'
    <3>1. CASE s = r
      <4>1. o.act = "delete in Respa"
        BY <1>v, <2>1, <3>1 DEF PartsView
      <4>2. Gone(e)
        BY <1>0, <2>1, <3>1, <4>1 DEF OpMeant
      <4> QED
        BY <1>0, <1>k, <3>1, <4>2
    <3>2. CASE s # r
      <4>1. O!Written(s) /\ job'.draft[s] = job.draft[s]
        BY <1>v, <2>1, <3>2 DEF PartsView, OpView, Parts, Operates
      <4>2. rows[s].event # None /\ Gone(rows[s].event)
        BY <2>1, <4>1 DEF OutlookInv, Justified
      <4>3. rows[s] \in MapRows
        BY Views DEF OutlookInv
      <4> QED
        BY <1>0, <1>k, <4>2, <4>3 DEF MapRows
    <3> QED
      BY <3>1, <3>2
  <2>2. rows' = rows /\ resv' = resv /\ hit' = hit
    BY <1>0
  <2>3. ASSUME NEW s \in OutlookRows
        PROVE  (O!Written(s) /\ job.draft[s].state = "cancelled" /\ O!Booked(s) /\ Spared(resv[s]) =>
                  rows[s].event # None /\ Gone(rows[s].event))'
    <3>1. (O!Booked(s)' <=> O!Booked(s)) /\ (Spared(resv[s])' <=> Spared(resv[s]))
      BY <2>2 DEF O!Booked, Spared
    <3>2. rows'[s] = rows[s]
      BY <2>2
    <3> QED
      BY <2>1, <3>1, <3>2 DEF Gone
  <2> QED
    BY <2>3 DEF Justified
<1>8. Reading'
  BY <1>0 DEF Reading
<1> QED
  BY <1>1, <1>5, <1>6, <1>7, <1>8

LEMMA PartsKeeps ==
    ASSUME OutlookInv, NEW o \in job.todo, NEW r \in OutlookRows, NEW e \in OutlookEvents,
           Parts(o, r, e)
    PROVE  OutlookInv'
BY PartsKeepsBasis, PartsKeepsFamilies, PartsKeepsNotes DEF OutlookInv

-----------------------------------------------------------------------------
(* The process decides what to do *)

DecidesView ==
    /\ at = "plan" /\ at' = "ops" /\ job.listed \subseteq O!InCalendar
    /\ phase' = phase /\ resv' = resv /\ events' = events /\ rows' = rows
    /\ recent' = recent /\ fresh' = fresh /\ queue' = queue /\ notices' = notices
    /\ left' = left /\ hit' = hit
    /\ job'.made = {} /\ job.made = {}
    /\ \A r \in OutlookRows :
          /\ Now(r) = resv[r] /\ Now(r)' = Now(r) /\ ~O!Written(r) /\ ~O!Written(r)'
          /\ Unread(r)' <=> Unread(r)
          /\ Link(r) = job.rows[r] /\ Link(r)'.event = Link(r).event /\ Link(r).event = rows[r].event
          /\ Link(r)'.key = IF Other(r) THEN resv[r].time ELSE job.rows[r].key
          /\ Link(r)' \in MapRows
    /\ \A e \in OutlookEvents : Unseen(e)' <=> Unseen(e)

LEMMA DecidesSeen ==
    ASSUME OutlookInv, Decides
    PROVE  DecidesView
<1>0. /\ at = "plan" /\ at' = "ops" /\ job.listed \subseteq O!InCalendar
      /\ phase' = phase /\ resv' = resv /\ events' = events /\ rows' = rows
      /\ recent' = recent /\ fresh' = fresh /\ queue' = queue /\ notices' = notices
      /\ left' = left /\ hit' = hit
      /\ job'.draft = job.draft /\ job'.made = job.made
      /\ job'.readR = job.readR /\ job'.readE = job.readE
  BY DEF Decides
<1>1. job.made = {}
  BY <1>0 DEF OutlookInv, Basis, Phases
<1>2. ASSUME NEW r \in OutlookRows
      PROVE  /\ Now(r) = resv[r] /\ Now(r)' = Now(r) /\ ~O!Written(r) /\ ~O!Written(r)'
             /\ Unread(r)' <=> Unread(r)
             /\ Link(r) = job.rows[r] /\ Link(r).event = rows[r].event
  <2>1. ~O!Written(r) /\ Now(r) = resv[r] /\ Link(r) = job.rows[r]
    BY <1>0, Views DEF OutlookInv
  <2>2. (O!Written(r)' <=> O!Written(r)) /\ (Unread(r)' <=> Unread(r))
    BY <1>0 DEF O!Written, Unread, O!Unread
  <2>3. Now(r)' = resv[r]
    BY <1>0, <2>1, <2>2 DEF Now
  <2>4. Link(r).event = rows[r].event
    BY <1>0 DEF OutlookInv, Mappings
  <2> QED
    BY <2>1, <2>2, <2>3, <2>4
<1>3. ASSUME NEW r \in OutlookRows
      PROVE  /\ Link(r)'.event = Link(r).event /\ Link(r)' \in MapRows
             /\ Link(r)'.key = IF Other(r) THEN resv[r].time ELSE job.rows[r].key
  <2>1. job'.rows[r] = IF Other(r) THEN O!Reread(job.rows[r], r) ELSE job.rows[r]
    BY DEF Decides
  <2>2. Link(r)' = job'.rows[r]
    BY <1>0 DEF Link
  <2>3. job.rows[r] \in MapRows /\ resv[r].time \in Time \cup {None}
    BY Views DEF OutlookInv, ResvRows
  <2>4. /\ O!Reread(job.rows[r], r).event = job.rows[r].event
        /\ O!Reread(job.rows[r], r).key = resv[r].time
        /\ O!Reread(job.rows[r], r) \in MapRows
    BY <2>3 DEF O!Reread, MapRows
  <2> QED
    BY <1>2, <2>1, <2>2, <2>3, <2>4
<1>4. \A e \in OutlookEvents : Unseen(e)' <=> Unseen(e)
  BY <1>0 DEF Unseen
<1> QED
  BY <1>0, <1>1, <1>2, <1>3, <1>4 DEF DecidesView

\* What is known of the two sides of a mapping
LEMMA SidesKnown ==
    ASSUME OutlookInv, at = "plan", NEW r \in OutlookRows, NEW e \in OutlookEvents,
           job.rows[r].event = e
    PROVE  /\ RemoteType(e) \in {"deleted", "expired"} => job.remote[e] = RemoteType(e)
           /\ job.remote[e] # "absent" => RemoteType(e) = job.remote[e]
           /\ RemoteType(e) = "no change" => job.remote[e] = "absent"
           /\ RowType(r) # "absent" \/ RemoteType(e) # "absent" =>
                RowType(r) # "absent" /\ RemoteType(e) # "absent"
           /\ Made(resv[r]) /\ Made(events[e]) /\ resv[r].origin = events[e].origin
           /\ rows[r].event = e
<1>1. \A s \in OutlookRows : job.rows[s].event = e => s = r
  BY OutlookConstants DEF OutlookInv, Mappings, Link
<1>2. rows[r].event = e
  BY DEF OutlookInv, Mappings, Link
<1>3. Made(resv[r]) /\ Made(events[e]) /\ resv[r].origin = events[e].origin
  BY <1>2, OutlookConstants DEF OutlookInv, Mappings, MapFits
<1>4. /\ RemoteType(e) \in {"deleted", "expired"} => job.remote[e] = RemoteType(e)
      /\ job.remote[e] # "absent" => RemoteType(e) = job.remote[e]
      /\ RemoteType(e) = "no change" => job.remote[e] = "absent"
  <2>1. job.remote[e] # "no change"
    BY DEF OutlookInv, Basis, OutlookTypes, Jobs
  <2>2. \A s \in OutlookRows : Asked(s) /\ job.rows[s].event = e => job.remote[e] = "absent"
    BY DEF Asked
  <2> QED
    BY <2>1, <2>2 DEF RemoteType
<1>5. RowType(r) # "absent" \/ RemoteType(e) # "absent" =>
                RowType(r) # "absent" /\ RemoteType(e) # "absent"
  BY PairTypes, OutlookConstants DEF OutlookInv
<1> QED
  BY <1>2, <1>3, <1>4, <1>5

\* What is known of a reservation that time has not passed over
LEMMA RowsKnown ==
    ASSUME OutlookInv, at = "plan", NEW r \in OutlookRows, Made(resv[r]), Spared(resv[r])
    PROVE  /\ job.respa[r] # "absent" =>
                /\ Lasting(resv[r]) /\ r \in recent
                /\ job.rows[r].key = resv[r].time \/ Unread(r)
           /\ RowType(r) = "deleted" => ~O!Booked(r)
           /\ RowType(r) = "changed" => O!Booked(r) \/ Unread(r)
           /\ RowType(r) = "no change" /\ job.rows[r].event = None => O!Booked(r) \/ Unread(r)
           /\ Lasting(resv[r]) /\ r \in recent =>
                \/ Unread(r)
                \/ /\ RowType(r) = O!RespaType(rows[r], r) /\ RowType(r) = job.respa[r]
                   /\ job.rows[r].key = resv[r].time
           /\ ~Other(r) => RowType(r) = job.respa[r]
           /\ Other(r) => job.respa[r] = "absent" /\ RowType(r) = O!RespaType(job.rows[r], r)
<1>1. RowRead(r)
  BY DEF OutlookInv, Reading
<1>2. resv[r].state \in {"booked", "cancelled"}
  BY Views DEF OutlookInv, ResvRows, Made
<1>3. \A m : /\ O!RespaType(m, r) # "absent"
             /\ O!RespaType(m, r) = "deleted" => ~O!Booked(r)
             /\ O!RespaType(m, r) = "changed" => O!Booked(r)
             /\ r \in recent /\ O!RespaType(m, r) = "no change" => O!Booked(r)
  BY <1>2 DEF O!RespaType, O!Booked
<1>4. r \in recent => r \in job.readR \/ r \in O!Unread
  BY DEF O!Unread
<1>5. /\ ~Other(r) => RowType(r) = job.respa[r]
      /\ Other(r) => /\ job.respa[r] = "absent" /\ RowType(r) = O!RespaType(job.rows[r], r)
                     /\ job.rows[r].event # None
  BY DEF RowType, Other
<1>6. job.respa[r] # "absent" => /\ Lasting(resv[r]) /\ r \in recent
  BY <1>1 DEF RowRead
<1>7. Lasting(resv[r]) => /\ r \in job.readR => /\ job.respa[r] = O!RespaType(rows[r], r)
                                                /\ job.rows[r].key = resv[r].time
                          /\ r \in O!Unread => Unread(r)
  BY <1>1 DEF RowRead, Unread
<1>8. job.respa[r] = "deleted" => ~O!Booked(r)
  BY <1>1 DEF RowRead
<1>9. job.respa[r] # "absent" => \/ Unread(r)
                                 \/ /\ job.respa[r] = O!RespaType(rows[r], r) /\ r \in recent
                                    /\ job.rows[r].key = resv[r].time
  BY <1>4, <1>6, <1>7
<1>10. /\ RowType(r) = "deleted" => ~O!Booked(r)
       /\ RowType(r) = "changed" => O!Booked(r) \/ Unread(r)
       /\ RowType(r) = "no change" /\ job.rows[r].event = None => O!Booked(r) \/ Unread(r)
  <2>1. CASE Other(r)
    BY <1>3, <1>5, <2>1
  <2>2. CASE ~Other(r)
    BY <1>3, <1>5, <1>8, <1>9, <2>2
  <2> QED
    BY <2>1, <2>2
<1>11. Lasting(resv[r]) /\ r \in recent =>
                \/ Unread(r)
                \/ /\ RowType(r) = O!RespaType(rows[r], r) /\ RowType(r) = job.respa[r]
                   /\ job.rows[r].key = resv[r].time
  BY <1>3, <1>4, <1>5, <1>7
<1> QED
  BY <1>5, <1>6, <1>9, <1>10, <1>11

\* What is known of the event of such a reservation
LEMMA EventsKnown ==
    ASSUME OutlookInv, at = "plan", job.listed \subseteq O!InCalendar,
           NEW r \in OutlookRows, NEW e \in OutlookEvents,
           job.rows[r].event = e, Spared(resv[r])
    PROVE  /\ RemoteType(e) = "deleted" => Gone(e) /\ Lasting(resv[r])
           /\ RemoteType(e) = "expired" =>
                ~Lasting(resv[r]) /\ (Gone(e) \/ ~Lasting(events[e]))
           /\ Lasting(resv[r]) => O!There(e) \/ job.remote[e] = "deleted"
           /\ O!There(e) => Spared(events[e])
<1>1. /\ Made(resv[r]) /\ Made(events[e]) /\ resv[r].origin = events[e].origin
      /\ rows[r].event = e /\ e # None
      /\ RemoteType(e) \in {"deleted", "expired"} => job.remote[e] = RemoteType(e)
  BY SidesKnown, OutlookConstants
<1>2. RowRead(r)
  BY DEF OutlookInv, Reading
<1>3. /\ job.remote[e] = "deleted" => Gone(e) /\ Lasting(resv[r])
      /\ job.remote[e] = "expired" => ~Lasting(resv[r])
      /\ Lasting(resv[r]) => e \in job.listed \/ job.remote[e] = "deleted"
  BY <1>1, <1>2 DEF RowRead
<1>4. e \in job.listed => O!There(e)
  BY DEF O!InCalendar
<1>5. ~Lasting(resv[r]) => Gone(e) \/ ~Lasting(events[e])
  <2> SUFFICES ASSUME ~Lasting(resv[r]), ~Gone(e) PROVE ~Lasting(events[e])
    OBVIOUS
  <2>1. O!There(e)
    BY <1>1, Events DEF OutlookInv
  <2>2. Akin(resv[r], e)
    BY <1>1, <2>1 DEF Akin
  <2>3. resv[r].time = events[e].time
    BY <2>2 DEF OutlookInv, PastAlike, Alike
  <2> QED
    BY <2>3 DEF Lasting
<1> QED
  BY <1>1, <1>3, <1>4, <1>5 DEF Spared

LEMMA DecidesKeepsBasis ==
    ASSUME OutlookInv, Decides
    PROVE  Basis' /\ Origins' /\ Mappings'
<1>v. DecidesView
  BY DecidesSeen
<1>0. /\ at = "plan" /\ at' = "ops" /\ phase' = phase /\ resv' = resv /\ events' = events
      /\ rows' = rows /\ recent' = recent /\ fresh' = fresh /\ queue' = queue
      /\ notices' = notices /\ left' = left /\ hit' = hit
  BY <1>v DEF DecidesView
<1>1. Basis'
  <2>1. job'.todo \subseteq Operations
    <3>1. ASSUME NEW o \in job'.todo PROVE o \in Operations
      <4>1. PICK r \in OutlookRows \cup {None}, e \in OutlookEvents \cup {None} :
              Pair(r, e) /\ ActionOf(r, e) # "none" /\ o = [act |-> ActionOf(r, e), r |-> r, e |-> e]
        BY DEF Decides
      <4> QED
        BY <1>0, <4>1, PlannedType DEF OutlookInv
    <3> QED
      BY <3>1
  <2>2. job'.rows \in [OutlookRows -> MapRows]
    <3>1. job'.rows = [r \in OutlookRows |-> IF Other(r) THEN O!Reread(job.rows[r], r) ELSE job.rows[r]]
      BY DEF Decides
    <3>2. ASSUME NEW r \in OutlookRows PROVE job'.rows[r] \in MapRows
      BY <1>0, <1>v DEF DecidesView, Link
    <3> QED
      BY <3>1, <3>2
  <2>3. job' \in Jobs
    <3>1. /\ job'.draft = job.draft /\ job'.made = job.made
          /\ job'.readR = job.readR /\ job'.readE = job.readE
          /\ job'.respa = O!Idle.respa /\ job'.remote = O!Idle.remote /\ job'.listed = {}
          /\ job' = [respa |-> job'.respa, remote |-> job'.remote, listed |-> job'.listed,
               rows |-> job'.rows, readR |-> job'.readR, readE |-> job'.readE,
               todo |-> job'.todo, draft |-> job'.draft, made |-> job'.made]
      BY DEF Decides
    <3>2. job \in Jobs /\ O!Idle \in Jobs
      BY IdleJob DEF OutlookInv, Basis, OutlookTypes
    <3>3. /\ job'.draft \in [OutlookRows -> ResvRows] /\ job'.made \subseteq OutlookEvents
          /\ job'.readR \subseteq OutlookRows /\ job'.readE \subseteq OutlookEvents
          /\ job'.respa \in [OutlookRows -> O!ChangeType \ {"expired"}]
          /\ job'.remote \in [OutlookEvents -> O!ChangeType \ {"no change"}]
          /\ job'.listed \subseteq OutlookEvents
      BY <3>1, <3>2 DEF Jobs
    <3> QED
      BY <2>1, <2>2, <3>1, <3>3 DEF Jobs
  <2>4. OutlookTypes'
    BY <1>0, <2>3 DEF OutlookInv, Basis, OutlookTypes
  <2>5. Wholeness'
    <3>1. job'.draft = job.draft /\ job'.readE = job.readE /\ job'.made = job.made
      BY DEF Decides
    <3> QED
      BY <1>0, <3>1 DEF OutlookInv, Basis, Wholeness, Whole, Made
  <2> QED
    BY <1>0, <2>4, <2>5 DEF Basis, Phases
<1>w. \A r \in OutlookRows : ~O!Written(r)' /\ Now(r) = resv[r] /\ Now(r)' = Now(r)
                             /\ Link(r)'.event = Link(r).event
  BY <1>v DEF DecidesView
<1>2. Origins'
  BY <1>0, <1>w DEF OutlookInv, Origins, Known, Made
<1>3. Mappings'
  BY <1>0, <1>w DEF OutlookInv, Mappings, MapFits, Made
<1> QED
  BY <1>1, <1>2, <1>3

LEMMA DecidesKeepsFamilies ==
    ASSUME OutlookInv, Decides
    PROVE  OneRow' /\ OneEvent' /\ Paired' /\ PastAlike' /\ NotFar' /\ Recorded' /\ Justified' /\ Reading'
<1>v. DecidesView
  BY DecidesSeen
<1>0. /\ at = "plan" /\ at' = "ops" /\ phase' = phase /\ resv' = resv /\ events' = events
      /\ rows' = rows /\ recent' = recent /\ fresh' = fresh /\ hit' = hit
      /\ job'.made = {} /\ job.made = {}
      /\ \A r \in OutlookRows : ~O!Written(r)' /\ Now(r) = resv[r] /\ Now(r)' = Now(r)
                                /\ Link(r)'.event = Link(r).event
  BY <1>v DEF DecidesView
<1>1. OneRow' /\ OneEvent'
  BY <1>0 DEF OutlookInv, OneRow, OneEvent, Made, Spared, O!There
<1>2. ASSUME NEW r \in OutlookRows, NEW e \in OutlookEvents
      PROVE  /\ Akin(resv[r], e)' <=> Akin(resv[r], e)
             /\ Akin(Now(r), e)' <=> Akin(Now(r), e)
             /\ Lasting(events[e])' <=> Lasting(events[e])
             /\ Alike(resv[r], e)' /\ Alike(Now(r), e)'
  <2>1. Alike(resv[r], e) /\ Alike(Now(r), e)
    BY DEF OutlookInv, PastAlike
  <2> QED
    BY <1>0, <2>1 DEF Alike, Akin, Made, Spared, O!There, Lasting
<1>3. Paired'
  <2>1. ASSUME NEW r \in OutlookRows, NEW e \in OutlookEvents
        PROVE  /\ (Akin(Now(r), e) /\ Lasting(events[e]))' => Link(r)'.event = e
               /\ (Akin(resv[r], e) /\ Lasting(events[e]))' => rows'[r].event = e \/ e \in job'.made
    BY <1>0, <1>2 DEF OutlookInv, Paired
  <2> QED
    BY <2>1 DEF Paired
<1>4. PastAlike'
  BY <1>2 DEF PastAlike
<1>5. NotFar'
  BY <1>0 DEF OutlookInv, NotFar, Close, Made, Spared
<1>6. Recorded'
  BY <1>0 DEF OutlookInv, Recorded, InForce, Dropped, Live, Spared, Lasting, O!There
<1>7. Justified'
  BY <1>0 DEF Justified
<1>8. Reading'
  BY <1>0 DEF Reading
<1> QED
  BY <1>1, <1>3, <1>4, <1>5, <1>6, <1>7, <1>8

\* An operation on a mapping is the one its two sides call for
LEMMA OpDecided ==
    ASSUME OutlookInv, Decides, NEW o \in job'.todo
    PROVE  \E r \in OutlookRows \cup {None}, e \in OutlookEvents \cup {None} :
              /\ o.r = r /\ o.e = e /\ o.act = ActionOf(r, e) /\ o.act # "none" /\ Pair(r, e)
<1>1. PICK r \in OutlookRows \cup {None}, e \in OutlookEvents \cup {None} :
        Pair(r, e) /\ ActionOf(r, e) # "none" /\ o = [act |-> ActionOf(r, e), r |-> r, e |-> e]
  BY DEF Decides
<1>2. o.r = r /\ o.e = e /\ o.act = ActionOf(r, e)
  BY <1>1
<1> QED
  BY <1>1, <1>2

LEMMA DecidesKeepsTodo ==
    ASSUME OutlookInv, Decides
    PROVE  Todo'
<1>v. DecidesView
  BY DecidesSeen
<1>0. /\ at = "plan" /\ at' = "ops" /\ phase' = phase /\ resv' = resv /\ events' = events
      /\ rows' = rows /\ hit' = hit /\ job.listed \subseteq O!InCalendar
  BY <1>v DEF DecidesView
<1>w. \A r \in OutlookRows : /\ ~O!Written(r)' /\ Link(r)'.event = job.rows[r].event
                             /\ rows[r].event = job.rows[r].event
                             /\ Link(r)'.key = IF Other(r) THEN resv[r].time ELSE job.rows[r].key
                             /\ (Unread(r)' <=> Unread(r)) /\ job.rows[r] \in MapRows
  BY <1>v, Views DEF DecidesView, OutlookInv
<1>1. ASSUME NEW o \in job'.todo PROVE OpFits(o)' /\ OpMeant(o)'
  <2>1. PICK r \in OutlookRows \cup {None}, e \in OutlookEvents \cup {None} :
              /\ o.r = r /\ o.e = e /\ o.act = ActionOf(r, e) /\ o.act # "none" /\ Pair(r, e)
    BY <1>1, OpDecided
  <2> DEFINE rt == IF r = None THEN "absent" ELSE RowType(r)
             et == IF e = None THEN "absent" ELSE RemoteType(e)
  <2>2. /\ o.act = O!ActionFor(rt, et) /\ rt \in O!ChangeType \ {"expired"} /\ et \in O!ChangeType
    BY <2>1, RowTypes, RemoteTypes DEF ActionOf, OutlookInv, O!ChangeType
  <2>3. CASE r = None
    <3>1. e \in OutlookEvents /\ RemoteType(e) # "absent" /\ \A s \in OutlookRows : job.rows[s].event # e
      BY <2>1, <2>3, OutlookConstants DEF Pair
    <3>2. RemoteType(e) = job.remote[e]
      BY <3>1 DEF RemoteType
    <3>3. EventRead(e) /\ job.remote[e] \in O!ChangeType \ {"no change"}
      BY <1>0, <3>1 DEF OutlookInv, Reading, Basis, OutlookTypes, Jobs
    <3>4. \A s \in OutlookRows : rows[s].event # e
      BY <1>w, <3>1
    <3>5. job.remote[e] = "changed"
      BY <3>1, <3>2, <3>3, <3>4 DEF EventRead, O!ChangeType
    <3>6. O!There(e) /\ O!Near(events[e])
      BY <1>0, <3>3, <3>5 DEF EventRead, O!InCalendar
    <3>7. Made(events[e]) /\ Lasting(events[e])
      BY <3>6 DEF O!There, O!Near, Made, Lasting
    <3>8. OpFits(o)'
      BY <1>0, <1>w, <2>1, <2>3, <3>1, <3>7 DEF OpFits, Made, Lasting
    <3> QED
      BY <2>1, <2>3, <3>8 DEF OpMeant
  <2>4. CASE r # None
    <3>1. r \in OutlookRows /\ e = job.rows[r].event /\ rt = RowType(r)
      BY <2>1, <2>4 DEF Pair
    <3>2. e # None =>
             /\ RowType(r) # "absent" /\ RemoteType(e) # "absent"
             /\ Made(resv[r]) /\ Made(events[e]) /\ resv[r].origin = events[e].origin
             /\ (RemoteType(e) \in {"deleted", "expired"} => job.remote[e] = RemoteType(e))
      BY <1>0, <2>1, <2>4, <3>1, SidesKnown, OutlookConstants DEF Pair
    <3>3. rt # "absent" /\ (e = None => et = "absent" /\ ~Other(r))
      BY <2>1, <2>4, <3>1, <3>2, OutlookConstants DEF Pair, Other
    <3>4. Made(resv[r])
      <4>1. CASE e # None
        BY <3>2, <4>1
      <4>2. CASE e = None
        <5>1. job.respa[r] # "absent"
          BY <3>1, <3>3, <4>2 DEF RowType
        <5> QED
          BY <1>0, <3>1, <5>1 DEF OutlookInv, Reading
      <4> QED
        BY <4>1, <4>2
    <3> HIDE DEF rt, et
    <3>5. /\ o.act # "create in Respa"
          /\ o.act = "create in calendar" =>
               \/ rt \in {"no change", "changed"} /\ et = "absent"
               \/ rt = "changed" /\ et = "deleted"
          /\ o.act = "delete in Respa" => et = "deleted"
          /\ o.act = "delete in calendar" => rt = "deleted"
          /\ o.act = "remove mapping" => et = "expired" \/ (rt = "deleted" /\ et = "deleted")
      BY <2>2, <3>3, ActionsFor
    <3>6. OpFits(o)'
      BY <1>0, <1>w, <2>1, <2>4, <3>1, <3>2, <3>4, <3>5 DEF OpFits, Made
    <3>7. ASSUME Spared(resv[r]) PROVE OpMeant(o)'
      <4>1. /\ job.respa[r] # "absent" =>
                 Lasting(resv[r]) /\ (job.rows[r].key = resv[r].time \/ Unread(r))
            /\ rt = "deleted" => ~O!Booked(r)
            /\ rt = "changed" => O!Booked(r) \/ Unread(r)
            /\ rt = "no change" /\ job.rows[r].event = None => O!Booked(r) \/ Unread(r)
            /\ ~Other(r) => rt = job.respa[r]
        BY <1>0, <3>1, <3>4, <3>7, RowsKnown
      <4>2. e # None =>
              /\ et = RemoteType(e)
              /\ RemoteType(e) = "deleted" => Gone(e) /\ Lasting(resv[r])
              /\ RemoteType(e) = "expired" =>
                   ~Lasting(resv[r]) /\ (Gone(e) \/ ~Lasting(events[e]))
        BY <1>0, <2>1, <3>1, <3>7, EventsKnown DEF et
      <4>3. Lasting(resv[r]) => Link(r)'.key = resv[r].time \/ Unread(r)
        BY <1>w, <3>1, <3>3, <4>1
      <4>4. e = None => et = "absent" /\ ~Other(r)
        BY <3>3
      <4>5. et = "absent" => e = None
        BY <3>2 DEF et
      <4>6. o.act = "create in calendar" =>
              /\ Lasting(resv[r]) /\ (O!Booked(r) \/ Unread(r))
              /\ e # None => Gone(e)
        BY <3>1, <3>3, <3>5, <4>1, <4>2, <4>4, <4>5
      <4>7. /\ o.act = "delete in Respa" => Gone(e)
            /\ o.act = "delete in calendar" => ~O!Booked(r)
            /\ o.act = "remove mapping" =>
                 (~O!Booked(r) \/ ~Lasting(resv[r])) /\ (Gone(e) \/ ~Lasting(events[e]))
        BY <3>5, <4>1, <4>2, <4>4
      <4>8. /\ (O!Booked(r)' <=> O!Booked(r)) /\ (Lasting(resv[r])' <=> Lasting(resv[r]))
            /\ (Gone(e)' <=> Gone(e)) /\ (Lasting(events[e])' <=> Lasting(events[e]))
            /\ resv'[r] = resv[r] /\ (Unread(r)' <=> Unread(r))
        BY <1>0, <1>w, <3>1 DEF O!Booked, Lasting, Gone
      <4> QED
        BY <2>1, <4>3, <4>6, <4>7, <4>8 DEF OpMeant
    <3>8. ASSUME ~Spared(resv[r]) PROVE OpMeant(o)'
      BY <1>0, <2>1, <3>8 DEF OpMeant, Spared
    <3> QED
      BY <3>6, <3>7, <3>8
  <2> QED
    BY <2>3, <2>4
<1>2. ASSUME NEW o \in job'.todo, NEW p \in job'.todo,
             (o.r # None /\ o.r = p.r) \/ (o.e # None /\ o.e = p.e)
      PROVE  o = p
  <2>1. PICK r \in OutlookRows \cup {None}, e \in OutlookEvents \cup {None} :
          Pair(r, e) /\ o = [act |-> ActionOf(r, e), r |-> r, e |-> e]
    BY DEF Decides
  <2>2. PICK s \in OutlookRows \cup {None}, d \in OutlookEvents \cup {None} :
          Pair(s, d) /\ p = [act |-> ActionOf(s, d), r |-> s, e |-> d]
    BY DEF Decides
  <2>3. (r # None /\ r = s) \/ (e # None /\ e = d)
    BY <1>2, <2>1, <2>2
  <2>4. \A u, w \in OutlookRows : job.rows[u].event # None /\ job.rows[u].event = job.rows[w].event => u = w
    BY <1>0 DEF OutlookInv, Mappings, Link
  <2>5. r = s /\ e = d
    BY <2>1, <2>2, <2>3, <2>4, OutlookConstants DEF Pair
  <2> QED
    BY <2>1, <2>2, <2>5
<1> QED
  BY <1>1, <1>2 DEF Todo

\* What differs is in hand now
LEMMA DecidesKeepsNotes ==
    ASSUME OutlookInv, Decides
    PROVE  Noted'
<1>v. DecidesView
  BY DecidesSeen
<1>0. /\ at = "plan" /\ at' = "ops" /\ phase' = phase /\ resv' = resv /\ events' = events
      /\ rows' = rows /\ hit' = hit /\ job.listed \subseteq O!InCalendar
      /\ recent' = recent /\ fresh' = fresh /\ queue' = queue /\ notices' = notices
  BY <1>v DEF DecidesView
<1>w. \A r \in OutlookRows : /\ Now(r)' = resv[r] /\ Link(r)'.event = job.rows[r].event
                             /\ rows[r].event = job.rows[r].event
                             /\ Link(r)'.key = IF Other(r) THEN resv[r].time ELSE job.rows[r].key
                             /\ (Unread(r)' <=> Unread(r)) /\ job.rows[r] \in MapRows
  BY <1>v, Views DEF DecidesView, OutlookInv
\* A pair whose types call for an operation has it
<1>p. ASSUME NEW r \in OutlookRows \cup {None}, NEW e \in OutlookEvents \cup {None},
             Pair(r, e), ActionOf(r, e) # "none"
      PROVE  \E o \in job'.todo : o.r = r /\ o.e = e /\ o.act = ActionOf(r, e)
  <2>1. [act |-> ActionOf(r, e), r |-> r, e |-> e] \in job'.todo
    BY <1>p DEF Decides
  <2> QED
    BY <2>1
<1>1. ASSUME NEW r \in OutlookRows PROVE RowNoted(r)'
  <2> DEFINE e == job.rows[r].event
  <2>0. e \in OutlookEvents \cup {None} /\ r # None /\ r \in OutlookRows \cup {None}
    BY <1>w, OutlookConstants DEF MapRows
  <2>1. RowType(r) \in O!ChangeType \ {"expired"}
    BY RowTypes DEF OutlookInv
  <2>2. ASSUME e # None, Made(resv[r]), RowType(r) # "absent" \/ RemoteType(e) # "absent"
        PROVE  /\ RowType(r) # "absent" /\ RemoteType(e) # "absent" /\ RemoteType(e) \in O!ChangeType
               /\ Pair(r, e) /\ ActionOf(r, e) = O!ActionFor(RowType(r), RemoteType(e))
               /\ (job.remote[e] # "absent" => RemoteType(e) = job.remote[e])
    <3>1. e \in OutlookEvents
      BY <2>0, <2>2
    <3>2. /\ RowType(r) # "absent" /\ RemoteType(e) # "absent"
          /\ (job.remote[e] # "absent" => RemoteType(e) = job.remote[e])
      BY <1>0, <2>2, <3>1, SidesKnown
    <3>3. RemoteType(e) \in O!ChangeType
      BY <3>1, RemoteTypes DEF OutlookInv
    <3>4. Pair(r, e) /\ ActionOf(r, e) = O!ActionFor(RowType(r), RemoteType(e))
      BY <2>0, <2>2, <3>2 DEF Pair, ActionOf
    <3> QED
      BY <3>2, <3>3, <3>4
  <2>3. ASSUME Made(resv[r]), Spared(resv[r]), Lasting(resv[r]), r \in recent
        PROVE  \/ Unread(r)
               \/ /\ RowType(r) = O!RespaType(rows[r], r) /\ RowType(r) = job.respa[r]
                  /\ job.rows[r].key = resv[r].time
    BY <1>0, <2>3, RowsKnown
  <2>4. ASSUME InForce(resv[r])
        PROVE  \/ Unread(r)
               \/ \E o \in job'.todo : o.r = r
               \/ (e # None /\ Link(r)'.key = resv[r].time)
    <3>1. Made(resv[r]) /\ Spared(resv[r]) /\ Lasting(resv[r]) /\ resv[r].state = "booked"
      BY <2>4 DEF InForce, Made
    <3>2. CASE r \in recent
      <4>1. CASE Unread(r)
        BY <4>1
      <4>2. CASE /\ RowType(r) = O!RespaType(rows[r], r) /\ RowType(r) = job.respa[r]
                 /\ job.rows[r].key = resv[r].time
        <5>1. CASE e # None
          <6>1. Link(r)'.key = resv[r].time
            BY <1>w, <4>2
          <6> QED
            BY <5>1, <6>1
        <5>2. CASE e = None
          <6>1. rows[r].event = None
            BY <1>w, <5>2
          <6>2. RowType(r) = "changed"
            BY <3>1, <3>2, <4>2, <6>1 DEF O!RespaType, O!Seen
          <6>3. Pair(r, None) /\ ActionOf(r, None) = O!ActionFor("changed", "absent")
            BY <2>0, <5>2, <6>2 DEF Pair, ActionOf
          <6>4. O!ActionFor("changed", "absent") # "none"
            BY DEF O!ActionFor
          <6> QED
            BY <1>p, <2>0, <6>3, <6>4
        <5> QED
          BY <5>1, <5>2
      <4> QED
        BY <2>3, <3>1, <3>2, <4>1, <4>2
    <3>3. CASE r \notin recent
      <4>1. rows[r].event # None /\ rows[r].key = resv[r].time
        BY <2>4, <3>3 DEF OutlookInv, Recorded
      <4>2. job.respa[r] = "absent"
        BY <1>0, <3>1, <3>3, RowsKnown
      <4>3. job.rows[r] = rows[r]
        BY <1>0, <4>2 DEF OutlookInv, Reading
      <4>4. Link(r)'.key = resv[r].time
        BY <1>w, <4>1, <4>3
      <4> QED
        BY <4>1, <4>3, <4>4
    <3> QED
      BY <3>2, <3>3
  <2>5. ASSUME Dropped(resv[r]), e # None, O!There(e)
        PROVE  Unread(r) \/ \E o \in job'.todo : o.r = r /\ o.act = "delete in calendar"
    <3>1. Made(resv[r]) /\ Spared(resv[r]) /\ Lasting(resv[r]) /\ resv[r].state = "cancelled"
      BY <2>5 DEF Dropped, Made
    <3>2. r \in recent
      BY <1>w, <2>5 DEF OutlookInv, Recorded
    <3>3. CASE RowType(r) = O!RespaType(rows[r], r)
      <4>1. RowType(r) = "deleted"
        BY <3>1, <3>2, <3>3 DEF O!RespaType
      <4>2. /\ RemoteType(e) # "absent" /\ RemoteType(e) \in O!ChangeType /\ Pair(r, e)
            /\ ActionOf(r, e) = O!ActionFor("deleted", RemoteType(e))
        BY <2>2, <2>5, <3>1, <4>1
      <4>3. RemoteType(e) # "deleted" /\ RemoteType(e) # "expired"
        <5>1. /\ RemoteType(e) = "deleted" => Gone(e)
              /\ RemoteType(e) = "expired" => ~Lasting(resv[r])
          BY <1>0, <2>0, <2>5, <3>1, EventsKnown
        <5> QED
          BY <2>0, <2>5, <3>1, <5>1, Events DEF OutlookInv
      <4>4. O!ActionFor("deleted", RemoteType(e)) = "delete in calendar"
        BY <4>2, <4>3 DEF O!ActionFor, O!ChangeType
      <4>5. ActionOf(r, e) = "delete in calendar" /\ Pair(r, e)
        BY <4>2, <4>4
      <4> HIDE DEF e
      <4>6. \E o \in job'.todo : o.r = r /\ o.e = e /\ o.act = ActionOf(r, e)
        BY <1>p, <2>0, <4>5
      <4> QED
        BY <4>5, <4>6
    <3> QED
      BY <2>3, <3>1, <3>2, <3>3
  <2>6. ASSUME InForce(resv[r]), e # None, ~O!There(e)
        PROVE  \E o \in job'.todo : o.r = r
    <3>1. Made(resv[r]) /\ Spared(resv[r]) /\ Lasting(resv[r])
      BY <2>6 DEF InForce, Made
    <3>2. job.remote[e] = "deleted"
      BY <1>0, <2>0, <2>6, <3>1, EventsKnown
    <3>3. RemoteType(e) = "deleted"
      BY <1>0, <2>0, <2>6, <3>2, SidesKnown
    <3>4. RowType(r) # "absent" /\ Pair(r, e) /\ ActionOf(r, e) = O!ActionFor(RowType(r), "deleted")
      BY <2>2, <2>6, <3>1, <3>3
    <3>5. O!ActionFor(RowType(r), "deleted") # "none"
      BY <2>1, <3>4 DEF O!ActionFor, O!ChangeType
    <3> QED
      BY <1>p, <2>0, <3>4, <3>5
  <2> HIDE DEF e
  <2>7. /\ InForce(Now(r))' => InForce(resv[r])
        /\ Dropped(Now(r))' => Dropped(resv[r])
        /\ Now(r)' = resv[r] /\ Link(r)'.event = e
        /\ e # None => (O!There(Link(r).event)' <=> O!There(e))
        /\ Unread(r)' <=> Unread(r)
    BY <1>0, <1>w DEF InForce, Dropped, Spared, Lasting, O!There, e
  <2> QED
    BY <2>4, <2>5, <2>6, <2>7 DEF RowNoted
<1>2. ASSUME NEW d \in OutlookEvents PROVE EventNoted(d)'
  <2> SUFFICES ASSUME Live(d)
               PROVE  \/ Unseen(d)
                      \/ \E o \in job'.todo : o.e = d
                      \/ \E r \in OutlookRows : Link(r)'.event = d /\ Link(r)'.key = events[d].time
    <3>1. (Live(d)' => Live(d)) /\ (Unseen(d)' <=> Unseen(d)) /\ events' = events
      BY <1>0, <1>v DEF Live, Spared, Lasting, O!There, DecidesView
    <3> QED
      BY <3>1 DEF EventNoted
  <2>0. EventRead(d) /\ RemoteType(d) \in O!ChangeType /\ d # None
    BY <1>0, RemoteTypes, OutlookConstants DEF OutlookInv, Reading
  <2>1. CASE d \in job.readE
    <3>1. job.remote[d] = "changed"
      BY <2>0, <2>1 DEF EventRead
    <3>2. CASE \A s \in OutlookRows : job.rows[s].event # d
      <4>1. RemoteType(d) = "changed"
        BY <3>1, <3>2 DEF RemoteType
      <4>2. Pair(None, d) /\ ActionOf(None, d) = O!ActionFor("absent", "changed")
        BY <2>0, <3>2, <4>1 DEF Pair, ActionOf
      <4>3. O!ActionFor("absent", "changed") # "none"
        BY DEF O!ActionFor
      <4> QED
        BY <1>p, <4>2, <4>3
    <3>3. CASE \E s \in OutlookRows : job.rows[s].event = d
      <4>1. PICK s \in OutlookRows : job.rows[s].event = d
        BY <3>3
      <4>2. RemoteType(d) = "changed" /\ RowType(s) # "absent"
        BY <1>0, <3>1, <4>1, SidesKnown
      <4>3. Pair(s, d) /\ ActionOf(s, d) = O!ActionFor(RowType(s), "changed")
        BY <2>0, <4>1, <4>2, OutlookConstants DEF Pair, ActionOf
      <4>4. RowType(s) \in O!ChangeType \ {"expired"}
        BY RowTypes DEF OutlookInv
      <4>5. O!ActionFor(RowType(s), "changed") # "none"
        BY <4>2, <4>4 DEF O!ActionFor, O!ChangeType
      <4> QED
        BY <1>p, <4>3, <4>5
    <3> QED
      BY <3>2, <3>3
  <2>2. CASE d \notin job.readE /\ d \in fresh
    <3>1. queue \/ notices
      BY <2>0, <2>2 DEF EventRead
    <3> QED
      BY <2>2, <3>1 DEF Unseen
  <2>3. CASE d \notin fresh
    <3>1. PICK r \in OutlookRows : rows[r].event = d /\ rows[r].key = events[d].time
      BY <2>3 DEF OutlookInv, Recorded
    <3>2. job.rows[r].event = d /\ Made(resv[r]) /\ resv[r].origin = events[d].origin
      BY <1>0, <1>w, <3>1, SidesKnown
    <3>3. Spared(resv[r]) /\ Lasting(events[d]) /\ O!There(d)
      BY <3>2 DEF Live, Spared
    <3>4. RemoteType(d) # "deleted" /\ RemoteType(d) # "expired"
      <4>1. /\ RemoteType(d) = "deleted" => Gone(d)
            /\ RemoteType(d) = "expired" => Gone(d) \/ ~Lasting(events[d])
        BY <1>0, <3>2, <3>3, EventsKnown
      <4> QED
        BY <3>3, <4>1, Events DEF OutlookInv
    <3>5. RowType(r) \in O!ChangeType \ {"expired"}
      BY RowTypes DEF OutlookInv
    <3>6. CASE RowType(r) \in {"changed", "deleted"}
      <4>1. RemoteType(d) # "absent"
        BY <1>0, <3>2, <3>6, SidesKnown
      <4>2. Pair(r, d) /\ ActionOf(r, d) = O!ActionFor(RowType(r), RemoteType(d))
        BY <2>0, <3>2, <3>6, OutlookConstants DEF Pair, ActionOf
      <4>3. O!ActionFor(RowType(r), RemoteType(d)) # "none"
        BY <2>0, <3>6, <4>1 DEF O!ActionFor, O!ChangeType
      <4> QED
        BY <1>p, <4>2, <4>3
    <3>7. CASE RowType(r) \in {"absent", "no change"}
      <4>1. ~Other(r) /\ RowType(r) = job.respa[r]
        <5>1. ASSUME Other(r) PROVE FALSE
          <6>1. job.respa[r] = "absent" /\ RemoteType(d) # "absent"
            BY <3>2, <5>1 DEF Other
          <6>2. \A s \in OutlookRows : ~(Asked(s) /\ job.rows[s].event = d)
            <7>1. \A s \in OutlookRows : job.rows[s].event = d => s = r
              BY <1>0, <2>0, <3>2 DEF OutlookInv, Mappings, Link
            <7> QED
              BY <6>1, <7>1 DEF Asked
          <6>3. RemoteType(d) = job.remote[d]
            BY <6>2 DEF RemoteType
          <6>4. RemoteType(d) # "changed"
            BY <2>0, <2>3, <6>3 DEF EventRead
          <6>5. RemoteType(d) # "no change"
            BY <6>3 DEF OutlookInv, Basis, OutlookTypes, Jobs
          <6> QED
            BY <2>0, <3>4, <6>1, <6>4, <6>5 DEF O!ChangeType
        <5> QED
          BY <5>1 DEF RowType
      <4>2. job.rows[r] = rows[r]
        BY <1>0, <3>7, <4>1 DEF OutlookInv, Reading
      <4>3. Link(r)'.event = d /\ Link(r)'.key = events[d].time
        BY <1>w, <3>1, <4>1, <4>2
      <4> QED
        BY <4>3
    <3> QED
      BY <3>5, <3>6, <3>7 DEF O!ChangeType
  <2> QED
    BY <2>1, <2>2, <2>3
<1> QED
  BY <1>1, <1>2 DEF Noted

LEMMA DecidesKeeps ==
    ASSUME OutlookInv, Decides
    PROVE  OutlookInv'
BY DecidesKeepsBasis, DecidesKeepsFamilies, DecidesKeepsTodo, DecidesKeepsNotes DEF OutlookInv

-----------------------------------------------------------------------------
(* Every step keeps the invariant *)

LEMMA OutlookInit == O!Init => OutlookInv
<1> SUFFICES ASSUME O!Init PROVE OutlookInv
  OBVIOUS
<1>0. /\ phase \in NearAndFar /\ resv = [r \in OutlookRows |-> O!NoResv]
      /\ events = [e \in OutlookEvents |-> O!NoEvent]
      /\ rows = [r \in OutlookRows |-> O!NoRow]
      /\ recent = {} /\ fresh = {} /\ queue = FALSE /\ notices = FALSE
      /\ at = "idle" /\ job = O!Idle /\ left = MaxEvents /\ hit = {}
  BY DEF O!Init
<1>1. /\ O!Idle \in Jobs /\ O!Idle.draft = [r \in OutlookRows |-> O!NoResv]
      /\ O!Idle.todo = {} /\ O!Idle.made = {} /\ O!Idle.readR = {} /\ O!Idle.readE = {}
  BY IdleJob
<1>2. Basis
  <2>1. OutlookTypes
    <3>1. MaxEvents \in 0 .. MaxEvents
      BY OutlookConstants
    <3>2. resv \in [OutlookRows -> ResvRows] /\ events \in [OutlookEvents -> EventRows]
          /\ rows \in [OutlookRows -> MapRows]
      BY <1>0, NoRows
    <3>3. phase \in [Time -> {"far", "near", "past"}]
      BY <1>0, OutlookConstants
    <3> QED
      BY <1>0, <1>1, <3>1, <3>2, <3>3 DEF OutlookTypes
  <2>2. Wholeness
    BY <1>0, <1>1, NoRows DEF Wholeness
  <2> QED
    BY <1>0, <2>1, <2>2 DEF Basis, Phases
<1>3. \A r \in OutlookRows : /\ ~Made(resv[r]) /\ ~O!Written(r) /\ Now(r) = resv[r]
                             /\ rows[r].event = None /\ Link(r) = rows[r]
  BY <1>0, <1>1, NoRows DEF O!Written, Now, Link
<1>4. \A e \in OutlookEvents : ~Made(events[e]) /\ ~O!There(e)
  BY <1>0, NoRows DEF O!There, Made
<1>5. Origins /\ Mappings
  BY <1>0, <1>3, <1>4 DEF Origins, Mappings, MapFits
<1>6. OneRow /\ OneEvent /\ Paired /\ PastAlike /\ NotFar
  BY <1>3, <1>4 DEF OneRow, OneEvent, Paired, PastAlike, NotFar, Alike, Akin, Close
<1>7. Recorded /\ Noted
  BY <1>3, <1>4 DEF Recorded, Noted, RowNoted, EventNoted, InForce, Dropped, Live, Made
<1>8. Todo /\ Justified /\ Reading
  BY <1>0, <1>1, <1>3 DEF Todo, Justified, Reading
<1> QED
  BY <1>2, <1>5, <1>6, <1>7, <1>8 DEF OutlookInv

LEMMA OutlookKept ==
    ASSUME OutlookInv, [O!Next]_outlook
    PROVE  OutlookInv'
<1>1. Changes
  BY OutlookSteps DEF OutlookInv
<1> QED
  BY <1>1, RespaKeeps, CalendarKeeps, QueuesKeeps, ReadKeeps, DecidesKeeps, StopKeeps, RowKeeps,
     EventKeeps, PartsKeeps, FinishKeeps, AgeKeeps, StutterKeeps DEF Changes

\* However users of Respa and of the calendar change bookings between the steps of the process,
\* and whatever aborts, is read short or commits late, each difference between a reservation and
\* its event is marked as unread, is in the hands of the process or is none (respa_o365:
\* calendar_sync.py, sync_operations.py, reservation_sync.py and the repositories).
THEOREM OutlookInvariant == Spec => []OutlookInv
BY OutlookInit, OutlookKept, OutlookPart, PTL

-----------------------------------------------------------------------------
(* What the runs check *)

LEMMA OutlookTyped == ASSUME OutlookInv PROVE O!TypeOK
<1>1. OutlookTypes /\ \A o \in job.todo : o \in Operations
  BY DEF OutlookInv, Basis, OutlookTypes, Jobs
<1>2. job.todo \subseteq Operations
  BY <1>1
<1> QED
  BY <1>1, <1>2 DEF OutlookTypes, O!TypeOK, Jobs, ResvRows, EventRows, MapRows, Operations,
     O!ChangeType

\* Whichever of the two runs, each variable holds what the code gives it: a row, an event or an
\* item is never half there, a transaction that saves has its row and a time, and the process has
\* only operations of the kinds that sync_operations.py builds.
THEOREM CalendarsTyped == Spec => []TypeOK
<1>1. OutlookInv /\ ExchangeInv => TypeOK
  BY OutlookTyped, ExchangeTyped DEF ExchangeInv, TypeOK
<1> QED
  BY <1>1, OutlookInvariant, ExchangeInvariant, PTL

\* A booking is there once on either side, and an event is of one reservation, whatever the
\* process has done of its list when it is aborted and begins anew (calendar_sync.py,
\* sync_operations.py).
THEOREM BookedOnce == Spec => []NoDuplicates
<1>1. ASSUME OutlookInv PROVE NoDuplicates
  <2>1. ASSUME NEW r \in OutlookRows, NEW s \in OutlookRows, O!Booked(r), O!Booked(s),
               resv[r].origin = resv[s].origin, resv[r].origin \notin hit
        PROVE  r = s
    <3>1. Made(resv[r]) /\ Made(resv[s])
      BY <2>1 DEF O!Booked, Made
    <3>2. /\ Made(Now(r)) /\ Now(r).origin = resv[r].origin
          /\ Made(Now(s)) /\ Now(s).origin = resv[s].origin
      BY <1>1, <3>1, KnownNow DEF OutlookInv
    <3> QED
      BY <1>1, <2>1, <3>2 DEF OutlookInv, OneRow, Spared
  <2>2. ASSUME NEW d \in OutlookEvents, NEW e \in OutlookEvents, O!There(d), O!There(e),
               events[d].origin = events[e].origin, events[d].origin \notin hit
        PROVE  d = e
    BY <1>1, <2>2 DEF OutlookInv, OneEvent, Spared
  <2>3. \A r, s \in OutlookRows : rows[r].event # None /\ rows[r].event = rows[s].event => r = s
    BY <1>1 DEF OutlookInv, Mappings
  <2> QED
    BY <2>1, <2>2, <2>3 DEF NoDuplicates, O!NoDuplicates
<1> QED
  BY <1>1, OutlookInvariant, PTL

\* Whenever the queue is empty and no notification is due, each reservation within the horizon has
\* its event at its time and each event its reservation, whatever was changed on both sides while
\* the process worked (respa_o365).
THEOREM RestMeansInStep == Spec => []CalendarsAgree
<1>1. ASSUME OutlookInv PROVE CalendarsAgree
  <2> SUFFICES ASSUME at = "idle", ~queue, ~notices
               PROVE  /\ \A r \in OutlookRows :
                            O!Booked(r) /\ O!Near(resv[r]) /\ resv[r].origin \notin hit =>
                              \E e \in OutlookEvents : /\ rows[r].event = e /\ O!There(e)
                                                       /\ events[e].time = resv[r].time
                      /\ \A e \in OutlookEvents :
                            O!There(e) /\ O!Near(events[e]) /\ events[e].origin \notin hit =>
                              \E r \in OutlookRows : /\ rows[r].event = e /\ O!Booked(r)
                                                     /\ events[e].time = resv[r].time
    BY DEF CalendarsAgree, O!CalendarsAgree, O!Quiet
  <2>1. ASSUME NEW r \in OutlookRows, NEW e \in OutlookEvents, rows[r].event = e, O!There(e),
               Spared(resv[r]) \/ Spared(events[e])
        PROVE  events[e].time = resv[r].time /\ Akin(resv[r], e)
    <3>1. MapFits(resv[r], rows[r]) /\ e # None
      BY <1>1, OutlookConstants DEF OutlookInv, Mappings
    <3>2. Akin(resv[r], e)
      BY <2>1, <3>1 DEF MapFits, Akin, Spared
    <3> QED
      BY <1>1, <3>2, RestAlike
  <2>2. ASSUME NEW r \in OutlookRows, O!Booked(r), O!Near(resv[r]), resv[r].origin \notin hit
        PROVE  \E e \in OutlookEvents : /\ rows[r].event = e /\ O!There(e)
                                        /\ events[e].time = resv[r].time
    <3>1. InForce(resv[r]) /\ Spared(resv[r])
      BY <2>2 DEF O!Booked, O!Near, InForce, Spared, Lasting
    <3>2. rows[r].event # None /\ O!There(rows[r].event)
      BY <1>1, <3>1, RestAgrees
    <3>3. rows[r].event \in OutlookEvents
      BY <1>1, <3>2, Views DEF OutlookInv, MapRows
    <3> QED
      BY <2>1, <3>1, <3>2, <3>3
  <2>3. ASSUME NEW e \in OutlookEvents, O!There(e), O!Near(events[e]), events[e].origin \notin hit
        PROVE  \E r \in OutlookRows : /\ rows[r].event = e /\ O!Booked(r)
                                      /\ events[e].time = resv[r].time
    <3>1. Live(e) /\ Spared(events[e])
      BY <2>3 DEF O!Near, Live, Spared, Lasting
    <3>2. PICK r \in OutlookRows : rows[r].event = e
      BY <1>1, <3>1, RestAgrees
    <3>3. events[e].time = resv[r].time /\ Akin(resv[r], e)
      BY <2>1, <2>3, <3>1, <3>2
    <3>4. InForce(resv[r]) \/ Dropped(resv[r])
      BY <1>1, <3>1, <3>3, Views DEF OutlookInv, Akin, Made, ResvRows, Live, InForce, Dropped, Lasting
    <3>5. ~Dropped(resv[r])
      BY <1>1, <2>3, <3>2, RestAgrees, OutlookConstants
    <3>6. O!Booked(r)
      BY <3>4, <3>5 DEF InForce, O!Booked
    <3> QED
      BY <3>2, <3>3, <3>6
  <2> QED
    BY <2>2, <2>3
<1> QED
  BY <1>1, OutlookInvariant, PTL

\* The process cancels no reservation but one whose event a user has deleted, even when it commits
\* what it decided long before (sync_operations.py, DeleteReservationOp).
THEOREM CancelledForCause == Spec => NoNeedlessCancel
<1>1. ASSUME OutlookInv
      PROVE  [\A r \in OutlookRows :
                O!Commit /\ O!Booked(r) /\ resv'[r].state = "cancelled" /\ resv[r].origin \notin hit =>
                  rows[r].event # None /\ events[rows[r].event].state = "gone"]_(O!vars)
  <2>1. ASSUME NEW r \in OutlookRows, O!Commit, O!Booked(r), resv'[r].state = "cancelled",
               resv[r].origin \notin hit
        PROVE  rows[r].event # None /\ events[rows[r].event].state = "gone"
    <3>1. resv'[r] = IF O!Written(r) THEN job.draft[r] ELSE resv[r]
      BY <2>1 DEF O!Commit
    <3>2. O!Written(r) /\ job.draft[r].state = "cancelled"
      BY <2>1, <3>1 DEF O!Booked
    <3> QED
      BY <1>1, <2>1, <3>2 DEF OutlookInv, Justified, Spared, Gone
  <2> QED
    BY <2>1
<1> QED
  BY <1>1, OutlookInvariant, PTL DEF NoNeedlessCancel, O!NoNeedlessCancel
=============================================================================
