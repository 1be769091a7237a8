------------------------- MODULE AccessGrantsProofs -------------------------
(***************************************************************************)
(* For any number of grants, reservations and jobs, whatever is refused,   *)
(* lost or dies: types are kept, and a job that has set a grant to         *)
(* installing or removing works on it alone; AccessGrants implements       *)
(* GrantLife, no code is forgotten or shared, and an installed code opens  *)
(* its door, but for the grants that were struck.                          *)
(***************************************************************************)
EXTENDS AccessGrants, TLAPS

USE GrantAssumption

Step == {"off", "revoke", "grant"} \cup Working
JobRow == [todo : SUBSET (Grant \X GrantRow), g : Grant \cup {None}, was : GrantRow,
           code : Code \cup {None}, seen : SUBSET (Grant \X Code)]

\* The names of states and steps differ where they should
LEMMA Names ==
    /\ {REQUESTED, INSTALLING, INSTALLED, CANCELLED, REMOVING, REMOVED} = GrantState
    /\ {REQUESTED, INSTALLED, CANCELLED, REMOVED, Absent} \cap {INSTALLING, REMOVING} = {}
    /\ INSTALLING # REMOVING /\ REQUESTED \notin {INSTALLED, CANCELLED}
    /\ Alone = {"user", "send", "save", "read", "withdraw", "removed"}
    /\ Working = {"user", "send", "save", "read", "withdraw", "removed", "notify"}
    /\ Step = {"off", "revoke", "grant", "user", "send", "save", "read", "withdraw", "removed",
               "notify"}
BY DEF GrantState, REQUESTED, INSTALLING, INSTALLED, CANCELLED, REMOVING, REMOVED, Absent,
    Alone, Working, Installing, Removing, Step

-----------------------------------------------------------------------------
(* The inductive invariant                                                 *)

Data ==
    /\ setting \in Setting
    /\ phase \in [Period -> {"far", "near", "over"}]
    /\ resv \in [Reservation -> [state : {"created", "confirmed", "denied", "cancelled"},
                                 period : Period]]
    /\ grants \in [Grant -> GrantRow]
    /\ wait \subseteq Grant /\ hit \subseteq Grant
    /\ users \subseteq Grant \X Code /\ remote \subseteq Grant \X Code

\* The states in which the grants of a job's list were when it read them
Listed(a) == IF a \in Installing \cup {"grant", "notify"} THEN {REQUESTED}
             ELSE {INSTALLED, CANCELLED}

\* A job at step a holds what j says
Fit(a, j) ==
    /\ a \in Step /\ j \in JobRow
    /\ IF a \in Working THEN j.g \in Grant ELSE j.g = None
    /\ a \in {"send", "save"} => j.code \in Code
    /\ \A e \in j.todo : e[2].state \in Listed(a)

Jobs ==
    /\ at \in [Cron -> Step] /\ job \in [Cron -> JobRow]
    /\ \A c \in Cron : Fit(at[c], job[c])

GrantInv == Data /\ Jobs /\ ExclusiveAccess

LEMMA InvTypes == GrantInv => TypeOK
BY DEF GrantInv, Data, Jobs, TypeOK, Step, JobRow

\* A row keeps its type when its state or its code changes
LEMMA RowKept ==
    ASSUME NEW row \in GrantRow, NEW s \in GrantState \cup {Absent},
           NEW k \in Code \cup {None}
    PROVE  /\ [row EXCEPT !.state = s] \in GrantRow
           /\ [row EXCEPT !.state = s, !.code = k] \in GrantRow
BY Zenon DEF GrantRow

-----------------------------------------------------------------------------
(* What steps keep                                                         *)

\* The state in which a job at step a has put its grant
Mark(a) == IF a \in Installing THEN INSTALLING ELSE REMOVING

\* No job but c works on g
Sole(c, g) == \A d \in Cron \ {c} : job[d].g = g => at[d] = "notify"

\* The grants that other jobs than c work on
Others(c) == {job[d].g : d \in {d \in Cron \ {c} : at[d] \in Alone}}

\* What a job needs of its grant
LEMMA OwnGrant ==
    ASSUME GrantInv, NEW c \in Cron, at[c] \in Working
    PROVE  /\ job[c].g \in Grant
           /\ at[c] \in Alone /\ job[c].g \notin hit =>
                Sole(c, job[c].g) /\ grants[job[c].g].state = Mark(at[c])
           /\ at[c] \in Alone => job[c].g \notin Others(c) \ hit
<1>1. job[c].g \in Grant
  BY DEF GrantInv, Jobs, Fit
<1>2. at[c] \in Alone /\ job[c].g \notin hit =>
        Sole(c, job[c].g) /\ grants[job[c].g].state = Mark(at[c])
  BY DEF GrantInv, ExclusiveAccess, Sole, Mark
<1>3. at[c] \in Alone => job[c].g \notin Others(c) \ hit
  <2> SUFFICES ASSUME at[c] \in Alone, NEW d \in Cron \ {c}, at[d] \in Alone,
                      job[c].g = job[d].g, job[c].g \notin hit
               PROVE  FALSE
    BY DEF Others
  <2>1. at[d] = "notify"
    BY <1>2 DEF Sole
  <2> QED
    BY <2>1, Names
<1> QED
  BY <1>1, <1>2, <1>3

\* A row that is neither installing nor removing is free for a job
LEMMA FreeGrant ==
    ASSUME GrantInv, NEW c \in Cron, NEW g \in Grant,
           grants[g].state \notin {INSTALLING, REMOVING}
    PROVE  /\ g \notin Others(c) \ hit
           /\ g \notin hit => Sole(c, g)
<1>1. ASSUME NEW d \in Cron, job[d].g = g, at[d] \in Alone
      PROVE  g \in hit
  BY <1>1 DEF GrantInv, ExclusiveAccess
<1>2. ASSUME NEW d \in Cron, job[d].g = g
      PROVE  at[d] \in Working
  BY <1>2, GrantAssumption, Names DEF GrantInv, Jobs, Fit
<1> QED
  BY <1>1, <1>2, Names DEF Others, Sole

\* A job takes a step: it leaves alone what others work on, and works on a grant alone
LEMMA JobKept ==
    ASSUME GrantInv, NEW c \in Cron, NEW a, NEW j, Fit(a, j),
           at' = [at EXCEPT ![c] = a], job' = [job EXCEPT ![c] = j],
           Data', hit \subseteq hit',
           \A g \in Others(c) \ hit' : grants'[g].state = grants[g].state,
           a \in Alone => j.g \notin Others(c) \ hit',
           a \in Alone /\ j.g \notin hit' => Sole(c, j.g) /\ grants'[j.g].state = Mark(a)
    PROVE  GrantInv'
<1>1. /\ at \in [Cron -> Step] /\ job \in [Cron -> JobRow]
      /\ \A d \in Cron : Fit(at[d], job[d])
  BY DEF GrantInv, Jobs
<1>2. a \in Step /\ j \in JobRow
  BY DEF Fit
<1>3. /\ at' \in [Cron -> Step] /\ job' \in [Cron -> JobRow]
      /\ at'[c] = a /\ job'[c] = j
      /\ \A d \in Cron \ {c} : at'[d] = at[d] /\ job'[d] = job[d]
  BY <1>1, <1>2
<1>4. \A d \in Cron : Fit(at'[d], job'[d])
  <2> SUFFICES ASSUME NEW d \in Cron PROVE Fit(at'[d], job'[d])
    OBVIOUS
  <2>1. CASE d = c
    BY <1>3, <2>1
  <2>2. CASE d # c
    BY <1>1, <1>3, <2>2
  <2> QED
    BY <2>1, <2>2
<1>5. Jobs'
  BY <1>3, <1>4 DEF Jobs, Fit, JobRow, Listed
<1>6. ASSUME NEW d \in Cron, at'[d] \in Alone, job'[d].g \notin hit',
             NEW e \in Cron \ {d}, job'[e].g = job'[d].g
      PROVE  at'[e] = "notify"
  <2>1. CASE d = c
    BY <1>3, <1>6, <2>1 DEF Sole
  <2>2. CASE d # c /\ e # c
    BY <1>3, <1>6, <2>2 DEF GrantInv, ExclusiveAccess
  <2>3. CASE d # c /\ e = c
    <3>1. job[d].g \in Others(c) \ hit' /\ j.g = job[d].g
      BY <1>3, <1>6, <2>3 DEF Others
    <3>2. a \notin Alone
      BY <3>1
    <3>3. j.g \in Grant
      BY <1>1, <1>3, <1>6, <2>3, <3>1, Names DEF Fit
    <3> QED
      BY <1>2, <1>3, <2>3, <3>2, <3>3, Names, GrantAssumption DEF Fit
  <2> QED
    BY <2>1, <2>2, <2>3
<1>7. ASSUME NEW d \in Cron, at'[d] \in Alone, job'[d].g \notin hit'
      PROVE  grants'[job'[d].g].state = Mark(at'[d])
  <2>1. CASE d = c
    BY <1>3, <1>7, <2>1
  <2>2. CASE d # c
    <3>1. job[d].g \in Others(c) \ hit'
      BY <1>3, <1>7, <2>2 DEF Others
    <3>2. grants[job[d].g].state = Mark(at[d])
      BY <1>3, <1>7, <2>2 DEF GrantInv, ExclusiveAccess, Mark
    <3> QED
      BY <1>3, <2>2, <3>1, <3>2
  <2> QED
    BY <2>1, <2>2
<1>8. ExclusiveAccess'
  BY <1>6, <1>7 DEF ExclusiveAccess, Mark, Alone, Installing, Removing
<1> QED
  BY <1>5, <1>8 DEF GrantInv

\* A step of something else keeps the invariant when it leaves alone what jobs work on
LEMMA RowsKept ==
    ASSUME GrantInv, Data', UNCHANGED <<at, job, hit>>,
           \A g \in Grant : grants[g].state \in {INSTALLING, REMOVING}
                                => grants'[g].state = grants[g].state
    PROVE  GrantInv'
<1>1. Jobs'
  BY DEF GrantInv, Jobs, Fit, JobRow, Listed
<1>2. \A c \in Cron : at[c] \in Alone => job[c].g \in Grant
  BY Names DEF GrantInv, Jobs, Fit
<1>3. ExclusiveAccess'
  BY <1>2 DEF GrantInv, ExclusiveAccess, Alone, Installing, Removing
<1> QED
  BY <1>1, <1>3 DEF GrantInv

-----------------------------------------------------------------------------
(* Requests and time                                                       *)

CancelAll(S) == [g \in Grant |-> IF g \in S THEN [grants[g] EXCEPT !.state = CancelTo(@)]
                                ELSE grants[g]]

\* A cancelled row is a row, and no cancellation touches what a job works on
LEMMA CancelRow ==
    ASSUME NEW row \in GrantRow, row.state # Absent
    PROVE  /\ [row EXCEPT !.state = CancelTo(@)] \in GrantRow
           /\ row.state \in {INSTALLING, REMOVING}
                => [row EXCEPT !.state = CancelTo(@)].state = row.state
<1>1. row.state \in GrantState
  BY DEF GrantRow
<1>2. CancelTo(row.state) \in GrantState
  BY <1>1, Names DEF CancelTo
<1>3. [row EXCEPT !.state = CancelTo(@)] = [row EXCEPT !.state = CancelTo(row.state)]
  OBVIOUS
<1>4. row.code \in Code \cup {None}
  BY DEF GrantRow
<1>5. [row EXCEPT !.state = CancelTo(row.state)] \in GrantRow
  BY <1>2, <1>4, RowKept
<1>6. row.state \in {INSTALLING, REMOVING} => CancelTo(row.state) = row.state
  BY Names DEF CancelTo, INSTALLING, REMOVING, REQUESTED, INSTALLED
<1>7. [row EXCEPT !.state = CancelTo(row.state)].state = CancelTo(row.state)
  BY DEF GrantRow
<1> QED
  BY <1>3, <1>5, <1>6, <1>7

LEMMA CancelAllKept ==
    ASSUME GrantInv, NEW S \in SUBSET Exists
    PROVE  /\ CancelAll(S) \in [Grant -> GrantRow]
           /\ \A g \in Grant : grants[g].state \in {INSTALLING, REMOVING}
                                => CancelAll(S)[g].state = grants[g].state
<1>1. \A g \in S : g \in Grant /\ grants[g] \in GrantRow /\ grants[g].state # Absent
  BY DEF Exists, GrantInv, Data
<1>2. ASSUME NEW g \in S
      PROVE  /\ CancelAll(S)[g] \in GrantRow
             /\ grants[g].state \in {INSTALLING, REMOVING}
                    => CancelAll(S)[g].state = grants[g].state
  BY <1>1, CancelRow DEF CancelAll
<1>3. ASSUME NEW g \in Grant \ S
      PROVE  CancelAll(S)[g] = grants[g] /\ grants[g] \in GrantRow
  BY DEF CancelAll, GrantInv, Data
<1>4. \A g \in Grant : CancelAll(S)[g] \in GrantRow
  BY <1>2, <1>3
<1> QED
  BY <1>2, <1>3, <1>4 DEF CancelAll

LEMMA ActiveExist == \A r : Active(r) \subseteq Exists
BY DEF Active, InState

LEMMA RevokeKept ==
    ASSUME GrantInv, NEW r \in Reservation, RevokeAccess(r)
    PROVE  /\ grants' \in [Grant -> GrantRow] /\ wait' \subseteq Grant
           /\ \A g \in Grant : grants[g].state \in {INSTALLING, REMOVING}
                                => grants'[g].state = grants[g].state
<1>1. grants' = CancelAll(Active(r))
  BY DEF RevokeAccess, CancelAll
<1>2. wait' \subseteq Grant
  BY DEF RevokeAccess, GrantInv, Data
<1> QED
  BY <1>1, <1>2, ActiveExist, CancelAllKept

LEMMA SettingRows == GrantInv => setting.grants \subseteq Grant
<1> SUFFICES ASSUME GrantInv PROVE setting.grants \subseteq Grant
  OBVIOUS
<1>1. setting \in [driver : {"sipass", "abloy"}, grants : SUBSET Grant, cron : SUBSET Cron,
                  faults : SUBSET {"refused", "lost", "notify", "crash"}]
  BY GrantAssumption DEF GrantInv, Data
<1> QED
  BY <1>1

LEMMA Drivers == GrantInv => setting.driver \in {"sipass", "abloy"}
<1> SUFFICES ASSUME GrantInv PROVE setting.driver \in {"sipass", "abloy"}
  OBVIOUS
<1>1. setting \in [driver : {"sipass", "abloy"}, grants : SUBSET Grant, cron : SUBSET Cron,
                  faults : SUBSET {"refused", "lost", "notify", "crash"}]
  BY GrantAssumption DEF GrantInv, Data
<1> QED
  BY <1>1

LEMMA GrantKept ==
    ASSUME GrantInv, NEW r \in Reservation, NEW p \in Period, GrantAccess(r, p)
    PROVE  /\ grants' \in [Grant -> GrantRow] /\ wait' \subseteq Grant
           /\ \A g \in Grant : grants[g].state \in {INSTALLING, REMOVING}
                                => grants'[g].state = grants[g].state
<1>1. CASE UNCHANGED <<grants, wait>>
  BY <1>1 DEF GrantInv, Data
<1>2. CASE /\ \E new \in Grant \ Exists : grants' = [g \in Grant |->
                    IF g = new
                    THEN [state |-> REQUESTED, resv |-> r, period |-> p, code |-> None]
                    ELSE IF g \in Active(r) THEN [grants[g] EXCEPT !.state = CancelTo(@)]
                    ELSE grants[g]]
           /\ wait' = wait \ (Active(r) \cap InState({INSTALLED}))
  <2>1. PICK new \in Grant \ Exists : grants' = [g \in Grant |->
                    IF g = new
                    THEN [state |-> REQUESTED, resv |-> r, period |-> p, code |-> None]
                    ELSE CancelAll(Active(r))[g]]
    BY <1>2 DEF CancelAll
  <2>2. [state |-> REQUESTED, resv |-> r, period |-> p, code |-> None] \in GrantRow
    BY Names DEF GrantRow
  <2>3. grants[new].state = Absent
    BY DEF Exists
  <2>4. grants' \in [Grant -> GrantRow]
    BY <2>1, <2>2, ActiveExist, CancelAllKept
  <2>5. wait' \subseteq Grant
    BY <1>2 DEF GrantInv, Data
  <2> QED
    BY <2>1, <2>3, <2>4, <2>5, ActiveExist, CancelAllKept, Names
<1> QED
  <2>1. setting.grants \subseteq Grant
    BY SettingRows
  <2>2. CASE UNCHANGED <<grants, wait>>
    BY <2>2, <1>1
  <2>3. CASE ~ UNCHANGED <<grants, wait>>
    <3>1. wait' = wait \ (Active(r) \cap InState({INSTALLED}))
      BY <2>3 DEF GrantAccess
    <3>2. \E new \in setting.grants \ Exists : grants' = [g \in Grant |->
                    IF g = new
                    THEN [state |-> REQUESTED, resv |-> r, period |-> p, code |-> None]
                    ELSE IF g \in Active(r) THEN [grants[g] EXCEPT !.state = CancelTo(@)]
                    ELSE grants[g]]
      BY <2>3 DEF GrantAccess
    <3>3. \E new \in Grant \ Exists : grants' = [g \in Grant |->
                    IF g = new
                    THEN [state |-> REQUESTED, resv |-> r, period |-> p, code |-> None]
                    ELSE IF g \in Active(r) THEN [grants[g] EXCEPT !.state = CancelTo(@)]
                    ELSE grants[g]]
      BY <2>1, <3>2
    <3> QED
      BY <1>2, <3>1, <3>3
  <2> QED
    BY <2>2, <2>3

\* A reservation keeps its type
LEMMA ResvKept ==
    ASSUME Data, NEW r \in Reservation, NEW p \in Period,
           NEW s \in {"created", "confirmed", "denied", "cancelled"}
    PROVE  /\ [resv EXCEPT ![r].state = s] \in [Reservation ->
                [state : {"created", "confirmed", "denied", "cancelled"}, period : Period]]
           /\ [resv EXCEPT ![r].period = p] \in [Reservation ->
                [state : {"created", "confirmed", "denied", "cancelled"}, period : Period]]
           /\ resv[r].period \in Period
BY DEF Data

LEMMA RequestsKeep == GrantInv /\ Request => GrantInv'
<1> SUFFICES ASSUME GrantInv, NEW r \in Reservation,
                    Confirm(r) \/ Deny(r) \/ Cancel(r) \/ \E p \in Period : Modify(r, p)
             PROVE  GrantInv'
  BY DEF Request
<1>0. Data /\ resv[r].period \in Period
  BY DEF GrantInv, Data
<1>1. CASE Confirm(r)
  <2>1. GrantAccess(r, resv[r].period)
    BY <1>1 DEF Confirm
  <2>2. Data'
    BY <1>0, <1>1, <2>1, GrantKept, ResvKept DEF Confirm, Data
  <2> QED
    BY <1>0, <1>1, <2>1, <2>2, GrantKept, RowsKept DEF Confirm
<1>2. CASE Deny(r)
  <2>1. Data'
    BY <1>0, <1>2, ResvKept DEF Deny, Data
  <2> QED
    BY <1>2, <2>1, RowsKept DEF Deny
<1>3. CASE Cancel(r)
  <2>1. RevokeAccess(r)
    BY <1>3 DEF Cancel
  <2>2. Data'
    BY <1>0, <1>3, <2>1, RevokeKept, ResvKept DEF Cancel, Data
  <2> QED
    BY <1>3, <2>1, <2>2, RevokeKept, RowsKept DEF Cancel
<1>4. ASSUME NEW p \in Period, Modify(r, p)
      PROVE  GrantInv'
  <2>1. GrantAccess(r, p)
    BY <1>4 DEF Modify
  <2>2. Data'
    BY <1>0, <1>4, <2>1, GrantKept, ResvKept DEF Modify, Data
  <2> QED
    BY <1>4, <2>1, <2>2, GrantKept, RowsKept DEF Modify
<1> QED
  BY <1>1, <1>2, <1>3, <1>4

LEMMA ClockKeeps == GrantInv /\ Clock => GrantInv'
<1> SUFFICES ASSUME GrantInv, Clock PROVE GrantInv'
  OBVIOUS
<1>1. ASSUME NEW p \in Period, TimePasses(p)
      PROVE  GrantInv'
  <2>1. Data'
    BY <1>1 DEF TimePasses, GrantInv, Data
  <2> QED
    BY <1>1, <2>1, RowsKept DEF TimePasses
<1>2. ASSUME NEW g \in Grant, Retry(g)
      PROVE  GrantInv'
  <2>1. Data'
    BY <1>2 DEF Retry, GrantInv, Data
  <2> QED
    BY <1>2, <2>1, RowsKept DEF Retry
<1> QED
  BY <1>1, <1>2 DEF Clock

-----------------------------------------------------------------------------
(* Jobs                                                                    *)

TakeJob(c, e) == [job[c] EXCEPT !.todo = @ \ {e}, !.g = e[1], !.was = e[2]]
PassJob(c, e) == [job[c] EXCEPT !.todo = @ \ {e}]
DoneJob(c) == [Idle EXCEPT !.todo = job[c].todo]
ListJob(c, S) == [job[c] EXCEPT !.todo = Copies(S)]
SeenJob(c) == [job[c] EXCEPT !.seen = remote]
CodeJob(c, k) == [job[c] EXCEPT !.code = k]

\* The memory of a job keeps its type
LEMMA JobRowKept ==
    ASSUME NEW j \in JobRow
    PROVE  /\ \A T \in SUBSET (Grant \X GrantRow), g \in Grant \cup {None}, w \in GrantRow :
                [j EXCEPT !.todo = T, !.g = g, !.was = w] \in JobRow
           /\ \A T \in SUBSET (Grant \X GrantRow) : [j EXCEPT !.todo = T] \in JobRow
           /\ \A S \in SUBSET (Grant \X Code) : [j EXCEPT !.seen = S] \in JobRow
           /\ \A k \in Code \cup {None} : [j EXCEPT !.code = k] \in JobRow
BY Zenon DEF JobRow

LEMMA IdleRow == NoGrant \in GrantRow /\ Idle \in JobRow
<1>1. NoGrant \in GrantRow
  BY DEF NoGrant, GrantRow
<1> QED
  BY <1>1 DEF Idle, JobRow

\* What a job holds after each change of its memory
LEMMA MemoryKept ==
    ASSUME GrantInv, NEW c \in Cron
    PROVE  /\ \A e \in job[c].todo :
                /\ TakeJob(c, e) \in JobRow
                /\ TakeJob(c, e).todo = job[c].todo \ {e} /\ TakeJob(c, e).g = e[1]
                /\ PassJob(c, e) \in JobRow
                /\ PassJob(c, e).todo = job[c].todo \ {e} /\ PassJob(c, e).g = job[c].g
                /\ PassJob(c, e).code = job[c].code
           /\ DoneJob(c) \in JobRow /\ DoneJob(c).todo = job[c].todo /\ DoneJob(c).g = None
           /\ \A S \in SUBSET Grant :
                /\ ListJob(c, S) \in JobRow /\ ListJob(c, S).todo = Copies(S)
                /\ ListJob(c, S).g = job[c].g
           /\ SeenJob(c) \in JobRow /\ SeenJob(c).todo = job[c].todo /\ SeenJob(c).g = job[c].g
           /\ SeenJob(c).code = job[c].code
           /\ \A k \in Code :
                /\ CodeJob(c, k) \in JobRow /\ CodeJob(c, k).todo = job[c].todo
                /\ CodeJob(c, k).g = job[c].g /\ CodeJob(c, k).code = k
<1>1. /\ job[c] \in JobRow /\ job[c].todo \subseteq Grant \X GrantRow
      /\ job[c].g \in Grant \cup {None}
  BY DEF GrantInv, Jobs, JobRow
<1>2. grants \in [Grant -> GrantRow] /\ remote \subseteq Grant \X Code
  BY DEF GrantInv, Data
<1>3. ASSUME NEW e \in job[c].todo
      PROVE  TakeJob(c, e) \in JobRow /\ PassJob(c, e) \in JobRow
  <2>1. PICK T \in SUBSET (Grant \X GrantRow), g \in Grant \cup {None}, w \in GrantRow :
            T = job[c].todo \ {e} /\ g = e[1] /\ w = e[2]
    BY <1>1
  <2>2. [job[c] EXCEPT !.todo = T, !.g = g, !.was = w] \in JobRow
    BY <1>1, JobRowKept
  <2>3. [job[c] EXCEPT !.todo = T] \in JobRow
    BY <1>1, JobRowKept
  <2>4. TakeJob(c, e) = [job[c] EXCEPT !.todo = T, !.g = g, !.was = w]
    BY <2>1 DEF TakeJob
  <2>5. PassJob(c, e) = [job[c] EXCEPT !.todo = T]
    BY <2>1 DEF PassJob
  <2> QED
    BY <2>2, <2>3, <2>4, <2>5
<1>4. ASSUME NEW e \in job[c].todo
      PROVE  /\ TakeJob(c, e).todo = job[c].todo \ {e} /\ TakeJob(c, e).g = e[1]
             /\ PassJob(c, e).todo = job[c].todo \ {e} /\ PassJob(c, e).g = job[c].g
             /\ PassJob(c, e).code = job[c].code
  BY <1>1 DEF TakeJob, PassJob, JobRow
<1>5. DoneJob(c) \in JobRow /\ DoneJob(c).todo = job[c].todo /\ DoneJob(c).g = None
  <2>1. DoneJob(c) \in JobRow
    BY <1>1, IdleRow, JobRowKept DEF DoneJob
  <2> QED
    BY <2>1, IdleRow DEF DoneJob, Idle
<1>6. ASSUME NEW S \in SUBSET Grant
      PROVE  /\ ListJob(c, S) \in JobRow /\ ListJob(c, S).todo = Copies(S)
             /\ ListJob(c, S).g = job[c].g
  <2>1. Copies(S) \subseteq Grant \X GrantRow
    BY <1>2 DEF Copies
  <2>2. ListJob(c, S) \in JobRow
    BY <1>1, <2>1, JobRowKept DEF ListJob
  <2> QED
    BY <1>1, <2>2 DEF ListJob, JobRow
<1>7. /\ SeenJob(c) \in JobRow /\ SeenJob(c).todo = job[c].todo /\ SeenJob(c).g = job[c].g
      /\ SeenJob(c).code = job[c].code
  <2>1. SeenJob(c) \in JobRow
    BY <1>1, <1>2, JobRowKept DEF SeenJob
  <2> QED
    BY <1>1, <2>1 DEF SeenJob, JobRow
<1>8. ASSUME NEW k \in Code
      PROVE  /\ CodeJob(c, k) \in JobRow /\ CodeJob(c, k).todo = job[c].todo
             /\ CodeJob(c, k).g = job[c].g /\ CodeJob(c, k).code = k
  <2>1. CodeJob(c, k) \in JobRow
    BY <1>1, JobRowKept DEF CodeJob
  <2> QED
    BY <1>1, <2>1 DEF CodeJob, JobRow
<1> QED
  BY <1>3, <1>4, <1>5, <1>6, <1>7, <1>8

\* What a job reads into its list, and what it does with it
LEMMA MemoryIs ==
    ASSUME GrantInv, NEW c \in Cron
    PROVE  /\ \A e : Take(c, e) => job' = [job EXCEPT ![c] = TakeJob(c, e)]
           /\ \A e : Pass(c, e) => job' = [job EXCEPT ![c] = PassJob(c, e)]
           /\ Done(c) => job' = [job EXCEPT ![c] = DoneJob(c)]
           /\ UNCHANGED job => job' = [job EXCEPT ![c] = job[c]]
<1>1. job \in [Cron -> JobRow]
  BY DEF GrantInv, Jobs
<1> QED
  BY <1>1 DEF Take, Pass, Done, TakeJob, PassJob, DoneJob

LEMMA PutKept ==
    ASSUME GrantInv, NEW g \in Grant, NEW s \in GrantState \cup {Absent}, Put(g, s)
    PROVE  /\ grants' \in [Grant -> GrantRow] /\ grants'[g].state = s
           /\ \A h \in Grant \ {g} : grants'[h] = grants[h]
<1>1. grants \in [Grant -> GrantRow]
  BY DEF GrantInv, Data
<1>2. grants[g] \in GrantRow /\ grants[g].code \in Code \cup {None}
  BY <1>1 DEF GrantRow
<1>3. [grants[g] EXCEPT !.state = s] \in GrantRow
  BY <1>2, RowKept
<1>4. [grants[g] EXCEPT !.state = s].state = s
  BY <1>2 DEF GrantRow
<1>5. grants' = [grants EXCEPT ![g] = [grants[g] EXCEPT !.state = s]]
  BY <1>1 DEF Put
<1> QED
  BY <1>1, <1>3, <1>4, <1>5

\* The parts of the invariant that a job's step is proved from
LEMMA JobParts ==
    ASSUME GrantInv, NEW c \in Cron
    PROVE  /\ Data /\ Fit(at[c], job[c]) /\ job[c].was.state \in GrantState \cup {Absent}
           /\ \A e \in job[c].todo : e[1] \in Grant /\ e[2].state \in Listed(at[c])
           /\ at[c] \notin Working => job[c].g = None
<1>1. Data /\ Fit(at[c], job[c])
  BY DEF GrantInv, Jobs
<1>2. job[c].was \in GrantRow /\ job[c].todo \subseteq Grant \X GrantRow
  BY <1>1 DEF Fit, JobRow
<1>3. job[c].was.state \in GrantState \cup {Absent}
  BY <1>2 DEF GrantRow
<1> QED
  BY <1>1, <1>2, <1>3 DEF Fit

\* A job reads a list, or ends
LEMMA ListsKeep ==
    ASSUME GrantInv, NEW c \in Cron, JobBegin(c) \/ JobTurn(c) \/ JobEnd(c)
    PROVE  GrantInv'
<1>0. job[c].g = None /\ job[c] \in JobRow
  BY JobParts, Names DEF JobBegin, JobTurn, JobEnd, Fit
<1>1. CASE JobBegin(c)
  <2>1. RevokeList \subseteq Grant
    BY DEF RevokeList, InState, Exists
  <2>2. \A e \in Copies(RevokeList) : e[2].state \in {INSTALLED, CANCELLED}
    BY DEF Copies, RevokeList, InState
  <2>3. Fit("revoke", ListJob(c, RevokeList))
    BY <1>0, <2>1, <2>2, MemoryKept, Names DEF Fit, Listed, Installing
  <2>4. Data'
    BY <1>1, JobParts DEF JobBegin, Data
  <2>5. job' = [job EXCEPT ![c] = ListJob(c, RevokeList)]
    BY <1>1 DEF JobBegin, ListJob, GrantInv, Jobs
  <2> QED
    BY <1>1, <2>3, <2>4, <2>5, JobKept, Names DEF JobBegin, Move
<1>2. CASE JobTurn(c)
  <2>1. InstallList \subseteq Grant
    BY DEF InstallList, InState, Exists
  <2>2. \A e \in Copies(InstallList) : e[2].state \in {REQUESTED}
    BY DEF Copies, InstallList, InState
  <2>3. Fit("grant", ListJob(c, InstallList))
    BY <1>0, <2>1, <2>2, MemoryKept, Names DEF Fit, Listed
  <2>4. Data'
    BY <1>2, JobParts DEF JobTurn, Data
  <2>5. job' = [job EXCEPT ![c] = ListJob(c, InstallList)]
    BY <1>2 DEF JobTurn, ListJob, GrantInv, Jobs
  <2> QED
    BY <1>2, <2>3, <2>4, <2>5, JobKept, Names DEF JobTurn, Move
<1>3. CASE JobEnd(c)
  <2>1. Fit("off", job[c])
    BY <1>0, <1>3, Names DEF Fit, JobEnd
  <2>2. Data'
    BY <1>3, JobParts DEF JobEnd, Data
  <2>3. job' = [job EXCEPT ![c] = job[c]]
    BY <1>3, MemoryIs DEF JobEnd
  <2> QED
    BY <1>3, <2>1, <2>2, <2>3, JobKept, Names DEF JobEnd, Move
<1> QED
  BY <1>1, <1>2, <1>3

\* A job leaves out a grant that another process has changed
LEMMA SkipKeeps ==
    ASSUME GrantInv, NEW c \in Cron, at[c] \in {"revoke", "grant"}, NEW e \in job[c].todo,
           Skip(c, e)
    PROVE  GrantInv'
<1>1. Fit(at[c], PassJob(c, e))
  BY JobParts, MemoryKept, Names DEF Fit
<1>2. Data'
  BY JobParts DEF Skip, Data
<1>3. job' = [job EXCEPT ![c] = PassJob(c, e)]
  BY MemoryIs DEF Skip
<1>4. at' = [at EXCEPT ![c] = at[c]]
  BY DEF Skip, GrantInv, Jobs
<1>5. grants' = grants /\ hit' = hit /\ at[c] \notin Alone
  BY Names DEF Skip
<1> QED
  BY <1>1, <1>2, <1>3, <1>4, <1>5, JobKept

\* A job marks the next grant of its list as its own
LEMMA TakeKeeps ==
    ASSUME GrantInv, NEW c \in Cron, NEW e \in job[c].todo, StillAs(e), NEW a,
           \/ at[c] = "revoke" /\ a \in {"read", "withdraw"}
           \/ at[c] = "grant" /\ a = "user",
           Put(e[1], Mark(a)), Take(c, e), Move(c, a),
           UNCHANGED <<setting, phase, resv, wait, users, remote, hit>>
    PROVE  GrantInv'
<1>1. e[1] \in Grant /\ e[2].state \in Listed(at[c])
  BY JobParts
<1>2. grants[e[1]].state \notin {INSTALLING, REMOVING}
  BY <1>1, Names DEF StillAs, Listed
<1>3. e[1] \notin Others(c) \ hit /\ (e[1] \notin hit => Sole(c, e[1]))
  BY <1>1, <1>2, FreeGrant
<1>4. a \in Alone /\ a \in Step /\ Mark(a) \in GrantState
  BY Names DEF Mark
<1>5. /\ grants' \in [Grant -> GrantRow] /\ grants'[e[1]].state = Mark(a)
      /\ \A h \in Grant \ {e[1]} : grants'[h] = grants[h]
  BY <1>1, <1>4, PutKept
<1>6. Fit(a, TakeJob(c, e))
  BY <1>1, <1>4, JobParts, MemoryKept, Names DEF Fit, Listed, Installing
<1>7. Data'
  BY <1>5, JobParts DEF Data
<1>8. job' = [job EXCEPT ![c] = TakeJob(c, e)] /\ TakeJob(c, e).g = e[1]
  BY MemoryIs, MemoryKept
<1>9. \A g \in Others(c) \ hit' : grants'[g].state = grants[g].state
  <2>1. \A d \in Cron : at[d] \in Alone => job[d].g \in Grant
    BY JobParts, Names DEF Fit
  <2> QED
    BY <1>3, <1>5, <2>1 DEF Others
<1>10. hit' = hit /\ at' = [at EXCEPT ![c] = a]
  BY DEF Move
<1> QED
  BY <1>3, <1>5, <1>6, <1>7, <1>8, <1>9, <1>10, JobKept

\* A job changes its own grant only, or none, and goes on or lets go of it
LEMMA OwnKeeps ==
    ASSUME GrantInv, NEW c \in Cron, at[c] \in Working, NEW a, NEW j, Fit(a, j),
           at' = [at EXCEPT ![c] = a], job' = [job EXCEPT ![c] = j], Data', hit \subseteq hit',
           \/ grants' = grants
           \/ /\ job[c].g \notin Others(c) \ hit'
              /\ \A h \in Grant \ {job[c].g} : grants'[h] = grants[h],
           a \in Alone => /\ at[c] \in Alone /\ Mark(a) = Mark(at[c])
                          /\ grants' = grants /\ j.g = job[c].g
    PROVE  GrantInv'
<1>1. \A g \in Others(c) \ hit' : grants'[g].state = grants[g].state
  <2>1. \A d \in Cron : at[d] \in Alone => job[d].g \in Grant
    BY JobParts, Names DEF Fit
  <2> QED
    BY <2>1 DEF Others
<1>2. a \in Alone => j.g \notin Others(c) \ hit'
  BY OwnGrant
<1>3. a \in Alone /\ j.g \notin hit' => Sole(c, j.g) /\ grants'[j.g].state = Mark(a)
  BY OwnGrant
<1> QED
  BY <1>1, <1>2, <1>3, JobKept

\* An exception: the grant is put back, and the job turns to the next one
LEMMA RetryKeeps ==
    ASSUME GrantInv, NEW c \in Cron, at[c] \in Working, NEW s \in GrantState \cup {Absent},
           NEW l, l = (IF at[c] \in Removing THEN "revoke" ELSE "grant"),
           RetryLater(c, s, l), UNCHANGED <<setting, phase, resv>>,
           hit' \subseteq Grant, hit \subseteq hit', at[c] \in Alone \/ job[c].g \in hit',
           users' \subseteq Grant \X Code, remote' \subseteq Grant \X Code
    PROVE  GrantInv'
<1>1. job[c].g \in Grant /\ job[c].g \notin Others(c) \ hit'
  BY OwnGrant
<1>2. /\ grants' \in [Grant -> GrantRow]
      /\ \A h \in Grant \ {job[c].g} : grants'[h] = grants[h]
  BY <1>1, PutKept DEF RetryLater
<1>3. wait' \subseteq Grant
  BY <1>1, JobParts DEF RetryLater, Data
<1>4. Data'
  BY <1>2, <1>3, JobParts DEF Data
<1>5. Listed(l) = Listed(at[c]) /\ l \in Step \ Working
  BY Names DEF Listed, Installing, Removing
<1>6. Fit(l, DoneJob(c))
  BY <1>5, JobParts, MemoryKept, Names DEF Fit
<1>7. job' = [job EXCEPT ![c] = DoneJob(c)] /\ at' = [at EXCEPT ![c] = l]
  BY MemoryIs DEF RetryLater, Move
<1>8. l \notin Alone
  BY <1>5, Names
<1> QED
  BY <1>1, <1>2, <1>4, <1>6, <1>7, <1>8, OwnKeeps

LEMMA RemoveBeginKeeps ==
    ASSUME GrantInv, NEW c \in Cron, RemoveBegin(c)
    PROVE  GrantInv'
<1>1. PICK e \in job[c].todo :
        \/ Skip(c, e)
        \/ /\ StillAs(e)
           /\ Put(e[1], REMOVING)
           /\ Take(c, e)
           /\ Move(c, IF setting.driver = "abloy" THEN "read" ELSE "withdraw")
           /\ UNCHANGED <<setting, phase, resv, wait, users, remote, hit>>
  BY DEF RemoveBegin
<1>2. at[c] = "revoke"
  BY DEF RemoveBegin
<1>3. CASE Skip(c, e)
  BY <1>2, <1>3, SkipKeeps
<1>4. CASE ~Skip(c, e)
  <2>1. PICK a \in {"read", "withdraw"} : Move(c, a)
    BY <1>1, <1>4
  <2>2. Mark(a) = REMOVING
    BY DEF Mark, Installing
  <2> QED
    BY <1>1, <1>2, <1>4, <2>1, <2>2, TakeKeeps
<1> QED
  BY <1>3, <1>4

LEMMA RemainingKept ==
    ASSUME GrantInv, NEW c \in Cron
    PROVE  Remaining(c) \subseteq Grant \X Code
<1>1. remote \subseteq Grant \X Code /\ job[c].seen \subseteq Grant \X Code
  BY JobParts DEF Data, Fit, JobRow
<1> QED
  BY <1>1 DEF Remaining

LEMMA OverwrittenGrants ==
    ASSUME GrantInv, NEW c \in Cron
    PROVE  Overwritten(c) \subseteq Grant
<1>1. remote \subseteq Grant \X Code /\ job[c].seen \subseteq Grant \X Code
  BY JobParts DEF Data, Fit, JobRow
<1> QED
  BY <1>1 DEF Overwritten

LEMMA RemoveKeeps ==
    ASSUME GrantInv, NEW c \in Cron, Remove(c)
    PROVE  GrantInv'
<1>0. Data /\ job[c].was.state \in GrantState \cup {Absent} /\ Fit(at[c], job[c])
  BY JobParts
<1>1. CASE RemoveBegin(c)
  BY <1>1, RemoveBeginKeeps
<1>2. CASE RemoveRead(c)
  <2>1. Fit("withdraw", SeenJob(c))
    BY <1>0, <1>2, MemoryKept, Names DEF Fit, RemoveRead, Listed, Installing
  <2>2. Data'
    BY <1>0, <1>2 DEF RemoveRead, Data
  <2>3. job' = [job EXCEPT ![c] = SeenJob(c)]
    BY <1>2 DEF RemoveRead, SeenJob, GrantInv, Jobs
  <2>4. /\ at[c] = "read" /\ at' = [at EXCEPT ![c] = "withdraw"] /\ hit' = hit
        /\ grants' = grants /\ SeenJob(c).g = job[c].g
    BY <1>2, MemoryKept DEF RemoveRead, Move
  <2>5. Mark("withdraw") = Mark("read")
    BY DEF Mark, Installing
  <2> QED
    BY <2>1, <2>2, <2>3, <2>4, <2>5, OwnKeeps, Names
<1>3. CASE RemoveReadFails(c)
  <2>1. at[c] \in Removing /\ at[c] \in Alone /\ at[c] \in Working
    BY <1>3, Names DEF RemoveReadFails, Removing
  <2> QED
    BY <1>0, <1>3, <2>1, RetryKeeps DEF RemoveReadFails, RemoveFails, Data
<1>4. CASE RemoveSend(c)
  <2>1. Fit("removed", job[c])
    BY <1>0, <1>4, Names DEF Fit, RemoveSend, Listed, Installing
  <2>2. Data'
    BY <1>0, <1>4, RemainingKept, OverwrittenGrants DEF RemoveSend, Data
  <2>3. job' = [job EXCEPT ![c] = job[c]]
    BY <1>4, MemoryIs DEF RemoveSend
  <2>4. /\ at[c] = "withdraw" /\ at' = [at EXCEPT ![c] = "removed"] /\ hit \subseteq hit'
        /\ grants' = grants
    BY <1>4 DEF RemoveSend, Move
  <2>5. Mark("removed") = Mark("withdraw")
    BY DEF Mark, Installing
  <2> QED
    BY <2>1, <2>2, <2>3, <2>4, <2>5, OwnKeeps, Names
<1>5. CASE RemoveSendFails(c)
  <2>1. at[c] \in Removing /\ at[c] \in Alone /\ at[c] \in Working
    BY <1>5, Names DEF RemoveSendFails, Removing
  <2>2. job[c].g \in Grant
    BY <2>1, OwnGrant
  <2>3. remote' \subseteq Grant \X Code /\ hit' \subseteq Grant /\ hit \subseteq hit'
    BY <1>0, <1>5, <2>2, RemainingKept, OverwrittenGrants DEF RemoveSendFails, Data
  <2> QED
    BY <1>0, <1>5, <2>1, <2>3, RetryKeeps DEF RemoveSendFails, RemoveFails, Data
<1>6. CASE RemoveSave(c)
  <2>1. at[c] = "removed" /\ at[c] \in Alone /\ at[c] \in Working
    BY <1>6, Names DEF RemoveSave
  <2>2. job[c].g \in Grant /\ job[c].g \notin Others(c) \ hit
    BY <2>1, OwnGrant
  <2>3. /\ grants' \in [Grant -> GrantRow]
        /\ \A h \in Grant \ {job[c].g} : grants'[h] = grants[h]
    BY <1>6, <2>2, PutKept, Names DEF RemoveSave
  <2>4. Data'
    BY <1>0, <1>6, <2>3 DEF RemoveSave, Data
  <2>5. Fit("revoke", DoneJob(c))
    BY <1>0, <2>1, MemoryKept, Names DEF Fit, Listed, Installing
  <2>6. /\ job' = [job EXCEPT ![c] = DoneJob(c)] /\ at' = [at EXCEPT ![c] = "revoke"]
        /\ hit' = hit
    BY <1>6, MemoryIs DEF RemoveSave, Move
  <2> QED
    BY <2>1, <2>2, <2>3, <2>4, <2>5, <2>6, OwnKeeps, Names
<1> QED
  BY <1>1, <1>2, <1>3, <1>4, <1>5, <1>6 DEF Remove

\* A grant whose time is over is put aside without looking at its row again
LEMMA InstallOverKeeps ==
    ASSUME GrantInv, NEW c \in Cron, at[c] = "grant", NEW e \in job[c].todo,
           Put(e[1], REMOVED), Pass(c, e),
           hit' = (IF StillAs(e) THEN hit ELSE hit \cup {e[1]}),
           UNCHANGED <<setting, phase, resv, wait, users, remote, at>>
    PROVE  GrantInv'
<1>1. e[1] \in Grant /\ e[2].state = REQUESTED
  BY JobParts DEF Listed
<1>2. StillAs(e) => e[1] \notin Others(c) \ hit
  BY <1>1, FreeGrant, Names DEF StillAs
<1>3. e[1] \notin Others(c) \ hit' /\ hit \subseteq hit'
  BY <1>2
<1>4. /\ grants' \in [Grant -> GrantRow]
      /\ \A h \in Grant \ {e[1]} : grants'[h] = grants[h]
  BY <1>1, PutKept, Names
<1>5. \A g \in Others(c) \ hit' : grants'[g].state = grants[g].state
  <2>1. Others(c) \subseteq Grant
    BY JobParts, Names DEF Fit, Others
  <2>2. \A g \in Others(c) \ hit' : g \in Grant \ {e[1]}
    BY <1>3, <2>1
  <2> QED
    BY <1>4, <2>2
<1>6. Data'
  <2>1. Data /\ hit' \subseteq Grant
    BY <1>1, JobParts DEF Data
  <2> QED
    BY <1>4, <2>1 DEF Data
<1>7. Fit("grant", PassJob(c, e))
  BY JobParts, MemoryKept, Names DEF Fit
<1>8. job' = [job EXCEPT ![c] = PassJob(c, e)] /\ at' = [at EXCEPT ![c] = "grant"]
  BY MemoryIs DEF GrantInv, Jobs
<1> QED
  BY <1>3, <1>5, <1>6, <1>7, <1>8, JobKept, Names

LEMMA InstallBeginKeeps ==
    ASSUME GrantInv, NEW c \in Cron, InstallBegin(c)
    PROVE  GrantInv'
<1>1. at[c] = "grant"
  BY DEF InstallBegin
<1>2. PICK e \in job[c].todo :
        \/ /\ Over(e[1])
           /\ Put(e[1], REMOVED)
           /\ Pass(c, e)
           /\ hit' = IF StillAs(e) THEN hit ELSE hit \cup {e[1]}
           /\ UNCHANGED <<setting, phase, resv, wait, users, remote, at>>
        \/ ~Over(e[1]) /\ Skip(c, e)
        \/ /\ ~Over(e[1]) /\ StillAs(e)
           /\ Put(e[1], INSTALLING)
           /\ Take(c, e)
           /\ Move(c, "user")
           /\ UNCHANGED <<setting, phase, resv, wait, users, remote, hit>>
  BY DEF InstallBegin
<1>3. CASE Over(e[1])
  BY <1>1, <1>2, <1>3, InstallOverKeeps
<1>4. CASE Skip(c, e)
  BY <1>1, <1>4, SkipKeeps
<1>5. CASE ~Over(e[1]) /\ ~Skip(c, e)
  <2>1. Mark("user") = INSTALLING
    BY DEF Mark, Installing
  <2> QED
    BY <1>1, <1>2, <1>5, <2>1, TakeKeeps
<1> QED
  BY <1>3, <1>4, <1>5

LEMMA InstallKeeps ==
    ASSUME GrantInv, NEW c \in Cron, Install(c)
    PROVE  GrantInv'
<1>0. Data /\ Fit(at[c], job[c])
  BY JobParts
<1>1. CASE InstallBegin(c)
  BY <1>1, InstallBeginKeeps
<1>2. CASE CreateUser(c)
  <2>0. at[c] = "user" /\ at[c] \in Alone /\ at[c] \in Working /\ at[c] \notin Removing
    BY <1>2, Names DEF CreateUser, Removing
  <2>1. job[c].g \in Grant
    BY <2>0, OwnGrant
  <2>2. ASSUME NEW k \in Pins,
               users' = users \cup {<<job[c].g, k>>}, job' = [job EXCEPT ![c].code = k],
               hit' = IF ChosenTwice(c, k) THEN hit \cup {job[c].g} ELSE hit,
               Move(c, "send"), UNCHANGED <<setting, phase, resv, grants, wait, remote>>
        PROVE  GrantInv'
    <3>1. k \in Code
      BY <2>2 DEF Pins, FreeCodes
    <3>2. Data'
      BY <1>0, <2>1, <2>2, <3>1 DEF Data
    <3>3. Fit("send", CodeJob(c, k))
      BY <1>0, <2>0, <3>1, MemoryKept, Names DEF Fit, Listed, Installing
    <3>4. job' = [job EXCEPT ![c] = CodeJob(c, k)] /\ at' = [at EXCEPT ![c] = "send"]
      BY <2>2 DEF CodeJob, Move, GrantInv, Jobs
    <3>5. Mark("send") = Mark("user") /\ CodeJob(c, k).g = job[c].g
      BY <3>1, MemoryKept DEF Mark, Installing
    <3> QED
      BY <2>0, <2>2, <3>2, <3>3, <3>4, <3>5, OwnKeeps
  <2>3. CASE InstallFails(c) /\ UNCHANGED <<users, remote, hit>>
    BY <1>0, <2>0, <2>3, RetryKeeps, Names DEF InstallFails, Data
  <2> QED
    BY <1>2, <2>2, <2>3 DEF CreateUser
<1>3. CASE InstallSend(c)
  <2>1. at[c] = "send" /\ at[c] \in Alone /\ at[c] \in Working
    BY <1>3, Names DEF InstallSend
  <2>2. job[c].g \in Grant /\ job[c].code \in Code
    BY <1>0, <2>1, OwnGrant DEF Fit
  <2>3. Data'
    BY <1>0, <1>3, <2>2 DEF InstallSend, Data
  <2>4. Fit("save", job[c])
    BY <1>0, <2>1, <2>2, Names DEF Fit, Listed, Installing
  <2>5. job' = [job EXCEPT ![c] = job[c]] /\ at' = [at EXCEPT ![c] = "save"]
    BY <1>3, MemoryIs DEF InstallSend, Move
  <2>6. Mark("save") = Mark("send") /\ grants' = grants /\ hit' = hit
    BY <1>3 DEF Mark, Installing, InstallSend
  <2> QED
    BY <2>1, <2>3, <2>4, <2>5, <2>6, OwnKeeps
<1>4. CASE InstallSendFails(c)
  <2>1. at[c] = "send" /\ at[c] \in Alone /\ at[c] \in Working /\ at[c] \notin Removing
    BY <1>4, Names DEF InstallSendFails, Removing
  <2>2. job[c].g \in Grant /\ job[c].code \in Code
    BY <1>0, <2>1, OwnGrant DEF Fit
  <2>3. /\ remote' \subseteq Grant \X Code /\ users' \subseteq Grant \X Code
        /\ hit' \subseteq Grant /\ hit \subseteq hit'
    BY <1>0, <1>4, <2>2 DEF InstallSendFails, Data
  <2> QED
    BY <1>4, <2>1, <2>3, RetryKeeps, Names DEF InstallSendFails, InstallFails
<1>5. CASE InstallSave(c)
  <2>1. at[c] = "save" /\ at[c] \in Alone /\ at[c] \in Working
    BY <1>5, Names DEF InstallSave
  <2>2. job[c].g \in Grant /\ job[c].g \notin Others(c) \ hit /\ job[c].code \in Code
    BY <1>0, <2>1, OwnGrant DEF Fit
  <2>3. /\ grants' \in [Grant -> GrantRow]
        /\ \A h \in Grant \ {job[c].g} : grants'[h] = grants[h]
    <3>1. PICK k \in Code \cup {None} : k = job[c].code
      BY <2>2
    <3> DEFINE row == [grants[job[c].g] EXCEPT !.state = INSTALLED, !.code = k]
    <3>2. grants \in [Grant -> GrantRow] /\ grants[job[c].g] \in GrantRow
      BY <1>0, <2>2 DEF Data
    <3>3. row \in GrantRow
      BY <3>2, RowKept, Names
    <3>4. grants' = [grants EXCEPT ![job[c].g] = row]
      BY <1>5, <2>2, <3>1, <3>2 DEF InstallSave
    <3> QED
      BY <2>2, <3>2, <3>3, <3>4
  <2>4. Data'
    BY <1>0, <1>5, <2>3 DEF InstallSave, Data
  <2>5. Fit("notify", job[c])
    BY <1>0, <2>1, Names DEF Fit, Listed, Installing
  <2>6. /\ job' = [job EXCEPT ![c] = job[c]] /\ at' = [at EXCEPT ![c] = "notify"]
        /\ hit' = hit
    BY <1>5, MemoryIs DEF InstallSave, Move
  <2> QED
    BY <2>1, <2>2, <2>3, <2>4, <2>5, <2>6, OwnKeeps, Names
<1>6. CASE Notify(c)
  <2>1. at[c] = "notify" /\ at[c] \in Working
    BY <1>6, Names DEF Notify
  <2>2. Data'
    BY <1>0, <1>6 DEF Notify, Data
  <2>3. Fit("grant", DoneJob(c))
    BY <1>0, <2>1, MemoryKept, Names DEF Fit, Listed
  <2>4. /\ job' = [job EXCEPT ![c] = DoneJob(c)] /\ at' = [at EXCEPT ![c] = "grant"]
        /\ hit' = hit /\ grants' = grants
    BY <1>6, MemoryIs DEF Notify, Move
  <2> QED
    BY <2>1, <2>2, <2>3, <2>4, OwnKeeps, Names
<1>7. CASE NotifyFails(c)
  <2>1. at[c] = "notify" /\ at[c] \in Working /\ at[c] \notin Removing
    BY <1>7, Names DEF NotifyFails, Removing
  <2>2. job[c].g \in Grant
    BY <2>1, OwnGrant
  <2>3. hit' \subseteq Grant /\ hit \subseteq hit' /\ job[c].g \in hit'
    BY <1>0, <1>7, <2>2 DEF NotifyFails, Data
  <2> QED
    BY <1>0, <1>7, <2>1, <2>3, RetryKeeps, Names DEF NotifyFails, InstallFails, Data
<1> QED
  BY <1>1, <1>2, <1>3, <1>4, <1>5, <1>6, <1>7 DEF Install

LEMMA CrashKeeps ==
    ASSUME GrantInv, NEW c \in Cron, Crash(c)
    PROVE  GrantInv'
<1>1. at[c] \in Working /\ job[c].g \in Grant
  BY OwnGrant DEF Crash
<1>2. Data' /\ hit \subseteq hit'
  BY <1>1, JobParts DEF Crash, Data
<1>3. Fit("off", Idle)
  BY IdleRow, Names DEF Fit, Idle
<1>4. job' = [job EXCEPT ![c] = Idle] /\ at' = [at EXCEPT ![c] = "off"] /\ grants' = grants
  BY DEF Crash, Move
<1> QED
  BY <1>1, <1>2, <1>3, <1>4, OwnKeeps, Names

-----------------------------------------------------------------------------
(* The theorems                                                            *)

LEMMA InitInv == Init => GrantInv
<1> SUFFICES ASSUME Init PROVE GrantInv
  OBVIOUS
<1>1. Data
  BY IdleRow DEF Init, Data
<1>2. Jobs
  BY IdleRow, Names DEF Init, Jobs, Fit, Idle
<1>3. ExclusiveAccess
  BY Names DEF Init, ExclusiveAccess
<1> QED
  BY <1>1, <1>2, <1>3 DEF GrantInv

LEMMA StepInv == GrantInv /\ [Next]_vars => GrantInv'
<1> SUFFICES ASSUME GrantInv, [Next]_vars PROVE GrantInv'
  OBVIOUS
<1>1. CASE Request
  BY <1>1, RequestsKeep
<1>2. CASE Clock
  BY <1>2, ClockKeeps
<1>3. ASSUME NEW c \in Cron, Job(c)
      PROVE  GrantInv'
  BY <1>3, ListsKeep, RemoveKeeps, InstallKeeps DEF Job
<1>4. ASSUME NEW c \in Cron, Crash(c)
      PROVE  GrantInv'
  BY <1>4, CrashKeeps
<1>5. CASE UNCHANGED vars
  <2>1. Data'
    BY <1>5 DEF vars, GrantInv, Data
  <2> QED
    BY <1>5, <2>1, RowsKept DEF vars
<1> QED
  BY <1>1, <1>2, <1>3, <1>4, <1>5 DEF Next

\* Rows, lists and memories keep their types, whatever the jobs read and write back.
THEOREM TypeInvariant == Spec => []TypeOK
<1>1. Spec => []GrantInv
  BY InitInv, StepInv, PTL DEF Spec
<1> QED
  BY <1>1, InvTypes, PTL

\* "After the state is set to 'installing', we have exclusive access" (models.py): for
\* any number of jobs and grants, and although a job that finds a grant's time over
\* writes a row that it has not read again.
THEOREM WorkedOnAlone == Spec => []ExclusiveAccess
<1>1. Spec => []GrantInv
  BY InitInv, StepInv, PTL DEF Spec
<1>2. GrantInv => ExclusiveAccess
  BY DEF GrantInv
<1> QED
  BY <1>1, <1>2, PTL

-----------------------------------------------------------------------------
(* The life of a grant: AccessGrants implements GrantLife                  *)

-----------------------------------------------------------------------------
(* The inductive invariant                                                 *)

\* The codes with which a grant opens the door
Tok(g) == {t[2] : t \in {t \in remote : t[1] = g}}

\* A grant with code k that is not to be installed again
Settled(g, k) ==
    grants[g].state \in {INSTALLED, CANCELLED, REMOVING, REMOVED} /\ grants[g].code = k

\* A grant opens the door with the code its row knows, or that of the job that installs it
TokOK(g) ==
    \/ Tok(g) = {}
    \/ grants[g].state \in {INSTALLED, CANCELLED, REMOVING} /\ Tok(g) \subseteq {grants[g].code}
    \/ /\ grants[g].state = INSTALLING
       /\ \E c \in Cron : at[c] = "save" /\ job[c].g = g /\ Tok(g) \subseteq {job[c].code}

RowOK(g) == TokOK(g) /\ (grants[g].state # Absent => grants[g].period \in Period)

\* The copies of installed grants in a list have the codes of the rows
TodoOK(T) == \A e \in T : e[1] \notin hit =>
    /\ grants[e[1]].state # Absent
    /\ e[2].state \in {INSTALLED, CANCELLED} => Settled(e[1], e[2].code)

\* What job c at step a, with memory j, may rely on
MemOf(c, a, j) ==
    /\ TodoOK(j.todo)
    /\ a \in Working /\ j.g \notin hit => grants[j.g].state # Absent
    /\ a \in Removing => /\ j.was.state \in {INSTALLED, CANCELLED}
                         /\ j.g \notin hit => grants[j.g].code = j.was.code
    /\ a = "removed" /\ j.g \notin hit => Tok(j.g) = {}
    /\ a # "off" => c \in setting.cron
    /\ setting.driver = "abloy" /\ a = "withdraw" =>
            \A t \in j.seen : t[1] \in hit \/ grants[t[1]].state # Absent

LifeInv ==
    /\ GrantInv
    /\ \A g \in Grant \ hit : RowOK(g)
    /\ \A c \in Cron : MemOf(c, at[c], job[c])

-----------------------------------------------------------------------------
(* What a step does to one grant                                           *)

Turns == {<<REQUESTED, REMOVED>>, <<REQUESTED, INSTALLING>>, <<INSTALLED, CANCELLED>>,
          <<INSTALLED, REMOVING>>, <<CANCELLED, REMOVING>>, <<REMOVING, INSTALLED>>,
          <<REMOVING, CANCELLED>>}

RowTurns(g, edges) ==
    /\ <<grants[g].state, grants'[g].state>> \in edges
    /\ grants'[g].period = grants[g].period /\ grants'[g].code = grants[g].code

\* Nothing, and a job that is about to save the grant still is
Rests(g) ==
    /\ grants'[g] = grants[g] /\ Tok(g)' = Tok(g)
    /\ \A c \in Cron : at[c] = "save" /\ job[c].g = g =>
          at'[c] = "save" /\ job'[c].g = g /\ job'[c].code = job[c].code

\* A request asks for it
Starts(g) ==
    /\ grants[g].state = Absent /\ Tok(g)' = Tok(g)
    /\ grants'[g].state = REQUESTED /\ grants'[g].period \in Period

\* It is installed, with its code or none
Saved(g) ==
    /\ grants[g].state = INSTALLING /\ grants'[g].state = INSTALLED /\ Tok(g)' = Tok(g)
    /\ grants'[g].period = grants[g].period /\ Tok(g) \subseteq {grants'[g].code}

\* The remote system gets the code
Sent(g) ==
    /\ grants'[g] = grants[g] /\ grants[g].state = INSTALLING /\ Tok(g) \subseteq Tok(g)'
    /\ \E c \in Cron : at'[c] = "save" /\ job'[c].g = g /\ Tok(g)' \subseteq {job'[c].code}

\* The remote system withdraws codes
Withdrawn(g) ==
    /\ grants'[g] = grants[g] /\ Tok(g)' \subseteq Tok(g)
    /\ grants[g].state \in {INSTALLED, CANCELLED, REMOVING}

GrantStep(g) ==
    \/ Rests(g) \/ Starts(g) \/ Saved(g) \/ Sent(g) \/ Withdrawn(g)
    \/ RowTurns(g, Turns) /\ Tok(g)' = Tok(g)
    \/ /\ RowTurns(g, {<<INSTALLING, REQUESTED>>, <<REMOVING, REMOVED>>})
       /\ Tok(g) = {} /\ Tok(g)' = {}

\* What every step does
LifeStep ==
    /\ setting' = setting /\ hit \subseteq hit' /\ hit' \ hit \subseteq Exists
    /\ \A p \in Period : phase[p] = "over" => phase'[p] = "over"
    /\ \A g \in Grant \ hit' : GrantStep(g)

\* The states of a grant differ
LEMMA Apart ==
    /\ REQUESTED = "requested" /\ INSTALLING = "installing" /\ INSTALLED = "installed"
    /\ CANCELLED = "cancelled" /\ REMOVING = "removing" /\ REMOVED = "removed"
    /\ Absent = "absent"
BY DEF REQUESTED, INSTALLING, INSTALLED, CANCELLED, REMOVING, REMOVED, Absent

LEMMA RowStaysOK ==
    ASSUME NEW g \in Grant, RowOK(g), GrantStep(g)
    PROVE  RowOK(g)'
<1>1. CASE Rests(g)
  BY <1>1 DEF Rests, RowOK, TokOK
<1>2. CASE Starts(g)
  <2>1. Tok(g)' = {}
    BY <1>2, Apart DEF Starts, RowOK, TokOK
  <2> QED
    BY <1>2, <2>1 DEF Starts, RowOK, TokOK
<1>3. CASE Saved(g)
  BY <1>3, Apart DEF Saved, RowOK, TokOK
<1>4. CASE Sent(g)
  BY <1>4, Apart DEF Sent, RowOK, TokOK
<1>5. CASE Withdrawn(g)
  BY <1>5, Apart DEF Withdrawn, RowOK, TokOK
<1>6. CASE RowTurns(g, Turns) /\ Tok(g)' = Tok(g)
  BY <1>6, Apart DEF RowTurns, Turns, RowOK, TokOK
<1>7. CASE /\ RowTurns(g, {<<INSTALLING, REQUESTED>>, <<REMOVING, REMOVED>>})
           /\ Tok(g) = {} /\ Tok(g)' = {}
  BY <1>7, Apart DEF RowTurns, RowOK, TokOK
<1> QED
  BY <1>1, <1>2, <1>3, <1>4, <1>5, <1>6, <1>7 DEF GrantStep

LEMMA RowFacts ==
    ASSUME NEW g \in Grant, GrantStep(g)
    PROVE  /\ grants[g].state # Absent => grants'[g].state # Absent
           /\ \A k : Settled(g, k) => grants'[g].code = k
                       /\ grants'[g].state \in {INSTALLED, CANCELLED, REMOVING, REMOVED}
           /\ grants[g].state = REMOVING => grants'[g].code = grants[g].code
           /\ grants[g].state = REMOVING /\ Tok(g) = {} => Tok(g)' = {}
<1>1. CASE Rests(g)
  BY <1>1 DEF Rests, Settled
<1>2. CASE Starts(g)
  BY <1>2, Apart DEF Starts, Settled
<1>3. CASE Saved(g)
  BY <1>3, Apart DEF Saved, Settled
<1>4. CASE Sent(g)
  BY <1>4, Apart DEF Sent, Settled
<1>5. CASE Withdrawn(g)
  BY <1>5, Apart DEF Withdrawn, Settled
<1>6. CASE RowTurns(g, Turns) /\ Tok(g)' = Tok(g)
  BY <1>6, Apart DEF RowTurns, Turns, Settled
<1>7. CASE /\ RowTurns(g, {<<INSTALLING, REQUESTED>>, <<REMOVING, REMOVED>>})
           /\ Tok(g) = {} /\ Tok(g)' = {}
  BY <1>7, Apart DEF RowTurns, Settled
<1> QED
  BY <1>1, <1>2, <1>3, <1>4, <1>5, <1>6, <1>7 DEF GrantStep

LEMMA TodoKept ==
    ASSUME LifeStep, NEW T \in SUBSET (Grant \X GrantRow), TodoOK(T)
    PROVE  TodoOK(T)'
<1> SUFFICES ASSUME NEW e \in T, e[1] \notin hit'
             PROVE  /\ grants'[e[1]].state # Absent
                    /\ e[2].state \in {INSTALLED, CANCELLED} => Settled(e[1], e[2].code)'
  BY DEF TodoOK
<1>1. e[1] \in Grant \ hit' /\ e[1] \notin hit /\ GrantStep(e[1])
  BY DEF LifeStep
<1>2. grants[e[1]].state # Absent
      /\ (e[2].state \in {INSTALLED, CANCELLED} => Settled(e[1], e[2].code))
  BY <1>1 DEF TodoOK
<1> QED
  BY <1>1, <1>2, RowFacts DEF Settled

\* The memory of a job that does nothing stays right
LEMMA OthersKept ==
    ASSUME LifeInv, LifeStep, NEW c \in Cron,
           at'[c] = at[c], job'[c] = job[c]
    PROVE  MemOf(c, at[c], job[c])'
<1>0. PICK a \in Step, j \in JobRow : a = at[c] /\ j = job[c]
  BY DEF LifeInv, GrantInv, Jobs
<1>1. MemOf(c, a, j)
  BY <1>0 DEF LifeInv
<1>2. j.todo \in SUBSET (Grant \X GrantRow)
  BY <1>0 DEF JobRow
<1>3. TodoOK(j.todo)'
  BY <1>1, <1>2, TodoKept DEF MemOf
<1>4. ASSUME a \in Working, j.g \notin hit'
      PROVE  /\ j.g \in Grant /\ j.g \notin hit /\ GrantStep(j.g)
             /\ a \in Removing => grants[j.g].state = REMOVING
  <2>1. j.g \in Grant /\ j.g \notin hit
    BY <1>0, <1>4, OwnGrant DEF LifeInv, LifeStep
  <2>2. a \in Removing => grants[j.g].state = REMOVING
    BY <1>0, <2>1, Names DEF LifeInv, GrantInv, ExclusiveAccess, Alone, Installing, Removing
  <2> QED
    BY <1>4, <2>1, <2>2 DEF LifeStep
<1>5. a \in Working /\ j.g \notin hit' => grants'[j.g].state # Absent
  BY <1>1, <1>4, RowFacts DEF MemOf
<1>6. a \in Removing => a \in Working
  BY DEF Working, Alone
<1>7. a \in Removing => /\ j.was.state \in {INSTALLED, CANCELLED}
                        /\ j.g \notin hit' => grants'[j.g].code = j.was.code
  BY <1>1, <1>4, <1>6, RowFacts DEF MemOf
<1>8. a = "removed" /\ j.g \notin hit' => Tok(j.g)' = {}
  <2>1. a = "removed" => a \in Removing
    BY DEF Removing
  <2> QED
    BY <1>1, <1>4, <1>6, <2>1, RowFacts DEF MemOf
<1>9. a # "off" => c \in setting'.cron
  BY <1>1 DEF MemOf, LifeStep
<1>10. setting'.driver = "abloy" /\ a = "withdraw" =>
            \A t \in j.seen : t[1] \in hit' \/ grants'[t[1]].state # Absent
  <2> SUFFICES ASSUME setting.driver = "abloy", a = "withdraw", NEW t \in j.seen, t[1] \notin hit'
               PROVE  grants'[t[1]].state # Absent
    BY DEF LifeStep
  <2>1. t[1] \in Grant \ hit' /\ t[1] \notin hit
    BY DEF JobRow, LifeStep
  <2>2. grants[t[1]].state # Absent /\ GrantStep(t[1])
    BY <1>1, <2>1 DEF MemOf, LifeStep
  <2> QED
    BY <2>1, <2>2, RowFacts
<1>11. MemOf(c, a, j)'
  BY <1>3, <1>5, <1>7, <1>8, <1>9, <1>10 DEF MemOf
<1> QED
  BY <1>0, <1>11

\* Step, rows and memories together: the invariant is kept
LEMMA LifeKept ==
    ASSUME LifeInv, [Next]_vars, LifeStep,
           \A c \in Cron : MemOf(c, at[c], job[c])'
    PROVE  LifeInv'
<1>1. GrantInv'
  BY StepInv DEF LifeInv
<1>2. ASSUME NEW g \in Grant \ hit'
      PROVE  RowOK(g)'
  <2>1. g \notin hit /\ GrantStep(g) /\ RowOK(g)
    BY DEF LifeStep, LifeInv
  <2> QED
    BY <2>1, RowStaysOK
<1> QED
  BY <1>1, <1>2 DEF LifeInv

\* Requests and time change no job and no token
LEMMA FrameKeeps ==
    ASSUME LifeInv, [Next]_vars, LifeStep, UNCHANGED <<at, job, remote>>
    PROVE  LifeInv'
<1>1. \A c \in Cron : MemOf(c, at[c], job[c])'
  BY OthersKept
<1> QED
  BY <1>1, LifeKept

\* A job takes a step
LEMMA MoveKeeps ==
    ASSUME LifeInv, [Next]_vars, NEW c \in Cron, NEW a, NEW j,
           at' = [at EXCEPT ![c] = a], job' = [job EXCEPT ![c] = j],
           LifeStep, MemOf(c, a, j)'
    PROVE  LifeInv'
<1>1. /\ at'[c] = a /\ job'[c] = j
      /\ \A d \in Cron \ {c} : at'[d] = at[d] /\ job'[d] = job[d]
  BY DEF LifeInv, GrantInv, Jobs
<1>2. MemOf(c, at[c], job[c])'
  BY <1>1
<1>3. ASSUME NEW d \in Cron \ {c}
      PROVE  MemOf(d, at[d], job[d])'
  BY <1>1, OthersKept
<1> QED
  BY <1>2, <1>3, LifeKept

LEMMA TokFrame == remote' = remote => \A g : Tok(g)' = Tok(g)
BY DEF Tok

-----------------------------------------------------------------------------
(* Requests and time                                                       *)

\* A cancellation withdraws a request or an installation, or leaves the row as it is
LEMMA CancelTurns ==
    ASSUME NEW row \in GrantRow, row.state # Absent, NEW new,
           new = [row EXCEPT !.state = CancelTo(@)]
    PROVE  \/ new = row
           \/ <<row.state, new.state>> \in Turns /\ new.period = row.period /\ new.code = row.code
<1>1. new = [row EXCEPT !.state = CancelTo(row.state)]
  OBVIOUS
<1>2. new.state = CancelTo(row.state) /\ new.period = row.period /\ new.code = row.code
  BY <1>1 DEF GrantRow
<1>3. CASE row.state \in {REQUESTED, INSTALLED}
  BY <1>2, <1>3, Apart DEF CancelTo, Turns
<1>4. CASE row.state \notin {REQUESTED, INSTALLED}
  <2>1. CancelTo(row.state) = row.state
    BY <1>4 DEF CancelTo
  <2>2. new = row
    BY <1>1, <2>1 DEF GrantRow
  <2> QED
    BY <2>2
<1> QED
  BY <1>3, <1>4

\* A row that a request leaves alone, cancels or makes
LEMMA RequestStep ==
    ASSUME LifeInv, UNCHANGED <<at, job, remote>>, NEW g \in Grant,
           \/ grants'[g] = grants[g]
           \/ grants[g].state # Absent /\ grants'[g] = [grants[g] EXCEPT !.state = CancelTo(@)]
           \/ /\ grants[g].state = Absent
              /\ grants'[g].state = REQUESTED /\ grants'[g].period \in Period
    PROVE  GrantStep(g)
<1>0. grants[g] \in GrantRow /\ Tok(g)' = Tok(g)
  BY TokFrame DEF LifeInv, GrantInv, Data
<1>1. CASE grants'[g] = grants[g]
  BY <1>0, <1>1 DEF GrantStep, Rests
<1>2. CASE grants[g].state # Absent /\ grants'[g] = [grants[g] EXCEPT !.state = CancelTo(@)]
  <2>1. \/ grants'[g] = grants[g]
        \/ RowTurns(g, Turns)
    BY <1>0, <1>2, CancelTurns DEF RowTurns
  <2> QED
    BY <1>0, <1>1, <2>1 DEF GrantStep
<1>3. CASE /\ grants[g].state = Absent
           /\ grants'[g].state = REQUESTED /\ grants'[g].period \in Period
  BY <1>0, <1>3 DEF GrantStep, Starts
<1> QED
  BY <1>1, <1>2, <1>3

LEMMA AccessStep ==
    ASSUME LifeInv, UNCHANGED <<at, job, remote>>, NEW r \in Reservation, NEW g \in Grant,
           RevokeAccess(r) \/ \E p \in Period : GrantAccess(r, p)
    PROVE  GrantStep(g)
<1>1. CASE RevokeAccess(r)
  BY <1>1, ActiveExist, RequestStep DEF RevokeAccess, Exists
<1>2. ASSUME NEW p \in Period, GrantAccess(r, p)
      PROVE  GrantStep(g)
  <2>1. CASE grants' = grants
    BY <2>1, RequestStep
  <2>2. CASE grants' # grants
    <3>0. setting.grants \subseteq Grant
      BY SettingRows DEF LifeInv
    <3>1. PICK new \in Grant \ Exists : grants' = [h \in Grant |->
                    IF h = new
                    THEN [state |-> REQUESTED, resv |-> r, period |-> p, code |-> None]
                    ELSE IF h \in Active(r) THEN [grants[h] EXCEPT !.state = CancelTo(@)]
                    ELSE grants[h]]
      BY <3>0, <1>2, <2>2 DEF GrantAccess
    <3> QED
      BY <3>1, ActiveExist, RequestStep DEF Exists
  <2> QED
    BY <2>1, <2>2
<1> QED
  BY <1>1, <1>2

LEMMA RequestsLive ==
    ASSUME LifeInv, Request
    PROVE  LifeStep /\ LifeInv'
<1> PICK r \in Reservation :
        Confirm(r) \/ Deny(r) \/ Cancel(r) \/ \E p \in Period : Modify(r, p)
  BY DEF Request
<1>1. UNCHANGED <<setting, phase, remote, at, job, hit>>
  BY DEF Confirm, Deny, Cancel, Modify
<1>2. \/ grants' = grants
      \/ RevokeAccess(r) \/ \E p \in Period : GrantAccess(r, p)
  BY DEF Confirm, Deny, Cancel, Modify, LifeInv, GrantInv, Data
<1>3. \A g \in Grant : GrantStep(g)
  BY <1>1, <1>2, AccessStep, RequestStep
<1>4. LifeStep
  BY <1>1, <1>3 DEF LifeStep
<1>5. [Next]_vars
  BY DEF Next
<1> QED
  BY <1>1, <1>4, <1>5, FrameKeeps

LEMMA ClockLives ==
    ASSUME LifeInv, Clock \/ UNCHANGED vars
    PROVE  LifeStep /\ LifeInv'
<1>1. UNCHANGED <<setting, grants, remote, at, job, hit>>
  BY DEF Clock, TimePasses, Retry, vars
<1>2. \A p \in Period : phase[p] = "over" => phase'[p] = "over"
  BY DEF Clock, TimePasses, Retry, vars, LifeInv, GrantInv, Data
<1>3. LifeStep
  BY <1>1, <1>2, RequestStep DEF LifeStep
<1>4. [Next]_vars
  BY DEF Next
<1> QED
  BY <1>1, <1>3, <1>4, FrameKeeps

-----------------------------------------------------------------------------
(* Jobs                                                                    *)

\* What a job knows of the grant it works on
LEMMA OwnFacts ==
    ASSUME LifeInv, NEW c \in Cron, at[c] \in Working
    PROVE  /\ job[c].g \in Grant /\ at[c] # "off" /\ c \in setting.cron
           /\ job[c].g \notin hit => job[c].g \in Exists
           /\ at[c] \in Alone /\ job[c].g \notin hit =>
                Sole(c, job[c].g) /\ grants[job[c].g].state = Mark(at[c])
           /\ at[c] \in Removing =>
                /\ job[c].was.state \in {INSTALLED, CANCELLED}
                /\ job[c].g \notin hit => grants[job[c].g].code = job[c].was.code
<1>1. at[c] # "off" /\ MemOf(c, at[c], job[c])
  BY Names DEF LifeInv
<1> QED
  BY <1>1, OwnGrant DEF LifeInv, MemOf, Exists

\* While a grant is being installed, its code is not out before the job sends it
LEMMA NoToken ==
    ASSUME LifeInv, NEW c \in Cron, at[c] \in Installing, job[c].g \notin hit
    PROVE  /\ grants[job[c].g].state = INSTALLING
           /\ at[c] # "save" => Tok(job[c].g) = {}
           /\ at[c] = "save" => Tok(job[c].g) \subseteq {job[c].code}
<1>1. at[c] \in Alone /\ at[c] \in Working /\ Mark(at[c]) = INSTALLING
  BY DEF Alone, Working, Mark
<1>2. /\ job[c].g \in Grant /\ Sole(c, job[c].g)
      /\ grants[job[c].g].state = INSTALLING
  BY <1>1, OwnFacts
<1>3. TokOK(job[c].g)
  BY <1>2 DEF LifeInv, RowOK
<1>4. \A d \in Cron : at[d] = "save" /\ job[d].g = job[c].g => d = c
  BY <1>2 DEF Sole
<1> QED
  BY <1>2, <1>3, <1>4, Apart DEF TokOK

\* A grant that a job's step does not touch
LEMMA RestsIf ==
    ASSUME LifeInv, NEW c \in Cron, NEW a, NEW j,
           at' = [at EXCEPT ![c] = a], job' = [job EXCEPT ![c] = j],
           NEW g \in Grant, grants'[g] = grants[g], Tok(g)' = Tok(g),
           ~(at[c] = "save" /\ job[c].g = g)
    PROVE  GrantStep(g)
<1>1. \A d \in Cron \ {c} : at'[d] = at[d] /\ job'[d] = job[d]
  BY DEF LifeInv, GrantInv, Jobs
<1>2. \A d \in Cron : at[d] = "save" /\ job[d].g = g => d # c
  OBVIOUS
<1>3. Rests(g)
  BY <1>1, <1>2 DEF Rests
<1> QED
  BY <1>3 DEF GrantStep

\* A step of a job on its own grant, and on those that it strikes
LEMMA OwnStep ==
    ASSUME LifeInv, NEW c \in Cron, at[c] \in Working, NEW a, NEW j,
           NEW g \in Grant, g = job[c].g,
           at' = [at EXCEPT ![c] = a], job' = [job EXCEPT ![c] = j],
           UNCHANGED <<setting, phase>>,
           hit \subseteq hit', hit' \ hit \subseteq Exists \cup {g},
           \A h \in Grant \ {g} : grants'[h] = grants[h],
           \A h \in Grant \ (hit' \cup {g}) : Tok(h)' = Tok(h),
           g \notin hit' => GrantStep(g)
    PROVE  LifeStep
<1>1. hit' \ hit \subseteq Exists
  BY OwnFacts
<1>2. ASSUME NEW h \in Grant \ hit', h # g
      PROVE  GrantStep(h)
  BY <1>2, RestsIf
<1> QED
  BY <1>1, <1>2 DEF LifeStep

\* A step that changes no row and no token
LEMMA QuietStep ==
    ASSUME LifeInv, NEW c \in Cron, NEW a, NEW j,
           at' = [at EXCEPT ![c] = a], job' = [job EXCEPT ![c] = j],
           UNCHANGED <<setting, phase, grants, remote>>,
           hit \subseteq hit', hit' \ hit \subseteq Exists,
           at[c] = "save" => job[c].g \in hit'
    PROVE  LifeStep
BY TokFrame, RestsIf DEF LifeStep

\* A job lets go of its grant, or leaves one out
LEMMA LetGo ==
    ASSUME LifeInv, LifeStep, NEW c \in Cron, at[c] # "off", NEW a \in {"revoke", "grant"},
           NEW j \in JobRow, j.todo \subseteq job[c].todo
    PROVE  MemOf(c, a, j)'
<1>1. TodoOK(job[c].todo) /\ c \in setting.cron
  BY DEF LifeInv, MemOf
<1>2. j.todo \in SUBSET (Grant \X GrantRow) /\ TodoOK(j.todo)
  BY <1>1 DEF JobRow, TodoOK
<1>3. TodoOK(j.todo)'
  BY <1>2, TodoKept
<1>4. a \notin Working /\ a \notin Removing /\ a \notin {"removed", "withdraw"}
  BY Names DEF Removing
<1> QED
  BY <1>1, <1>3, <1>4 DEF MemOf, LifeStep

\* A list that is read from the rows as they are
LEMMA ListRead ==
    ASSUME LifeInv, LifeStep, NEW c \in Cron, NEW a \in {"revoke", "grant"}, c \in setting.cron,
           NEW S \in SUBSET Exists, NEW j \in JobRow, j.todo = Copies(S)
    PROVE  MemOf(c, a, j)'
<1>1. Copies(S) \subseteq Grant \X GrantRow
  <2>1. grants \in [Grant -> GrantRow] /\ S \subseteq Grant
    BY DEF LifeInv, GrantInv, Data, Exists
  <2> QED
    BY <2>1 DEF Copies
<1>2. TodoOK(Copies(S))
  <2>1. \A g \in S : grants[g].state # Absent
    BY DEF Exists
  <2>2. \A g \in S : grants[g].state \in {INSTALLED, CANCELLED} => Settled(g, grants[g].code)
    BY DEF Settled
  <2> QED
    BY <2>1, <2>2 DEF Copies, TodoOK
<1>3. TodoOK(j.todo)'
  BY <1>1, <1>2, TodoKept
<1>4. a \notin Working /\ a \notin Removing /\ a \notin {"removed", "withdraw"}
  BY Names DEF Removing
<1> QED
  BY <1>3, <1>4 DEF MemOf, LifeStep

LEMMA ListsLive ==
    ASSUME LifeInv, [Next]_vars, NEW c \in Cron,
           JobBegin(c) \/ JobTurn(c) \/ JobEnd(c)
    PROVE  LifeStep /\ LifeInv'
<1>1. RevokeList \subseteq Exists /\ InstallList \subseteq Exists
  BY DEF RevokeList, InstallList, InState
<1>2. RevokeList \subseteq Grant /\ InstallList \subseteq Grant
  BY <1>1 DEF Exists
<1>3. at[c] # "off" => c \in setting.cron
  BY DEF LifeInv, MemOf
<1>4. CASE JobBegin(c) \/ JobTurn(c)
  <2>1. PICK a \in {"revoke", "grant"}, S \in SUBSET Exists, j \in JobRow :
          /\ j = ListJob(c, S) /\ j.todo = Copies(S)
          /\ at' = [at EXCEPT ![c] = a] /\ job' = [job EXCEPT ![c] = j]
          /\ c \in setting.cron /\ at[c] # "save"
    <3>1. CASE JobBegin(c)
      <4>1. job' = [job EXCEPT ![c] = ListJob(c, RevokeList)]
        BY <3>1 DEF JobBegin, ListJob, LifeInv, GrantInv, Jobs
      <4>2. ListJob(c, RevokeList) \in JobRow /\ ListJob(c, RevokeList).todo = Copies(RevokeList)
        BY <1>2, MemoryKept DEF LifeInv
      <4>3. at' = [at EXCEPT ![c] = "revoke"] /\ c \in setting.cron /\ at[c] # "save"
        BY <1>3, <3>1 DEF JobBegin, Move
      <4> QED
        BY <1>1, <4>1, <4>2, <4>3
    <3>2. CASE JobTurn(c)
      <4>1. job' = [job EXCEPT ![c] = ListJob(c, InstallList)]
        BY <3>2 DEF JobTurn, ListJob, LifeInv, GrantInv, Jobs
      <4>2. ListJob(c, InstallList) \in JobRow /\ ListJob(c, InstallList).todo = Copies(InstallList)
        BY <1>2, MemoryKept DEF LifeInv
      <4>3. at' = [at EXCEPT ![c] = "grant"] /\ c \in setting.cron /\ at[c] # "save"
        BY <1>3, <3>2 DEF JobTurn, Move
      <4> QED
        BY <1>1, <4>1, <4>2, <4>3
    <3> QED
      BY <1>4, <3>1, <3>2
  <2>2. UNCHANGED <<setting, phase, grants, remote, hit>>
    BY <1>4 DEF JobBegin, JobTurn
  <2>3. LifeStep
    BY <2>1, <2>2, QuietStep
  <2>4. MemOf(c, a, j)'
    BY <2>1, <2>3, ListRead
  <2> QED
    BY <2>1, <2>2, <2>3, <2>4, MoveKeeps
<1>5. CASE JobEnd(c)
  <2>1. PICK j \in JobRow : j = job[c]
    BY DEF LifeInv, GrantInv, Jobs
  <2>2. at' = [at EXCEPT ![c] = "off"] /\ job' = [job EXCEPT ![c] = j]
    BY <1>5, <2>1, MemoryIs DEF JobEnd, Move, LifeInv
  <2>3. LifeStep
    BY <1>5, <2>2, QuietStep DEF JobEnd
  <2>4. j.todo = {}
    BY <1>5, <2>1 DEF JobEnd
  <2>5. MemOf(c, "off", j)'
    BY <2>4, Names DEF MemOf, TodoOK, Removing
  <2> QED
    BY <1>5, <2>2, <2>3, <2>5, MoveKeeps DEF JobEnd
<1> QED
  BY <1>4, <1>5

\* The rest of a row stays when its state is set
LEMMA PutRow ==
    ASSUME GrantInv, NEW g \in Grant, NEW s \in GrantState \cup {Absent}, Put(g, s)
    PROVE  /\ grants'[g].state = s /\ grants'[g].period = grants[g].period
           /\ grants'[g].code = grants[g].code
           /\ \A h \in Grant \ {g} : grants'[h] = grants[h]
<1>1. grants \in [Grant -> GrantRow] /\ grants[g] \in GrantRow
  BY DEF GrantInv, Data
<1>2. [grants[g] EXCEPT !.state = s].period = grants[g].period
      /\ [grants[g] EXCEPT !.state = s].code = grants[g].code
  BY <1>1 DEF GrantRow
<1>3. grants' = [grants EXCEPT ![g] = [grants[g] EXCEPT !.state = s]]
  BY <1>1 DEF Put
<1> QED
  BY <1>1, <1>2, <1>3, PutKept

LEMMA MemoryMore ==
    ASSUME GrantInv, NEW c \in Cron
    PROVE  /\ \A e \in job[c].todo : TakeJob(c, e).was = e[2]
           /\ SeenJob(c).was = job[c].was /\ SeenJob(c).seen = remote
<1>1. job[c] \in JobRow
  BY DEF GrantInv, Jobs
<1> QED
  BY <1>1 DEF TakeJob, SeenJob, JobRow

LEMMA SkipLives ==
    ASSUME LifeInv, [Next]_vars, NEW c \in Cron, at[c] \in {"revoke", "grant"},
           NEW e \in job[c].todo, Skip(c, e)
    PROVE  LifeStep /\ LifeInv'
<1>1. PICK a \in {"revoke", "grant"}, j \in JobRow : a = at[c] /\ j = PassJob(c, e)
  BY MemoryKept DEF LifeInv
<1>2. at' = [at EXCEPT ![c] = a] /\ job' = [job EXCEPT ![c] = j]
  BY <1>1, MemoryIs DEF Skip, LifeInv, GrantInv, Jobs
<1>3. LifeStep
  BY <1>2, QuietStep DEF Skip
<1>4. j.todo \subseteq job[c].todo
  BY <1>1, MemoryKept DEF LifeInv
<1>5. MemOf(c, a, j)'
  BY <1>3, <1>4, LetGo
<1> QED
  BY <1>2, <1>3, <1>5, MoveKeeps

LEMMA TakeLives ==
    ASSUME LifeInv, [Next]_vars, NEW c \in Cron, NEW e \in job[c].todo,
           StillAs(e), NEW a,
           \/ at[c] = "revoke" /\ a \in {"read", "withdraw"}
           \/ at[c] = "grant" /\ a = "user",
           a = "withdraw" => setting.driver # "abloy",
           Put(e[1], Mark(a)), Take(c, e), Move(c, a),
           UNCHANGED <<setting, phase, resv, wait, users, remote, hit>>
    PROVE  LifeStep /\ LifeInv'
<1>0. GrantInv
  BY DEF LifeInv
<1>1. e[1] \in Grant /\ grants[e[1]].state \in Listed(at[c]) /\ e[2].state \in Listed(at[c])
  BY <1>0, JobParts DEF StillAs
<1>2. /\ grants'[e[1]].state = Mark(a) /\ grants'[e[1]].period = grants[e[1]].period
      /\ grants'[e[1]].code = grants[e[1]].code
      /\ \A h \in Grant \ {e[1]} : grants'[h] = grants[h]
  BY <1>0, <1>1, PutRow, Names DEF Mark
<1>3. PICK j \in JobRow : j = TakeJob(c, e)
  BY <1>0, MemoryKept
<1>4. at' = [at EXCEPT ![c] = a] /\ job' = [job EXCEPT ![c] = j]
  BY <1>0, <1>3, MemoryIs DEF Move
<1>5. <<grants[e[1]].state, grants'[e[1]].state>> \in Turns
  <2>1. CASE at[c] = "revoke"
    <3>1. Mark(a) = REMOVING /\ Listed(at[c]) = {INSTALLED, CANCELLED}
      BY <2>1 DEF Mark, Listed, Installing
    <3> QED
      BY <1>1, <1>2, <3>1 DEF Turns
  <2>2. CASE at[c] = "grant"
    <3>1. Mark(a) = INSTALLING /\ Listed(at[c]) = {REQUESTED}
      BY <2>2 DEF Mark, Listed, Installing
    <3> QED
      BY <1>1, <1>2, <3>1 DEF Turns
  <2> QED
    BY <2>1, <2>2
<1>6. ASSUME NEW g \in Grant
      PROVE  GrantStep(g)
  <2>1. CASE g = e[1]
    BY <1>2, <1>5, <2>1, TokFrame DEF GrantStep, RowTurns
  <2>2. CASE g # e[1]
    BY <1>2, <1>4, <2>2, RestsIf, TokFrame
  <2> QED
    BY <2>1, <2>2
<1>7. LifeStep
  BY <1>6 DEF LifeStep
<1>8. /\ j.todo \subseteq job[c].todo /\ j.g = e[1] /\ j.was = e[2]
  BY <1>0, <1>3, MemoryKept, MemoryMore
<1>9. MemOf(c, at[c], job[c]) /\ at[c] # "off" /\ j.todo \in SUBSET (Grant \X GrantRow)
  BY DEF LifeInv, JobRow
<1>10. TodoOK(j.todo)'
  <2>1. TodoOK(j.todo)
    BY <1>8, <1>9 DEF MemOf, TodoOK
  <2> QED
    BY <1>7, <1>9, <2>1, TodoKept
<1>11. grants'[j.g].state # Absent
  BY <1>2, <1>8, Names DEF Mark
<1>12. a \in Removing => /\ j.was.state \in {INSTALLED, CANCELLED}
                         /\ j.g \notin hit' => grants'[j.g].code = j.was.code
  <2>1. a \in Removing => Listed(at[c]) = {INSTALLED, CANCELLED}
    BY DEF Removing, Listed, Installing
  <2>2. e[1] \notin hit /\ e[2].state \in {INSTALLED, CANCELLED} => grants[e[1]].code = e[2].code
    BY <1>9 DEF MemOf, TodoOK, Settled
  <2> QED
    BY <1>1, <1>2, <1>8, <2>1, <2>2
<1>13. MemOf(c, a, j)'
  BY <1>9, <1>10, <1>11, <1>12 DEF MemOf
<1> QED
  BY <1>4, <1>7, <1>13, MoveKeeps

\* An exception: the grant is put back, be it among the requested or the installed ones
LEMMA RetryLives ==
    ASSUME LifeInv, [Next]_vars, NEW c \in Cron, at[c] \in Working,
           NEW g \in Grant, g = job[c].g,
           NEW s \in GrantState, NEW l \in {"revoke", "grant"},
           RetryLater(c, s, l), UNCHANGED <<setting, phase>>,
           hit \subseteq hit', hit' \ hit \subseteq Exists \cup {g},
           \A h \in Grant \ (hit' \cup {g}) : Tok(h)' = Tok(h),
           g \notin hit' =>
                \/ <<grants[g].state, s>> \in Turns /\ Tok(g)' = Tok(g)
                \/ /\ <<grants[g].state, s>> = <<INSTALLING, REQUESTED>>
                   /\ Tok(g) = {} /\ Tok(g)' = {}
    PROVE  LifeStep /\ LifeInv'
<1>0. GrantInv /\ g \in Grant /\ at[c] # "off"
  BY OwnFacts DEF LifeInv
<1>1. /\ grants'[g].state = s
      /\ grants'[g].period = grants[g].period
      /\ grants'[g].code = grants[g].code
      /\ \A h \in Grant \ {g} : grants'[h] = grants[h]
  BY <1>0, PutRow DEF RetryLater
<1>2. PICK j \in JobRow : j = DoneJob(c)
  BY <1>0, MemoryKept
<1>3. at' = [at EXCEPT ![c] = l] /\ job' = [job EXCEPT ![c] = j]
  BY <1>0, <1>2, MemoryIs DEF RetryLater, Move
<1>4. g \notin hit' => GrantStep(g)
  BY <1>1 DEF GrantStep, RowTurns
<1>5. LifeStep
  BY <1>1, <1>3, <1>4, OwnStep
<1>6. j.todo \subseteq job[c].todo
  BY <1>0, <1>2, MemoryKept
<1>7. MemOf(c, l, j)'
  BY <1>0, <1>5, <1>6, LetGo
<1> QED
  BY <1>0, <1>3, <1>5, <1>7, MoveKeeps

-----------------------------------------------------------------------------
(* The codes: what grants have, and what jobs count on                     *)

Held(g) == grants[g].state \in {INSTALLED, CANCELLED, REMOVING}

\* A job at step a, with memory j, holds code k for grant g, or counts on it to be there
MemClaims(a, j, g, k) == a \in {"send", "save"} /\ j.g = g /\ j.code = k
MemNeeds(a, j, g, k) ==
    /\ j.g = g
    /\ \/ a \in {"read", "withdraw"} /\ k = j.was.code
       \/ a = "save" /\ k = j.code

\* k is the code of g
Claimed(g, k) ==
    \/ Held(g) /\ k = grants[g].code
    \/ \E c \in Cron : MemClaims(at[c], job[c], g, k)

\* k has to open the door for g
Needs(g, k) ==
    \/ grants[g].state \in {INSTALLED, CANCELLED} /\ k = grants[g].code
    \/ \E c \in Cron : MemNeeds(at[c], job[c], g, k)

\* A code belongs to one grant, and kulkunen has an active user for it
ClaimsOK == \A g \in Grant, k \in Code \cup {None} : g \notin hit /\ Claimed(g, k) =>
    /\ k \in Code
    /\ <<g, k>> \in users
    /\ \A h \in Grant : h \notin hit /\ Claimed(h, k) => h = g

TokensOK == \A g \in Grant \ hit, k \in Code \cup {None} : Needs(g, k) => <<g, k>> \in remote

Codes == ClaimsOK /\ TokensOK
CodeInv == LifeInv /\ Codes

\* A code that opens the door is that of its grant, or of the job that installs it
LEMMA TokenClaimed ==
    ASSUME LifeInv, NEW t \in remote, t[1] \notin hit
    PROVE  t[1] \in Grant /\ t[2] \in Code /\ t[1] \in Exists /\ Claimed(t[1], t[2])
<1>1. t[1] \in Grant /\ t[2] \in Code /\ t[2] \in Tok(t[1])
  BY DEF LifeInv, GrantInv, Data, Tok
<1>2. TokOK(t[1])
  BY <1>1 DEF LifeInv, RowOK
<1>3. Claimed(t[1], t[2])
  BY <1>1, <1>2 DEF TokOK, Claimed, Held, MemClaims
<1>4. t[1] \in Exists
  BY <1>1, <1>2, Apart DEF TokOK, Exists
<1> QED
  BY <1>1, <1>3, <1>4

\* What a write of Abloy's undoes are tokens of grants
LEMMA OverwrittenExist ==
    ASSUME LifeInv, NEW c \in Cron, at[c] = "withdraw"
    PROVE  Overwritten(c) \ hit \subseteq Exists
<1> SUFFICES ASSUME NEW g \in Overwritten(c), g \notin hit
             PROVE  g \in Exists
  OBVIOUS
<1>1. setting.driver # "sipass" /\ \E t \in remote \cup job[c].seen : t[1] = g
  BY DEF Overwritten
<1>2. setting.driver = "abloy"
  BY <1>1, Drivers DEF LifeInv
<1>3. g \in Grant
  BY OverwrittenGrants DEF LifeInv
<1>4. CASE \E t \in remote : t[1] = g
  BY <1>4, TokenClaimed
<1>5. CASE \E t \in job[c].seen : t[1] = g
  <2>1. MemOf(c, at[c], job[c])
    BY DEF LifeInv
  <2> QED
    BY <1>2, <1>3, <1>5, <2>1 DEF MemOf, Exists
<1> QED
  BY <1>1, <1>4, <1>5

\* What the removal does to the tokens: it takes those of its grant; others keep theirs, unless
\* Abloy's were read too early, or the grant was struck and another has its code
LEMMA WithdrawTokens ==
    ASSUME LifeInv, ClaimsOK, NEW c \in Cron, at[c] = "withdraw",
           NEW g, g = job[c].g, remote' = Remaining(c)
    PROVE  /\ \A h \in Grant \ (hit \cup Overwritten(c) \cup {g}) : Tok(h)' = Tok(h)
           /\ g \notin hit \cup Overwritten(c) =>
                Tok(g)' = {} /\ grants[g].state = REMOVING
<1>0. /\ at[c] \in Working /\ at[c] \in Alone /\ at[c] \in Removing /\ Mark(at[c]) = REMOVING
      /\ GrantInv
  BY DEF LifeInv, Working, Alone, Removing, Mark, Installing
<1>1. /\ g \in Grant
      /\ g \notin hit => grants[g].state = REMOVING /\ grants[g].code = job[c].was.code
  BY <1>0, OwnFacts
<1>2. g \notin hit => Tok(g) \subseteq {job[c].was.code}
  <2>1. g \notin hit => TokOK(g)
    BY <1>1 DEF LifeInv, RowOK
  <2> QED
    BY <1>1, <2>1, Apart DEF TokOK
<1>3. CASE setting.driver = "sipass"
  <2>1. remote' = remote \ {<<g, job[c].was.code>>}
    BY <1>3 DEF Remaining
  <2>2. \A h \in Grant \ {g} : Tok(h)' = Tok(h)
    BY <2>1 DEF Tok
  <2>3. g \notin hit => Tok(g)' = {}
    <3>1. ASSUME g \notin hit, NEW k \in Tok(g)'
          PROVE  FALSE
      <4>1. PICK t \in remote' : t[1] = g /\ t[2] = k
        BY <3>1 DEF Tok
      <4>2. k \in Tok(g)
        BY <2>1, <4>1 DEF Tok
      <4>3. k = job[c].was.code
        BY <1>2, <3>1, <4>2
      <4>4. t \in Grant \X Code
        BY <2>1, <4>1 DEF LifeInv, GrantInv, Data
      <4>5. t = <<g, job[c].was.code>>
        BY <4>1, <4>3, <4>4
      <4> QED
        BY <2>1, <4>5
    <3> QED
      BY <3>1
  <2> QED
    BY <1>1, <2>2, <2>3
<1>4. CASE setting.driver = "abloy"
  <2>1. remote' = {t \in job[c].seen : t[2] # job[c].was.code}
    BY <1>4 DEF Remaining
  <2>2. \A t : t[1] \notin Overwritten(c) => (t \in remote <=> t \in job[c].seen)
    BY <1>4 DEF Overwritten
  <2>3. ASSUME NEW h \in Grant \ (hit \cup Overwritten(c) \cup {g}), NEW t \in remote, t[1] = h
        PROVE  t[2] # job[c].was.code
    <3>1. CASE g \in hit
      BY <1>4, <2>3, <3>1 DEF Overwritten
    <3>2. CASE g \notin hit
      <4>1. Claimed(h, t[2]) /\ t[2] \in Code
        BY <2>3, TokenClaimed
      <4>2. Claimed(g, job[c].was.code)
        BY <1>1, <3>2 DEF Claimed, Held
      <4> QED
        BY <1>1, <2>3, <3>2, <4>1, <4>2 DEF ClaimsOK
    <3> QED
      BY <3>1, <3>2
  <2>4. ASSUME NEW h \in Grant \ (hit \cup Overwritten(c) \cup {g})
        PROVE  Tok(h)' = Tok(h)
    <3>1. \A t : t[1] = h => (t \in remote' <=> t \in remote)
      BY <2>1, <2>2, <2>3, <2>4
    <3> QED
      BY <3>1 DEF Tok
  <2>5. g \notin hit \cup Overwritten(c) => Tok(g)' = {}
    <3> SUFFICES ASSUME g \notin hit \cup Overwritten(c), NEW t \in remote', t[1] = g
                 PROVE  FALSE
      BY DEF Tok
    <3>1. t \in remote /\ t[2] # job[c].was.code
      BY <2>1, <2>2
    <3>2. t[2] \in Tok(g)
      BY <3>1 DEF Tok
    <3> QED
      BY <1>2, <3>1, <3>2
  <2> QED
    BY <1>1, <2>4, <2>5
<1> QED
  BY <1>0, <1>3, <1>4, Drivers

LEMMA RemoveLives ==
    ASSUME LifeInv, ClaimsOK, [Next]_vars, NEW c \in Cron, Remove(c)
    PROVE  LifeStep /\ LifeInv'
<1>0. GrantInv /\ job[c] \in JobRow /\ MemOf(c, at[c], job[c]) /\ setting \in Setting
  BY DEF LifeInv, GrantInv, Jobs, Data
<1>1. CASE RemoveBegin(c)
  <2>1. PICK e \in job[c].todo :
        \/ Skip(c, e)
        \/ /\ StillAs(e)
           /\ Put(e[1], REMOVING)
           /\ Take(c, e)
           /\ Move(c, IF setting.driver = "abloy" THEN "read" ELSE "withdraw")
           /\ UNCHANGED <<setting, phase, resv, wait, users, remote, hit>>
    BY <1>1 DEF RemoveBegin
  <2>2. at[c] = "revoke"
    BY <1>1 DEF RemoveBegin
  <2>3. CASE Skip(c, e)
    BY <2>2, <2>3, SkipLives
  <2>4. CASE ~Skip(c, e)
    <3>1. PICK a \in {"read", "withdraw"} :
            Move(c, a) /\ (a = "withdraw" => setting.driver # "abloy")
      BY <2>1, <2>4
    <3>2. Mark(a) = REMOVING
      BY DEF Mark, Installing
    <3> QED
      BY <2>1, <2>2, <2>4, <3>1, <3>2, TakeLives
  <2> QED
    BY <2>3, <2>4
<1>2. ASSUME at[c] \in {"read", "withdraw", "removed"}
      PROVE  /\ at[c] \in Working /\ at[c] \in Removing /\ at[c] # "off" /\ job[c].g \in Grant
             /\ job[c].g \notin hit => /\ grants[job[c].g].state = REMOVING
                                       /\ grants[job[c].g].code = job[c].was.code
                                       /\ grants[job[c].g].state # Absent
             /\ job[c].was.state \in {INSTALLED, CANCELLED}
             /\ <<REMOVING, job[c].was.state>> \in Turns
  <2>1. /\ at[c] \in Working /\ at[c] \in Removing /\ at[c] \in Alone /\ Mark(at[c]) = REMOVING
    BY <1>2 DEF Working, Alone, Removing, Mark, Installing
  <2> QED
    BY <2>1, OwnFacts, Apart DEF Turns
<1>3. CASE RemoveRead(c)
  <2>1. at[c] = "read"
    BY <1>3 DEF RemoveRead
  <2>2. PICK j \in JobRow : j = SeenJob(c)
    BY <1>0, MemoryKept
  <2>3. at' = [at EXCEPT ![c] = "withdraw"] /\ job' = [job EXCEPT ![c] = j]
    BY <1>0, <1>3, <2>2 DEF RemoveRead, Move, SeenJob, GrantInv, Jobs
  <2>4. LifeStep
    BY <1>3, <2>1, <2>3, QuietStep DEF RemoveRead
  <2>5. j.todo = job[c].todo /\ j.g = job[c].g /\ j.was = job[c].was /\ j.seen = remote
    BY <1>0, <2>2, MemoryKept, MemoryMore
  <2>6. TodoOK(j.todo)'
    BY <1>0, <2>4, <2>5, TodoKept DEF MemOf, JobRow
  <2>7. grants' = grants /\ remote' = remote /\ hit' = hit
    BY <1>3 DEF RemoveRead
  <2>8. c \in setting'.cron
    BY <1>3, <1>0, <2>1 DEF RemoveRead, MemOf
  <2>9. \A t \in j.seen : t[1] \in hit \/ grants[t[1]].state # Absent
    BY <2>5, TokenClaimed DEF Exists
  <2>10. MemOf(c, "withdraw", j)'
    BY <1>2, <2>1, <2>5, <2>6, <2>7, <2>8, <2>9 DEF MemOf
  <2> QED
    BY <2>3, <2>4, <2>10, MoveKeeps
<1>4. CASE RemoveReadFails(c)
  <2>1. /\ at[c] = "read" /\ RetryLater(c, job[c].was.state, "revoke")
        /\ UNCHANGED <<setting, phase, remote, hit>>
    BY <1>4 DEF RemoveReadFails, RemoveFails
  <2>2. PICK s \in GrantState : s = job[c].was.state
    BY <1>2, <2>1, Names
  <2>3. PICK g \in Grant : g = job[c].g
    BY <1>2, <2>1
  <2>4. Tok(g)' = Tok(g) /\ \A h \in Grant : Tok(h)' = Tok(h)
    BY <2>1, TokFrame
  <2> QED
    BY <1>2, <2>1, <2>2, <2>3, <2>4, RetryLives
<1>5. CASE RemoveSend(c)
  <2>1. /\ at[c] = "withdraw" /\ remote' = Remaining(c)
        /\ hit' = hit \cup Overwritten(c) /\ UNCHANGED <<setting, phase, grants>>
    BY <1>5 DEF RemoveSend
  <2>2. PICK j \in JobRow : j = job[c]
    BY <1>0
  <2>3. at' = [at EXCEPT ![c] = "removed"] /\ job' = [job EXCEPT ![c] = j]
    BY <1>0, <1>5, <2>2, MemoryIs DEF RemoveSend, Move
  <2> PICK g \in Grant : g = job[c].g
    BY <1>2, <2>1
  <2>4. /\ \A h \in Grant \ (hit' \cup {g}) : Tok(h)' = Tok(h)
        /\ g \notin hit' => Tok(g)' = {} /\ grants[g].state = REMOVING
    BY <2>1, WithdrawTokens
  <2>5. g \notin hit' => GrantStep(g)
    BY <2>1, <2>4 DEF GrantStep, Withdrawn
  <2>6. LifeStep
    <3>1. hit \subseteq hit' /\ hit' \ hit \subseteq Exists
      BY <2>1, OverwrittenExist
    <3> QED
      BY <1>2, <2>1, <2>3, <2>4, <2>5, <3>1, OwnStep
  <2>7. MemOf(c, "removed", j)'
    <3>1. TodoOK(j.todo)'
      BY <1>0, <2>2, <2>6, TodoKept DEF MemOf, JobRow
    <3>2. c \in setting'.cron
      BY <1>0, <2>1 DEF MemOf
    <3>3. j.g \notin hit' => Tok(j.g)' = {}
      BY <2>1, <2>2, <2>4
    <3>4. hit \subseteq hit' /\ grants' = grants
      BY <2>1
    <3> QED
      BY <1>2, <2>1, <2>2, <3>1, <3>2, <3>3, <3>4 DEF MemOf
  <2> QED
    BY <2>1, <2>3, <2>6, <2>7, MoveKeeps
<1>6. CASE RemoveSendFails(c)
  <2>1. /\ at[c] = "withdraw" /\ RetryLater(c, job[c].was.state, "revoke")
        /\ UNCHANGED <<setting, phase>>
        /\ \/ remote' = remote /\ hit' = hit
           \/ /\ remote' = Remaining(c)
              /\ hit' = hit \cup Overwritten(c) \cup {job[c].g}
    BY <1>6 DEF RemoveSendFails, RemoveFails
  <2>2. PICK s \in GrantState : s = job[c].was.state
    BY <1>2, <2>1, Names
  <2> PICK g \in Grant : g = job[c].g
    BY <1>2, <2>1
  <2>3. CASE remote' = remote /\ hit' = hit
    <3>1. Tok(g)' = Tok(g) /\ \A h \in Grant : Tok(h)' = Tok(h)
      BY <2>3, TokFrame
    <3> QED
      BY <1>2, <2>1, <2>2, <2>3, <3>1, RetryLives
  <2>4. CASE /\ remote' = Remaining(c)
             /\ hit' = hit \cup Overwritten(c) \cup {job[c].g}
    <3>1. \A h \in Grant \ (hit' \cup {g}) : Tok(h)' = Tok(h)
      BY <2>1, <2>4, WithdrawTokens
    <3>2. hit \subseteq hit' /\ hit' \ hit \subseteq Exists \cup {g} /\ g \in hit'
      BY <2>1, <2>4, OverwrittenExist
    <3> QED
      BY <1>2, <2>1, <2>2, <3>1, <3>2, RetryLives
  <2> QED
    BY <2>1, <2>3, <2>4
<1>7. CASE RemoveSave(c)
  <2>1. /\ at[c] = "removed" /\ Put(job[c].g, REMOVED) /\ Done(c) /\ Move(c, "revoke")
        /\ UNCHANGED <<setting, phase, remote, hit>>
    BY <1>7 DEF RemoveSave
  <2>2. PICK j \in JobRow : j = DoneJob(c)
    BY <1>0, MemoryKept
  <2>3. at' = [at EXCEPT ![c] = "revoke"] /\ job' = [job EXCEPT ![c] = j]
    BY <1>0, <2>1, <2>2, MemoryIs DEF Move
  <2> PICK g \in Grant : g = job[c].g
    BY <1>2, <2>1
  <2>4. /\ grants'[g].state = REMOVED /\ grants'[g].period = grants[g].period
        /\ grants'[g].code = grants[g].code
        /\ \A h \in Grant \ {g} : grants'[h] = grants[h]
    BY <1>0, <2>1, PutRow, Names
  <2>5. g \notin hit => Tok(g) = {}
    BY <1>0, <2>1 DEF MemOf
  <2>6. g \notin hit => GrantStep(g)
    BY <1>2, <2>1, <2>4, <2>5, TokFrame DEF GrantStep, RowTurns
  <2>7. LifeStep
    <3>1. \A h \in Grant : Tok(h)' = Tok(h)
      BY <2>1, TokFrame
    <3> QED
      BY <1>2, <2>1, <2>3, <2>4, <2>6, <3>1, OwnStep
  <2>8. MemOf(c, "revoke", j)'
    BY <1>0, <2>1, <2>2, <2>7, MemoryKept, LetGo
  <2> QED
    BY <2>1, <2>3, <2>7, <2>8, MoveKeeps
<1> QED
  BY <1>1, <1>3, <1>4, <1>5, <1>6, <1>7 DEF Remove

\* A grant whose time is over is put aside: a request is withdrawn, any other is struck
LEMMA InstallOverLives ==
    ASSUME LifeInv, [Next]_vars, NEW c \in Cron, at[c] = "grant",
           NEW e \in job[c].todo, Put(e[1], REMOVED), Pass(c, e),
           hit' = (IF StillAs(e) THEN hit ELSE hit \cup {e[1]}),
           UNCHANGED <<setting, phase, resv, wait, users, remote, at>>
    PROVE  LifeStep /\ LifeInv'
<1>0. GrantInv /\ MemOf(c, at[c], job[c])
  BY DEF LifeInv
<1>1. e[1] \in Grant /\ e[2].state = REQUESTED
  BY <1>0, JobParts DEF Listed
<1>2. /\ grants'[e[1]].state = REMOVED /\ grants'[e[1]].period = grants[e[1]].period
      /\ grants'[e[1]].code = grants[e[1]].code
      /\ \A h \in Grant \ {e[1]} : grants'[h] = grants[h]
  BY <1>0, <1>1, PutRow, Names
<1>3. PICK j \in JobRow : j = PassJob(c, e)
  BY <1>0, MemoryKept
<1>4. at' = [at EXCEPT ![c] = "grant"] /\ job' = [job EXCEPT ![c] = j]
  BY <1>0, <1>3, MemoryIs DEF GrantInv, Jobs
<1>5. hit \subseteq hit' /\ hit' \ hit \subseteq Exists
  BY <1>0, <1>1 DEF MemOf, TodoOK, Exists
<1>6. ASSUME NEW g \in Grant \ hit'
      PROVE  GrantStep(g)
  <2>1. CASE g = e[1]
    <3>1. StillAs(e)
      BY <1>6, <2>1
    <3>2. grants[g].state = REQUESTED
      BY <1>1, <2>1, <3>1 DEF StillAs
    <3> QED
      BY <1>2, <2>1, <3>2, TokFrame DEF GrantStep, RowTurns, Turns
  <2>2. CASE g # e[1]
    <3>1. grants'[g] = grants[g] /\ Tok(g)' = Tok(g)
      BY <1>2, <2>2, TokFrame
    <3> QED
      BY <1>4, <3>1, RestsIf
  <2> QED
    BY <2>1, <2>2
<1>7. LifeStep
  BY <1>5, <1>6 DEF LifeStep
<1>8. j.todo \subseteq job[c].todo
  BY <1>0, <1>3, MemoryKept
<1>9. MemOf(c, "grant", j)'
  BY <1>7, <1>8, LetGo
<1> QED
  BY <1>4, <1>7, <1>9, MoveKeeps

\* The job stays with its grant: what it needs of it stays right
LEMMA GoOn ==
    ASSUME LifeInv, LifeStep, NEW c \in Cron, at[c] \in Working,
           NEW a \in {"send", "save", "notify"}, NEW j \in JobRow,
           j.todo = job[c].todo, j.g = job[c].g
    PROVE  MemOf(c, a, j)'
<1>1. MemOf(c, at[c], job[c]) /\ c \in setting.cron
  BY OwnFacts DEF LifeInv
<1>2. TodoOK(j.todo)'
  BY <1>1, TodoKept DEF MemOf, JobRow
<1>3. j.g \notin hit' => grants'[j.g].state # Absent
  <2>1. j.g \in Grant /\ (j.g \notin hit => grants[j.g].state # Absent)
    BY <1>1, OwnFacts DEF MemOf
  <2>2. j.g \notin hit' => GrantStep(j.g) /\ j.g \notin hit
    BY <2>1 DEF LifeStep
  <2> QED
    BY <2>1, <2>2, RowFacts
<1>4. a \notin Removing /\ a \notin {"removed", "withdraw"}
  BY DEF Removing
<1> QED
  BY <1>1, <1>2, <1>3, <1>4 DEF MemOf, LifeStep

LEMMA InstallLives ==
    ASSUME LifeInv, [Next]_vars, NEW c \in Cron, Install(c)
    PROVE  LifeStep /\ LifeInv'
<1>0. GrantInv /\ job[c] \in JobRow /\ at \in [Cron -> Step] /\ job \in [Cron -> JobRow]
  BY DEF LifeInv, GrantInv, Jobs
<1>1. CASE InstallBegin(c)
  <2>1. at[c] = "grant"
    BY <1>1 DEF InstallBegin
  <2>2. PICK e \in job[c].todo :
        \/ /\ Over(e[1])
           /\ Put(e[1], REMOVED)
           /\ Pass(c, e)
           /\ hit' = IF StillAs(e) THEN hit ELSE hit \cup {e[1]}
           /\ UNCHANGED <<setting, phase, resv, wait, users, remote, at>>
        \/ ~Over(e[1]) /\ Skip(c, e)
        \/ /\ ~Over(e[1]) /\ StillAs(e)
           /\ Put(e[1], INSTALLING)
           /\ Take(c, e)
           /\ Move(c, "user")
           /\ UNCHANGED <<setting, phase, resv, wait, users, remote, hit>>
    BY <1>1 DEF InstallBegin
  <2>3. CASE Over(e[1])
    BY <2>1, <2>2, <2>3, InstallOverLives
  <2>4. CASE Skip(c, e)
    BY <2>1, <2>4, SkipLives
  <2>5. CASE ~Over(e[1]) /\ ~Skip(c, e)
    <3>1. Mark("user") = INSTALLING
      BY DEF Mark, Installing
    <3> QED
      BY <2>1, <2>2, <2>5, <3>1, TakeLives
  <2> QED
    BY <2>3, <2>4, <2>5
<1>2. ASSUME at[c] \in Installing \cup {"notify"}
      PROVE  /\ at[c] \in Working /\ at[c] # "off" /\ job[c].g \in Grant
             /\ at[c] \in Installing /\ job[c].g \notin hit =>
                    /\ grants[job[c].g].state = INSTALLING
                    /\ at[c] # "save" => Tok(job[c].g) = {}
                    /\ at[c] = "save" => Tok(job[c].g) \subseteq {job[c].code}
  <2>1. at[c] \in Working
    BY <1>2 DEF Working, Alone
  <2> QED
    BY <2>1, OwnFacts, NoToken
<1>3. CASE CreateUser(c)
  <2>1. at[c] = "user" /\ at[c] \in Installing
    BY <1>3 DEF CreateUser, Installing
  <2>2. ASSUME NEW k \in Pins,
               job' = [job EXCEPT ![c].code = k],
               hit' = IF ChosenTwice(c, k) THEN hit \cup {job[c].g} ELSE hit,
               Move(c, "send"), UNCHANGED <<setting, phase, resv, grants, wait, remote>>
        PROVE  LifeStep /\ LifeInv'
    <3>1. k \in Code
      BY <2>2 DEF Pins, FreeCodes
    <3>2. PICK j \in JobRow : j = CodeJob(c, k)
      BY <1>0, <3>1, MemoryKept
    <3>3. at' = [at EXCEPT ![c] = "send"] /\ job' = [job EXCEPT ![c] = j]
      BY <1>0, <2>2, <3>2 DEF Move, CodeJob
    <3>4. LifeStep
      <4>1. hit \subseteq hit' /\ hit' \ hit \subseteq Exists
        BY <1>2, <2>1, <2>2, OwnFacts
      <4> QED
        BY <2>1, <2>2, <3>3, <4>1, QuietStep
    <3>5. j.todo = job[c].todo /\ j.g = job[c].g
      BY <1>0, <3>1, <3>2, MemoryKept
    <3>6. MemOf(c, "send", j)'
      BY <1>2, <2>1, <3>4, <3>5, GoOn
    <3> QED
      BY <2>2, <3>3, <3>4, <3>6, MoveKeeps
  <2>3. CASE InstallFails(c) /\ UNCHANGED <<users, remote, hit>>
    <3>1. RetryLater(c, REQUESTED, "grant") /\ UNCHANGED <<setting, phase, remote, hit>>
      BY <2>3 DEF InstallFails
    <3>2. PICK g \in Grant : g = job[c].g
      BY <1>2, <2>1
    <3>3. \A h \in Grant : Tok(h)' = Tok(h)
      BY <3>1, TokFrame
    <3>4. g \notin hit => /\ <<grants[g].state, REQUESTED>> = <<INSTALLING, REQUESTED>>
                          /\ Tok(g) = {} /\ Tok(g)' = {}
      BY <1>2, <2>1, <3>2, <3>3
    <3> QED
      BY <1>2, <2>1, <3>1, <3>2, <3>3, <3>4, RetryLives, Names
  <2> QED
    BY <1>3, <2>2, <2>3 DEF CreateUser
<1>4. CASE InstallSend(c)
  <2>1. /\ at[c] = "send" /\ at[c] \in Installing
        /\ remote' = remote \cup {<<job[c].g, job[c].code>>}
        /\ UNCHANGED <<setting, phase, grants, hit>>
    BY <1>4 DEF InstallSend, Installing
  <2>2. PICK j \in JobRow, g \in Grant, k \in Code \cup {None} :
            j = job[c] /\ g = job[c].g /\ k = job[c].code
    BY <1>0, <1>2, <2>1 DEF JobRow
  <2>3. at' = [at EXCEPT ![c] = "save"] /\ job' = [job EXCEPT ![c] = j]
    BY <1>0, <1>4, <2>2, MemoryIs DEF InstallSend, Move
  <2>4. \A h \in Grant \ {g} : Tok(h)' = Tok(h)
    BY <2>1, <2>2 DEF Tok
  <2>5. Tok(g) \subseteq Tok(g)' /\ Tok(g)' \subseteq Tok(g) \cup {k}
    <3>1. remote' = remote \cup {<<g, k>>}
      BY <2>1, <2>2
    <3>2. \A t \in remote' : t \in remote \/ t[2] = k
      BY <3>1
    <3> QED
      BY <3>1, <3>2 DEF Tok
  <2>6. g \notin hit => GrantStep(g)
    <3>1. at'[c] = "save" /\ job'[c].g = g /\ job'[c].code = k
      BY <1>0, <2>2, <2>3
    <3>2. g \notin hit => Tok(g) = {} /\ grants[g].state = INSTALLING
      BY <1>2, <2>1, <2>2
    <3>3. g \notin hit => Sent(g)
      BY <2>1, <2>5, <3>1, <3>2 DEF Sent
    <3> QED
      BY <3>3 DEF GrantStep
  <2>7. LifeStep
    BY <1>2, <2>1, <2>2, <2>3, <2>4, <2>6, OwnStep
  <2>8. MemOf(c, "save", j)'
    BY <1>2, <2>1, <2>2, <2>7, GoOn
  <2> QED
    BY <1>2, <2>1, <2>3, <2>7, <2>8, MoveKeeps
<1>5. CASE InstallSendFails(c)
  <2>1. /\ at[c] = "send" /\ at[c] \in Installing
        /\ RetryLater(c, REQUESTED, "grant") /\ UNCHANGED <<setting, phase>>
        /\ \/ remote' = remote /\ hit' = hit
           \/ /\ remote' = remote \cup {<<job[c].g, job[c].code>>}
              /\ hit' = hit \cup {job[c].g}
    BY <1>5 DEF InstallSendFails, InstallFails, Installing
  <2>2. PICK g \in Grant : g = job[c].g
    BY <1>2, <2>1
  <2>3. CASE remote' = remote /\ hit' = hit
    <3>1. \A h \in Grant : Tok(h)' = Tok(h)
      BY <2>3, TokFrame
    <3>2. g \notin hit => /\ <<grants[g].state, REQUESTED>> = <<INSTALLING, REQUESTED>>
                          /\ Tok(g) = {} /\ Tok(g)' = {}
      BY <1>2, <2>1, <2>2, <3>1
    <3> QED
      BY <1>2, <2>1, <2>2, <2>3, <3>1, <3>2, RetryLives, Names
  <2>4. CASE /\ remote' = remote \cup {<<job[c].g, job[c].code>>}
             /\ hit' = hit \cup {job[c].g}
    <3>1. \A h \in Grant \ {g} : Tok(h)' = Tok(h)
      BY <2>2, <2>4 DEF Tok
    <3> QED
      BY <1>2, <2>1, <2>2, <2>4, <3>1, RetryLives, Names
  <2> QED
    BY <2>1, <2>3, <2>4
<1>6. CASE InstallSave(c)
  <2>1. /\ at[c] = "save" /\ at[c] \in Installing
        /\ grants' = [grants EXCEPT ![job[c].g].state = INSTALLED, ![job[c].g].code = job[c].code]
        /\ UNCHANGED <<setting, phase, remote, hit>>
    BY <1>6 DEF InstallSave, Installing
  <2>2. PICK j \in JobRow, g \in Grant, k \in Code \cup {None} :
            j = job[c] /\ g = job[c].g /\ k = job[c].code
    BY <1>0, <1>2, <2>1 DEF JobRow
  <2>3. at' = [at EXCEPT ![c] = "notify"] /\ job' = [job EXCEPT ![c] = j]
    BY <1>0, <1>6, <2>2, MemoryIs DEF InstallSave, Move
  <2>4. /\ grants'[g].state = INSTALLED /\ grants'[g].period = grants[g].period
        /\ grants'[g].code = k
        /\ \A h \in Grant \ {g} : grants'[h] = grants[h]
    <3>1. grants \in [Grant -> GrantRow] /\ grants[g] \in GrantRow
      BY <1>0 DEF GrantInv, Data
    <3> DEFINE row == [grants[g] EXCEPT !.state = INSTALLED, !.code = k]
    <3>2. grants' = [grants EXCEPT ![g] = row]
      BY <2>1, <2>2, <3>1
    <3>3. row.state = INSTALLED /\ row.period = grants[g].period /\ row.code = k
      BY <3>1 DEF GrantRow
    <3> QED
      BY <3>1, <3>2, <3>3
  <2>5. \A h \in Grant : Tok(h)' = Tok(h)
    BY <2>1, TokFrame
  <2>6. g \notin hit => GrantStep(g)
    BY <1>2, <2>1, <2>2, <2>4, <2>5 DEF GrantStep, Saved
  <2>7. LifeStep
    BY <1>2, <2>1, <2>2, <2>3, <2>4, <2>5, <2>6, OwnStep
  <2>8. MemOf(c, "notify", j)'
    BY <1>2, <2>1, <2>2, <2>7, GoOn
  <2> QED
    BY <1>2, <2>1, <2>3, <2>7, <2>8, MoveKeeps
<1>7. CASE Notify(c)
  <2>1. at[c] = "notify" /\ UNCHANGED <<setting, phase, grants, remote, hit>>
    BY <1>7 DEF Notify
  <2>2. PICK j \in JobRow : j = DoneJob(c)
    BY <1>0, MemoryKept
  <2>3. at' = [at EXCEPT ![c] = "grant"] /\ job' = [job EXCEPT ![c] = j]
    BY <1>0, <1>7, <2>2, MemoryIs DEF Notify, Move
  <2>4. LifeStep
    BY <2>1, <2>3, QuietStep
  <2>5. MemOf(c, "grant", j)'
    BY <1>0, <2>1, <2>2, <2>4, MemoryKept, LetGo
  <2> QED
    BY <2>1, <2>3, <2>4, <2>5, MoveKeeps
<1>8. CASE NotifyFails(c)
  <2>1. /\ at[c] = "notify" /\ RetryLater(c, REQUESTED, "grant")
        /\ UNCHANGED <<setting, phase, remote>> /\ hit' = hit \cup {job[c].g}
    BY <1>8 DEF NotifyFails, InstallFails
  <2>2. PICK g \in Grant : g = job[c].g
    BY <1>2, <2>1
  <2>3. \A h \in Grant : Tok(h)' = Tok(h)
    BY <2>1, TokFrame
  <2> QED
    BY <1>2, <2>1, <2>2, <2>3, RetryLives, Names
<1> QED
  BY <1>1, <1>3, <1>4, <1>5, <1>6, <1>7, <1>8 DEF Install

\* A job that dies while it works on a grant alone strikes it
LEMMA CrashLives ==
    ASSUME LifeInv, [Next]_vars, NEW c \in Cron, Crash(c)
    PROVE  LifeStep /\ LifeInv'
<1>1. /\ at[c] \in Working /\ UNCHANGED <<setting, phase, grants, remote>>
      /\ hit' = (IF at[c] \in Alone THEN hit \cup {job[c].g} ELSE hit)
  BY DEF Crash
<1>2. PICK j \in JobRow : j = Idle
  BY IdleRow
<1>3. at' = [at EXCEPT ![c] = "off"] /\ job' = [job EXCEPT ![c] = j]
  BY <1>2 DEF Crash, Move
<1>4. /\ hit \subseteq hit' /\ hit' \ hit \subseteq Exists
      /\ at[c] = "save" => job[c].g \in hit'
  BY <1>1, OwnFacts, Names
<1>5. LifeStep
  BY <1>1, <1>3, <1>4, QuietStep
<1>6. j.todo = {}
  BY <1>2 DEF Idle
<1>7. MemOf(c, "off", j)'
  BY <1>6, Names DEF MemOf, TodoOK, Removing
<1> QED
  BY <1>1, <1>3, <1>5, <1>7, MoveKeeps

-----------------------------------------------------------------------------
(* The theorems                                                            *)

LEMMA InitLife == Init => LifeInv
<1> SUFFICES ASSUME Init PROVE LifeInv
  OBVIOUS
<1>1. GrantInv
  BY InitInv
<1>2. \A g \in Grant : grants[g].state = Absent /\ Tok(g) = {}
  BY DEF Init, NoGrant, Tok
<1>3. \A g \in Grant \ hit : RowOK(g)
  BY <1>2 DEF RowOK, TokOK
<1>4. ASSUME NEW c \in Cron
      PROVE  MemOf(c, at[c], job[c])
  <2>1. at[c] = "off" /\ job[c].todo = {}
    BY DEF Init, Idle
  <2> QED
    BY <2>1, Names DEF MemOf, TodoOK, Removing
<1> QED
  BY <1>1, <1>3, <1>4 DEF LifeInv

LEMMA StepLife ==
    ASSUME LifeInv, ClaimsOK, [Next]_vars
    PROVE  LifeStep /\ LifeInv'
<1>1. CASE Request
  BY <1>1, RequestsLive
<1>2. CASE Clock \/ UNCHANGED vars
  BY <1>2, ClockLives
<1>3. ASSUME NEW c \in Cron, Job(c)
      PROVE  LifeStep /\ LifeInv'
  BY <1>3, ListsLive, RemoveLives, InstallLives DEF Job
<1>4. ASSUME NEW c \in Cron, Crash(c)
      PROVE  LifeStep /\ LifeInv'
  BY <1>4, CrashLives
<1> QED
  BY <1>1, <1>2, <1>3, <1>4 DEF Next

\* The part of the stage of a grant that does not depend on what has struck it
LEMMA OpensIs ==
    /\ \A g : Opens(g) <=> ~Over(g) /\ Tok(g) # {}
    /\ \A g : Opens(g)' <=> ~Over(g)' /\ Tok(g)' # {}
BY DEF Opens, Tok

\* Time runs one way for a grant that exists
LEMMA OverStays ==
    ASSUME NEW g \in Grant, RowOK(g), GrantStep(g), LifeStep, g \in Exists
    PROVE  g \in Exists' /\ (Over(g) => Over(g)')
<1>1. grants[g].state # Absent /\ grants[g].period \in Period
  BY DEF Exists, RowOK
<1>2. grants'[g].state # Absent
  BY <1>1, RowFacts
<1>3. grants'[g].period = grants[g].period
  BY <1>1 DEF GrantStep, Rests, Starts, Saved, Sent, Withdrawn, RowTurns
<1> QED
  BY <1>1, <1>2, <1>3 DEF Over, LifeStep, Exists

\* A grant that no code opens, and that no job will install, stays so
LEMMA ClosedStays ==
    ASSUME NEW g \in Grant, grants[g] \in GrantRow, RowOK(g), GrantStep(g), g \in Exists,
           Tok(g) = {}, grants[g].state \notin {REQUESTED, INSTALLING}
    PROVE  Tok(g)' = {} /\ grants'[g].state \notin {REQUESTED, INSTALLING}
<1>1. grants[g].state # Absent
  BY DEF Exists
<1>2. CASE Rests(g)
  BY <1>2 DEF Rests
<1>3. CASE Withdrawn(g)
  BY <1>3 DEF Withdrawn
<1>4. CASE RowTurns(g, Turns) /\ Tok(g)' = Tok(g)
  BY <1>4, Apart DEF RowTurns, Turns
<1>5. CASE /\ RowTurns(g, {<<INSTALLING, REQUESTED>>, <<REMOVING, REMOVED>>})
           /\ Tok(g) = {} /\ Tok(g)' = {}
  BY <1>5, Apart DEF RowTurns
<1> QED
  BY <1>1, <1>2, <1>3, <1>4, <1>5 DEF GrantStep, Starts, Saved, Sent

\* A grant loses its codes only when it is not to be installed again
LEMMA OpenCloses ==
    ASSUME NEW g \in Grant, RowOK(g), GrantStep(g), Tok(g) # {}, Tok(g)' = {}
    PROVE  grants'[g].state \notin {REQUESTED, INSTALLING}
<1>1. Withdrawn(g)
  <2>1. grants[g].state # Absent
    BY Apart DEF RowOK, TokOK
  <2> QED
    BY <2>1 DEF GrantStep, Rests, Starts, Saved, Sent
<1> QED
  BY <1>1, Apart DEF Withdrawn

LEMMA StageStep ==
    ASSUME LifeInv, LifeStep, NEW g \in Grant
    PROVE  <<StageOf(g), StageOf(g)'>>
                \in Life!Want \cup Life!Open \cup Life!Close \cup Life!LoseSight \cup Life!Stay
<1>1. CASE g \in hit'
  <2>1. StageOf(g)' = "unknown"
    BY <1>1 DEF StageOf
  <2>2. StageOf(g) \in Life!Stage /\ (g \notin hit => StageOf(g) # "none")
    BY <1>1 DEF StageOf, Life!Stage, LifeStep
  <2>3. g \in hit => StageOf(g) = "unknown"
    BY DEF StageOf
  <2> QED
    BY <2>1, <2>2, <2>3 DEF Life!LoseSight, Life!Stay, Life!Stage
<1>2. CASE g \notin hit'
  <2>1. /\ g \notin hit /\ GrantStep(g) /\ RowOK(g) /\ grants[g] \in GrantRow
    BY <1>2 DEF LifeInv, LifeStep, GrantInv, Data
  <2>2. CASE g \notin Exists
    <3>1. StageOf(g) = "none" /\ grants[g].state = Absent
      BY <2>1, <2>2 DEF StageOf, Exists
    <3>2. Tok(g) = {}
      BY <2>1, <3>1, Apart DEF RowOK, TokOK
    <3>3. \/ grants'[g] = grants[g]
          \/ grants'[g].state = REQUESTED /\ Tok(g)' = {}
      BY <3>1, <3>2, Apart, <2>1
         DEF GrantStep, Rests, Starts, Saved, Sent, Withdrawn, RowTurns, Turns
    <3>4. CASE grants'[g] = grants[g]
      BY <1>2, <3>1, <3>4 DEF StageOf, Exists, Life!Stay, Life!Stage
    <3>5. CASE grants'[g].state = REQUESTED /\ Tok(g)' = {}
      <4>1. ~Opens(g)'
        BY <3>5, OpensIs
      <4>2. StageOf(g)' \in {"wanted", "closed"}
        BY <1>2, <3>5, <4>1, Apart DEF StageOf, Exists
      <4> QED
        BY <3>1, <4>2 DEF Life!Want
    <3> QED
      BY <3>3, <3>4, <3>5
  <2>3. CASE g \in Exists
    <3>1. g \in Exists' /\ (Over(g) => Over(g)')
      BY <2>1, <2>3, OverStays
    <3>2. StageOf(g)' \in {"wanted", "open", "closed"} /\ StageOf(g) \in {"wanted", "open", "closed"}
      BY <1>2, <2>1, <2>3, <3>1 DEF StageOf
    <3>3. CASE StageOf(g) = "wanted"
      BY <3>2, <3>3 DEF Life!Open, Life!Close, Life!Stay, Life!Stage
    <3>4. CASE StageOf(g) = "open"
      <4>1. Tok(g) # {}
        BY <3>4, OpensIs DEF StageOf
      <4>2. ~Wanted(g)'
        BY <2>1, <4>1, OpenCloses, OpensIs DEF Wanted
      <4>3. StageOf(g)' # "wanted"
        BY <4>2 DEF StageOf
      <4> QED
        BY <3>2, <3>4, <4>3 DEF Life!Close, Life!Stay, Life!Stage
    <3>5. CASE StageOf(g) = "closed"
      <4>1. ~Opens(g) /\ ~Wanted(g)
        BY <2>1, <2>3, <3>5 DEF StageOf
      <4>2. CASE Over(g)
        <5>1. ~Opens(g)' /\ ~Wanted(g)'
          BY <3>1, <4>2 DEF Opens, Wanted
        <5> QED
          BY <3>2, <3>5, <5>1 DEF StageOf, Life!Stay, Life!Stage
      <4>3. CASE ~Over(g)
        <5>1. Tok(g) = {} /\ grants[g].state \notin {REQUESTED, INSTALLING}
          BY <4>1, <4>3, OpensIs DEF Wanted
        <5>2. Tok(g)' = {} /\ grants'[g].state \notin {REQUESTED, INSTALLING}
          BY <2>1, <2>3, <5>1, ClosedStays
        <5>3. ~Opens(g)' /\ ~Wanted(g)'
          BY <5>2, OpensIs DEF Wanted
        <5> QED
          BY <3>2, <3>5, <5>3 DEF StageOf, Life!Stay, Life!Stage
      <4> QED
        BY <4>2, <4>3
    <3> QED
      BY <3>2, <3>3, <3>4, <3>5
  <2> QED
    BY <2>2, <2>3
<1> QED
  BY <1>1, <1>2

-----------------------------------------------------------------------------
(***************************************************************************)
(* The codes of access grants: for any number of grants, reservations and  *)
(* jobs, whatever is refused, lost or dies, no two grants have one code    *)
(* and an installed grant opens the door, unless they were struck.         *)
(***************************************************************************)
-----------------------------------------------------------------------------
(* What a job relies on                                                    *)

\* While a job works on a grant alone, no other holds or needs a code for it
LEMMA OnlyJob ==
    ASSUME LifeInv, NEW c \in Cron, at[c] \in Alone, job[c].g \notin hit,
           NEW d \in Cron \ {c}, NEW k
    PROVE  ~MemClaims(at[d], job[d], job[c].g, k) /\ ~MemNeeds(at[d], job[d], job[c].g, k)
<1>1. at[c] \in Working
  BY Names
<1>2. job[d].g = job[c].g => at[d] = "notify"
  BY <1>1, OwnFacts DEF Sole
<1> QED
  BY <1>2 DEF MemClaims, MemNeeds

\* The row of a grant that is being removed has the code that the job removes
LEMMA OwnCode ==
    ASSUME CodeInv, NEW c \in Cron, at[c] \in Removing, job[c].g \notin hit
    PROVE  /\ grants[job[c].g].state = REMOVING /\ Held(job[c].g)
           /\ grants[job[c].g].code = job[c].was.code
<1>1. at[c] \in Alone /\ at[c] \in Working /\ Mark(at[c]) = REMOVING
  BY DEF Alone, Working, Mark, Installing, Removing
<1>2. grants[job[c].g].state = REMOVING /\ grants[job[c].g].code = job[c].was.code
  BY <1>1, OwnFacts DEF CodeInv
<1> QED
  BY <1>2 DEF Held

-----------------------------------------------------------------------------
(* What a step has to keep                                                 *)

\* No new claims
LEMMA ClaimsKept ==
    ASSUME ClaimsOK, setting' = setting, hit \subseteq hit',
           \A g \in Grant, k \in Code \cup {None} : g \notin hit' /\ Claimed(g, k)' =>
                Claimed(g, k) /\ (<<g, k>> \in users => <<g, k>> \in users')
    PROVE  ClaimsOK'
<1>1. \A g : g \notin hit' => g \notin hit
  OBVIOUS
<1> SUFFICES ASSUME NEW g \in Grant, NEW k \in Code \cup {None}, g \notin hit', Claimed(g, k)'
             PROVE  /\ k \in Code
                    /\ <<g, k>> \in users'
                    /\ \A h \in Grant : h \notin hit' /\ Claimed(h, k)' => h = g
  BY DEF ClaimsOK
<1>2. k \in Code /\ <<g, k>> \in users /\ Claimed(g, k)
  BY <1>1 DEF ClaimsOK
<1> QED
  BY <1>1, <1>2 DEF ClaimsOK

\* A need is an old one that is still met, or met now
LEMMA TokensKept ==
    ASSUME TokensOK, hit \subseteq hit',
           \A g \in Grant \ hit', k \in Code \cup {None} : Needs(g, k)' =>
                \/ Needs(g, k) /\ (<<g, k>> \in remote => <<g, k>> \in remote')
                \/ <<g, k>> \in remote'
    PROVE  TokensOK'
BY DEF TokensOK

\* Where claims and needs come from when job c goes to step a with memory j
LEMMA MovedFrom ==
    ASSUME GrantInv, NEW c \in Cron, NEW a, NEW j, NEW g, NEW k,
           at' = [at EXCEPT ![c] = a], job' = [job EXCEPT ![c] = j]
    PROVE  /\ Claimed(g, k)' => \/ Held(g)' /\ k = grants'[g].code
                                \/ MemClaims(a, j, g, k)
                                \/ \E d \in Cron \ {c} : MemClaims(at[d], job[d], g, k)
           /\ Needs(g, k)' =>
                \/ grants'[g].state \in {INSTALLED, CANCELLED} /\ k = grants'[g].code
                \/ MemNeeds(a, j, g, k)
                \/ \E d \in Cron \ {c} : MemNeeds(at[d], job[d], g, k)
<1>1. /\ at'[c] = a /\ job'[c] = j
      /\ \A d \in Cron \ {c} : at'[d] = at[d] /\ job'[d] = job[d]
  BY DEF GrantInv, Jobs
<1>2. ASSUME NEW d \in Cron, MemClaims(at'[d], job'[d], g, k)
      PROVE  MemClaims(a, j, g, k) \/ (d # c /\ MemClaims(at[d], job[d], g, k))
  BY <1>1, <1>2
<1>3. ASSUME NEW d \in Cron, MemNeeds(at'[d], job'[d], g, k)
      PROVE  MemNeeds(a, j, g, k) \/ (d # c /\ MemNeeds(at[d], job[d], g, k))
  BY <1>1, <1>3
<1>4. Claimed(g, k)' <=> \/ Held(g)' /\ k = grants'[g].code
                         \/ \E d \in Cron : MemClaims(at'[d], job'[d], g, k)
  BY DEF Claimed, MemClaims
<1>5. Needs(g, k)' <=> \/ grants'[g].state \in {INSTALLED, CANCELLED} /\ k = grants'[g].code
                       \/ \E d \in Cron : MemNeeds(at'[d], job'[d], g, k)
  BY DEF Needs, MemNeeds
<1> QED
  BY <1>2, <1>3, <1>4, <1>5

-----------------------------------------------------------------------------
(* Requests and time                                                       *)

\* Every row stays, is cancelled, or is a new request
RequestRows == \A g \in Grant :
    \/ grants'[g] = grants[g]
    \/ grants[g].state # Absent /\ grants'[g] = [grants[g] EXCEPT !.state = CancelTo(@)]
    \/ grants[g].state = Absent /\ grants'[g].state = REQUESTED

LEMMA RequestsRows == GrantInv /\ Request => RequestRows
<1> SUFFICES ASSUME GrantInv, NEW r \in Reservation,
                    Confirm(r) \/ Deny(r) \/ Cancel(r) \/ \E p \in Period : Modify(r, p)
             PROVE  RequestRows
  BY DEF Request
<1>1. CASE grants' = grants
  BY <1>1 DEF RequestRows
<1>2. CASE RevokeAccess(r)
  BY <1>2, ActiveExist DEF RevokeAccess, Exists, RequestRows
<1>3. ASSUME NEW p, GrantAccess(r, p)
      PROVE  RequestRows
  <2>1. CASE grants' # grants
    <3>0. setting.grants \subseteq Grant
      BY SettingRows
    <3>1. PICK new \in Grant \ Exists : grants' = [h \in Grant |->
                    IF h = new
                    THEN [state |-> REQUESTED, resv |-> r, period |-> p, code |-> None]
                    ELSE IF h \in Active(r) THEN [grants[h] EXCEPT !.state = CancelTo(@)]
                    ELSE grants[h]]
      BY <3>0, <1>3, <2>1 DEF GrantAccess
    <3> QED
      BY <3>1, ActiveExist DEF Exists, RequestRows
  <2> QED
    BY <1>1, <2>1
<1> QED
  BY <1>1, <1>2, <1>3 DEF Confirm, Deny, Cancel, Modify

\* A cancellation takes nothing that a grant needs, and gives it nothing
LEMMA RequestRow ==
    ASSUME GrantInv, RequestRows, NEW g \in Grant
    PROVE  /\ Held(g)' => Held(g) /\ grants'[g].code = grants[g].code
           /\ grants'[g].state \in {INSTALLED, CANCELLED} =>
                grants[g].state \in {INSTALLED, CANCELLED} /\ grants'[g].code = grants[g].code
           /\ \A k : Settled(g, k) => Settled(g, k)'
           /\ grants[g].state = REMOVING =>
                grants'[g].state = REMOVING /\ grants'[g].code = grants[g].code
<1>0. grants[g] \in GrantRow
  BY DEF GrantInv, Data
<1>1. CASE grants'[g] = grants[g]
  BY <1>1 DEF Held, Settled
<1>2. CASE grants[g].state # Absent /\ grants'[g] = [grants[g] EXCEPT !.state = CancelTo(@)]
  <2>1. grants'[g].state = CancelTo(grants[g].state) /\ grants'[g].code = grants[g].code
    BY <1>0, <1>2 DEF GrantRow
  <2> QED
    BY <2>1, Apart DEF CancelTo, Held, Settled
<1>3. CASE grants[g].state = Absent /\ grants'[g].state = REQUESTED
  BY <1>3, Apart DEF Held, Settled
<1> QED
  BY <1>1, <1>2, <1>3 DEF RequestRows

LEMMA RequestsCode ==
    ASSUME CodeInv, RequestRows, UNCHANGED <<setting, users, remote, at, job, hit>>
    PROVE  Codes'
<1>0. GrantInv /\ ClaimsOK /\ TokensOK
  BY DEF CodeInv, LifeInv, Codes
<1>1. ClaimsOK'
  <2>1. ASSUME NEW g \in Grant, NEW k, Claimed(g, k)'
        PROVE  Claimed(g, k)
    BY <1>0, <2>1, RequestRow DEF Claimed, MemClaims
  <2> QED
    BY <1>0, <2>1, ClaimsKept
<1>2. TokensOK'
  <2>1. ASSUME NEW g \in Grant, NEW k, Needs(g, k)'
        PROVE  Needs(g, k)
    BY <1>0, <2>1, RequestRow DEF Needs, MemNeeds
  <2> QED
    BY <1>0, <2>1, TokensKept
<1> QED
  BY <1>1, <1>2 DEF Codes

-----------------------------------------------------------------------------
(* Jobs                                                                    *)

\* A step that changes no row, no user and no token
LEMMA QuietCode ==
    ASSUME CodeInv, LifeInv', NEW c \in Cron, NEW a, NEW j,
           at' = [at EXCEPT ![c] = a], job' = [job EXCEPT ![c] = j],
           UNCHANGED <<setting, grants, users, remote>>, hit \subseteq hit',
           \A g \in Grant : \A k : MemClaims(a, j, g, k) => Claimed(g, k),
           \A g \in Grant \ hit' : \A k : MemNeeds(a, j, g, k) => Needs(g, k),
           at[c] # "off" \/ a # "off"
    PROVE  Codes'
<1>0. GrantInv /\ ClaimsOK /\ TokensOK
  BY DEF CodeInv, LifeInv, Codes
<1>1. ClaimsOK'
  <2>1. ASSUME NEW g \in Grant, NEW k, Claimed(g, k)'
        PROVE  Claimed(g, k)
    <3>1. Held(g)' => Held(g)
      BY DEF Held
    <3> QED
      BY <1>0, <2>1, <3>1, MovedFrom DEF Claimed
  <2> QED
    BY <1>0, <2>1, ClaimsKept
<1>2. TokensOK'
  <2>1. ASSUME NEW g \in Grant \ hit', NEW k, Needs(g, k)'
        PROVE  Needs(g, k)
    BY <1>0, <2>1, MovedFrom DEF Needs
  <2> QED
    BY <1>0, <2>1, TokensKept
<1> QED
  BY <1>1, <1>2 DEF Codes

\* A job outside the steps that have a code claims and needs none
LEMMA NoCode ==
    ASSUME NEW a \in {"off", "revoke", "grant", "user", "removed", "notify"}, NEW j
    PROVE  \A g, k : ~MemClaims(a, j, g, k) /\ ~MemNeeds(a, j, g, k)
BY DEF MemClaims, MemNeeds

\* A job leaves one of its grants in state s: claims
LEMMA PutClaims ==
    ASSUME CodeInv, NEW c \in Cron, NEW a, NEW j,
           at' = [at EXCEPT ![c] = a], job' = [job EXCEPT ![c] = j],
           setting' = setting, hit \subseteq hit',
           NEW g \in Grant, NEW s \in GrantState, Put(g, s),
           g \notin hit' /\ s \in {INSTALLED, CANCELLED, REMOVING} => Held(g),
           \A h, k : ~MemClaims(a, j, h, k),
           \/ users' = users
           \/ /\ \E x : users' = users \ {<<g, x>>}
              /\ s \notin {INSTALLED, CANCELLED, REMOVING}
              /\ g \notin hit' => \A d \in Cron \ {c} : \A k : ~MemClaims(at[d], job[d], g, k)
    PROVE  ClaimsOK'
<1>0. GrantInv /\ ClaimsOK
  BY DEF CodeInv, LifeInv, Codes
<1>1. /\ grants'[g].state = s /\ grants'[g].code = grants[g].code
      /\ \A h \in Grant \ {g} : grants'[h] = grants[h]
  BY <1>0, PutRow
<1>2. ASSUME NEW h \in Grant, NEW k \in Code \cup {None}, h \notin hit', Claimed(h, k)'
      PROVE  Claimed(h, k) /\ (<<h, k>> \in users => <<h, k>> \in users')
  <2>1. \/ Held(h)' /\ k = grants'[h].code
        \/ \E d \in Cron \ {c} : MemClaims(at[d], job[d], h, k)
    BY <1>0, <1>2, MovedFrom
  <2>2. Held(h)' => Held(h) /\ grants'[h].code = grants[h].code
    BY <1>1, <1>2 DEF Held
  <2>3. Claimed(h, k)
    BY <2>1, <2>2 DEF Claimed
  <2>4. users' = users \/ h # g
    BY <1>1, <1>2, <2>1 DEF Held
  <2>5. <<h, k>> \in users => <<h, k>> \in users'
    BY <2>4
  <2> QED
    BY <2>3, <2>5
<1> QED
  BY <1>0, <1>2, ClaimsKept

\* Needs of tokens
LEMMA PutTokens ==
    ASSUME CodeInv, NEW c \in Cron, NEW a, NEW j,
           at' = [at EXCEPT ![c] = a], job' = [job EXCEPT ![c] = j], hit \subseteq hit',
           NEW g \in Grant, NEW s \in GrantState, Put(g, s),
           g \notin hit' /\ s \in {INSTALLED, CANCELLED} => Needs(g, grants[g].code),
           \A h \in Grant \ hit' : \A k : MemNeeds(a, j, h, k) => Needs(h, k),
           \A h \in Grant \ hit', k \in Code \cup {None} :
                Needs(h, k) /\ <<h, k>> \in remote => <<h, k>> \in remote'
    PROVE  TokensOK'
<1>0. GrantInv /\ TokensOK
  BY DEF CodeInv, LifeInv, Codes
<1>1. /\ grants'[g].state = s /\ grants'[g].code = grants[g].code
      /\ \A h \in Grant \ {g} : grants'[h] = grants[h]
  BY <1>0, PutRow
<1>2. ASSUME NEW h \in Grant \ hit', NEW k \in Code \cup {None}, Needs(h, k)'
      PROVE  Needs(h, k)
  <2>1. \/ grants'[h].state \in {INSTALLED, CANCELLED} /\ k = grants'[h].code
        \/ MemNeeds(a, j, h, k)
        \/ \E d \in Cron \ {c} : MemNeeds(at[d], job[d], h, k)
    BY <1>0, <1>2, MovedFrom
  <2>2. CASE grants'[h].state \in {INSTALLED, CANCELLED} /\ k = grants'[h].code
    <3>1. CASE h = g
      BY <1>1, <2>2, <3>1
    <3>2. CASE h # g
      BY <1>1, <2>2, <3>2 DEF Needs
    <3> QED
      BY <3>1, <3>2
  <2> QED
    BY <2>1, <2>2 DEF Needs
<1> QED
  BY <1>0, <1>2, TokensKept

LEMMA ListsCode ==
    ASSUME CodeInv, LifeInv', NEW c \in Cron,
           JobBegin(c) \/ JobTurn(c) \/ JobEnd(c)
    PROVE  Codes'
<1>0. GrantInv /\ UNCHANGED <<setting, grants, users, remote, hit>>
  BY DEF CodeInv, LifeInv, JobBegin, JobTurn, JobEnd
<1>1. CASE JobBegin(c)
  <2>1. /\ at' = [at EXCEPT ![c] = "revoke"]
        /\ job' = [job EXCEPT ![c] = ListJob(c, RevokeList)]
    BY <1>0, <1>1 DEF JobBegin, Move, ListJob, GrantInv, Jobs
  <2> QED
    BY <1>0, <2>1, NoCode, QuietCode
<1>2. CASE JobTurn(c)
  <2>1. /\ at' = [at EXCEPT ![c] = "grant"]
        /\ job' = [job EXCEPT ![c] = ListJob(c, InstallList)]
    BY <1>0, <1>2 DEF JobTurn, Move, ListJob, GrantInv, Jobs
  <2> QED
    BY <1>0, <2>1, NoCode, QuietCode
<1>3. CASE JobEnd(c)
  <2>1. /\ at' = [at EXCEPT ![c] = "off"] /\ job' = [job EXCEPT ![c] = job[c]]
        /\ at[c] # "off"
    BY <1>0, <1>3, MemoryIs DEF JobEnd, Move
  <2> QED
    BY <1>0, <2>1, NoCode, QuietCode
<1> QED
  BY <1>1, <1>2, <1>3

LEMMA SkipCode ==
    ASSUME CodeInv, LifeInv', NEW c \in Cron, at[c] \in {"revoke", "grant"},
           NEW e \in job[c].todo, Skip(c, e)
    PROVE  Codes'
<1>0. GrantInv
  BY DEF CodeInv, LifeInv
<1>1. /\ at' = [at EXCEPT ![c] = at[c]] /\ job' = [job EXCEPT ![c] = PassJob(c, e)]
      /\ UNCHANGED <<setting, grants, users, remote, hit>>
  BY <1>0, MemoryIs DEF Skip, GrantInv, Jobs
<1> QED
  BY <1>1, NoCode, QuietCode

LEMMA TakeCode ==
    ASSUME CodeInv, LifeInv', NEW c \in Cron, NEW e \in job[c].todo,
           StillAs(e), NEW a,
           \/ at[c] = "revoke" /\ a \in {"read", "withdraw"}
           \/ at[c] = "grant" /\ a = "user",
           Put(e[1], Mark(a)), Take(c, e), Move(c, a),
           UNCHANGED <<setting, users, remote, hit>>
    PROVE  Codes'
<1>0. GrantInv /\ MemOf(c, at[c], job[c])
  BY DEF CodeInv, LifeInv
<1> PICK j \in JobRow : j = TakeJob(c, e)
  BY <1>0, MemoryKept
<1>1. /\ at' = [at EXCEPT ![c] = a] /\ job' = [job EXCEPT ![c] = j]
      /\ at[c] # "off"
  BY <1>0, MemoryIs DEF Move
<1>2. j.todo \subseteq job[c].todo /\ j.g = e[1] /\ j.was = e[2]
  BY <1>0, MemoryKept, MemoryMore
<1>3. e[1] \in Grant /\ grants[e[1]].state \in Listed(at[c]) /\ e[2].state \in Listed(at[c])
  BY <1>0, JobParts DEF StillAs
<1>4. Mark(a) \in GrantState
  BY Names DEF Mark
<1>5. a \in Removing => Held(e[1]) /\ grants[e[1]].state \in {INSTALLED, CANCELLED}
  BY <1>3, Apart DEF Listed, Installing, Removing, Held
<1>6. a \notin Removing => Mark(a) = INSTALLING
  BY DEF Mark, Removing, Installing
<1>7. ClaimsOK'
  <2>1. \A h, k : ~MemClaims(a, j, h, k)
    BY DEF MemClaims
  <2>2. Mark(a) \in {INSTALLED, CANCELLED, REMOVING} => Held(e[1])
    BY <1>5, <1>6, Apart
  <2> QED
    BY <1>1, <1>3, <1>4, <2>1, <2>2, PutClaims
<1>8. e[1] \notin hit /\ a \in Removing => e[2].code = grants[e[1]].code
  <2>1. a \in Removing => e[2].state \in {INSTALLED, CANCELLED}
    BY <1>3 DEF Listed, Installing, Removing
  <2> QED
    BY <1>0, <2>1 DEF MemOf, TodoOK, Settled
<1>9. TokensOK'
  <2>1. ASSUME NEW h \in Grant \ hit', NEW k, MemNeeds(a, j, h, k)
        PROVE  Needs(h, k)
    BY <1>2, <1>5, <1>8, <2>1 DEF MemNeeds, Needs, Removing
  <2>2. Mark(a) \notin {INSTALLED, CANCELLED}
    BY Apart DEF Mark
  <2> QED
    BY <1>1, <1>3, <1>4, <2>1, <2>2, PutTokens
<1> QED
  BY <1>7, <1>9 DEF Codes

\* A grant whose removal failed is as it was before
LEMMA RemoveFailsCode ==
    ASSUME CodeInv, LifeInv', NEW c \in Cron, at[c] \in {"read", "withdraw"},
           RetryLater(c, job[c].was.state, "revoke"), UNCHANGED <<setting, users>>,
           hit \subseteq hit',
           \A h \in Grant \ hit', k \in Code \cup {None} :
                Needs(h, k) /\ <<h, k>> \in remote => <<h, k>> \in remote'
    PROVE  Codes'
<1>0. GrantInv
  BY DEF CodeInv, LifeInv
<1>1. at[c] \in Removing /\ at[c] \in Working /\ at[c] # "off"
  BY DEF Removing, Working, Alone
<1>2. job[c].g \in Grant /\ job[c].was.state \in {INSTALLED, CANCELLED}
  BY <1>1, OwnFacts DEF CodeInv
<1> PICK g \in Grant, s \in GrantState, j \in JobRow :
        g = job[c].g /\ s = job[c].was.state /\ j = DoneJob(c)
  BY <1>0, <1>2, MemoryKept, Names
<1>3. /\ at' = [at EXCEPT ![c] = "revoke"] /\ job' = [job EXCEPT ![c] = j] /\ Put(g, s)
      /\ j.todo \subseteq job[c].todo
  BY <1>0, MemoryIs, MemoryKept DEF RetryLater, Move
<1>4. g \notin hit' => g \notin hit
  OBVIOUS
<1>5. g \notin hit => Held(g) /\ grants[g].code = job[c].was.code
  BY <1>1, OwnCode
<1>6. ClaimsOK'
  BY <1>3, <1>4, <1>5, NoCode, PutClaims
<1>7. TokensOK'
  <2>1. g \notin hit' => Needs(g, grants[g].code)
    BY <1>5 DEF Needs, MemNeeds
  <2> QED
    BY <1>3, <2>1, NoCode, PutTokens
<1> QED
  BY <1>6, <1>7 DEF Codes

\* A removal takes no code that another grant needs, unless it strikes it
LEMMA NeedsKept ==
    ASSUME CodeInv, LifeInv', NEW c \in Cron, at[c] = "withdraw", remote' = Remaining(c),
           NEW h \in Grant \ (hit \cup Overwritten(c)), NEW k \in Code \cup {None},
           h # job[c].g, <<h, k>> \in remote
    PROVE  <<h, k>> \in remote'
<1>1. Tok(h)' = Tok(h)
  BY WithdrawTokens DEF CodeInv, Codes
<1>2. k \in Tok(h)
  BY DEF Tok
<1>3. PICK t \in remote' : t[1] = h /\ t[2] = k
  BY <1>1, <1>2 DEF Tok
<1>4. t \in Grant \X Code
  BY DEF LifeInv, GrantInv, Data
<1> QED
  BY <1>3, <1>4

LEMMA RemoveCode ==
    ASSUME CodeInv, LifeInv', NEW c \in Cron, Remove(c)
    PROVE  Codes'
<1>0. GrantInv
  BY DEF CodeInv, LifeInv
<1>1. CASE RemoveBegin(c)
  <2>1. at[c] = "revoke"
    BY <1>1 DEF RemoveBegin
  <2>2. PICK e \in job[c].todo :
        \/ Skip(c, e)
        \/ /\ StillAs(e) /\ Put(e[1], REMOVING) /\ Take(c, e)
           /\ Move(c, IF setting.driver = "abloy" THEN "read" ELSE "withdraw")
           /\ UNCHANGED <<setting, users, remote, hit>>
    BY <1>1 DEF RemoveBegin
  <2>3. CASE Skip(c, e)
    BY <2>1, <2>3, SkipCode
  <2>4. CASE ~Skip(c, e)
    <3>1. PICK a \in {"read", "withdraw"} : Move(c, a)
      BY <2>2, <2>4
    <3>2. Mark(a) = REMOVING
      BY DEF Mark, Installing
    <3> QED
      BY <2>1, <2>2, <2>4, <3>1, <3>2, TakeCode
  <2> QED
    BY <2>3, <2>4
<1>2. CASE RemoveRead(c)
  <2>1. /\ at[c] = "read" /\ at[c] # "off" /\ UNCHANGED <<setting, grants, users, remote, hit>>
    BY <1>2 DEF RemoveRead
  <2>2. at' = [at EXCEPT ![c] = "withdraw"] /\ job' = [job EXCEPT ![c] = SeenJob(c)]
    BY <1>0, <1>2 DEF RemoveRead, Move, SeenJob, GrantInv, Jobs
  <2>3. /\ SeenJob(c).todo = job[c].todo /\ SeenJob(c).g = job[c].g
        /\ SeenJob(c).was = job[c].was
    BY <1>0, MemoryKept, MemoryMore
  <2>4. \A g, k : ~MemClaims("withdraw", SeenJob(c), g, k)
    BY DEF MemClaims
  <2>5. \A g, k : MemNeeds("withdraw", SeenJob(c), g, k) => Needs(g, k)
    BY <2>1, <2>3 DEF MemNeeds, Needs
  <2> QED
    BY <2>1, <2>2, <2>4, <2>5, QuietCode
<1>3. CASE RemoveReadFails(c)
  BY <1>3, RemoveFailsCode DEF RemoveReadFails, RemoveFails
<1>4. CASE RemoveSend(c)
  <2>1. /\ at[c] = "withdraw" /\ at[c] \in Removing /\ at[c] \in Alone
        /\ remote' = Remaining(c) /\ hit' = hit \cup Overwritten(c)
        /\ UNCHANGED <<setting, grants, users>>
    BY <1>4 DEF RemoveSend, Removing, Alone
  <2> PICK j \in JobRow : j = job[c]
    BY <1>0 DEF GrantInv, Jobs
  <2>2. at' = [at EXCEPT ![c] = "removed"] /\ job' = [job EXCEPT ![c] = j]
    BY <1>0, <1>4, MemoryIs DEF RemoveSend, Move
  <2>3. ClaimsOK'
    <3>1. ASSUME NEW g \in Grant, NEW k, Claimed(g, k)'
          PROVE  Claimed(g, k)
      <4>1. Held(g)' => Held(g)
        BY <2>1 DEF Held
      <4> QED
        BY <1>0, <2>1, <2>2, <3>1, <4>1, NoCode, MovedFrom DEF Claimed
    <3>2. hit \subseteq hit' /\ ClaimsOK
      BY <2>1 DEF CodeInv, Codes
    <3> QED
      BY <2>1, <3>1, <3>2, ClaimsKept
  <2>4. TokensOK'
    <3>1. ASSUME NEW g \in Grant \ hit', NEW k \in Code \cup {None}, Needs(g, k)'
          PROVE  Needs(g, k) /\ g # job[c].g
      <4>1. \/ grants[g].state \in {INSTALLED, CANCELLED} /\ k = grants[g].code
            \/ \E d \in Cron \ {c} : MemNeeds(at[d], job[d], g, k)
        BY <1>0, <2>1, <2>2, <3>1, NoCode, MovedFrom
      <4>2. g \notin hit
        BY <2>1
      <4>3. g = job[c].g => grants[g].state = REMOVING
        BY <2>1, <4>2, OwnCode
      <4>4. g # job[c].g
        BY <2>1, <4>1, <4>2, <4>3, OnlyJob, Apart DEF CodeInv
      <4> QED
        BY <4>1, <4>4 DEF Needs
    <3>2. \A g \in Grant \ hit', k \in Code \cup {None} :
            g # job[c].g /\ <<g, k>> \in remote => <<g, k>> \in remote'
      BY <2>1, NeedsKept
    <3>3. hit \subseteq hit' /\ TokensOK
      BY <2>1 DEF CodeInv, Codes
    <3> QED
      BY <3>1, <3>2, <3>3, TokensKept
  <2> QED
    BY <2>3, <2>4 DEF Codes
<1>5. CASE RemoveSendFails(c)
  <2>1. /\ at[c] = "withdraw" /\ RetryLater(c, job[c].was.state, "revoke")
        /\ UNCHANGED <<setting, users>>
        /\ \/ remote' = remote /\ hit' = hit
           \/ /\ remote' = Remaining(c)
              /\ hit' = hit \cup Overwritten(c) \cup {job[c].g}
    BY <1>5 DEF RemoveSendFails, RemoveFails
  <2>2. \A h \in Grant \ hit', k \in Code \cup {None} :
            Needs(h, k) /\ <<h, k>> \in remote => <<h, k>> \in remote'
    BY <2>1, NeedsKept
  <2>3. hit \subseteq hit'
    BY <2>1
  <2> QED
    BY <2>1, <2>2, <2>3, RemoveFailsCode
<1>6. CASE RemoveSave(c)
  <2>1. /\ at[c] = "removed" /\ at[c] \in Removing /\ at[c] \in Alone /\ at[c] \in Working
        /\ at[c] # "off" /\ users' = users \ {<<job[c].g, job[c].was.code>>}
        /\ Put(job[c].g, REMOVED) /\ UNCHANGED <<setting, remote, hit>>
    BY <1>6 DEF RemoveSave, Removing, Alone, Working
  <2> PICK j \in JobRow : j = DoneJob(c)
    BY <1>0, MemoryKept
  <2>2. /\ at' = [at EXCEPT ![c] = "revoke"] /\ job' = [job EXCEPT ![c] = j]
        /\ j.todo \subseteq job[c].todo
    BY <1>0, <1>6, MemoryIs, MemoryKept DEF RemoveSave, Move
  <2>3. job[c].g \in Grant /\ REMOVED \in GrantState
        /\ REMOVED \notin {INSTALLED, CANCELLED, REMOVING}
    BY <2>1, OwnFacts, Apart DEF CodeInv, GrantState
  <2>4. ClaimsOK'
    <3> PICK g \in Grant : g = job[c].g
      BY <2>3
    <3>1. g \notin hit' => g \notin hit
      BY <2>1
    <3>2. g \notin hit' => \A d \in Cron \ {c} : \A k : ~MemClaims(at[d], job[d], g, k)
      BY <2>1, <3>1, OnlyJob DEF CodeInv
    <3> QED
      BY <2>1, <2>2, <2>3, <3>2, NoCode, PutClaims
  <2>5. TokensOK'
    BY <2>1, <2>2, <2>3, NoCode, PutTokens
  <2> QED
    BY <2>4, <2>5 DEF Codes
<1> QED
  BY <1>1, <1>2, <1>3, <1>4, <1>5, <1>6 DEF Remove

\* An exception while a grant is installed, or notified of: it is requested again
LEMMA InstallFailsCode ==
    ASSUME CodeInv, LifeInv', NEW c \in Cron, at[c] \in Installing \cup {"notify"},
           RetryLater(c, REQUESTED, "grant"), setting' = setting, hit \subseteq hit',
           \/ users' = users
           \/ at[c] \in Installing /\ \E x : users' = users \ {<<job[c].g, x>>},
           remote \subseteq remote'
    PROVE  Codes'
<1>0. GrantInv /\ at[c] \in Working /\ at[c] # "off"
  BY DEF CodeInv, LifeInv, Working, Alone, Installing
<1> PICK g \in Grant, j \in JobRow : g = job[c].g /\ j = DoneJob(c)
  BY <1>0, OwnFacts, MemoryKept DEF CodeInv
<1>1. at' = [at EXCEPT ![c] = "grant"] /\ job' = [job EXCEPT ![c] = j] /\ Put(g, REQUESTED)
  BY <1>0, MemoryIs DEF RetryLater, Move
<1>2. REQUESTED \in GrantState /\ REQUESTED \notin {INSTALLED, CANCELLED, REMOVING}
  BY Apart DEF GrantState
<1>3. ClaimsOK'
  <2>1. g \notin hit' => g \notin hit
    OBVIOUS
  <2>2. at[c] \in Installing /\ g \notin hit' =>
            \A d \in Cron \ {c} : \A k : ~MemClaims(at[d], job[d], g, k)
    BY <2>1, OnlyJob DEF CodeInv, Alone
  <2> QED
    BY <1>1, <1>2, <2>2, NoCode, PutClaims
<1>4. TokensOK'
  BY <1>1, <1>2, NoCode, PutTokens
<1> QED
  BY <1>3, <1>4 DEF Codes

LEMMA InstallOverCode ==
    ASSUME CodeInv, LifeInv', NEW c \in Cron, at[c] = "grant",
           NEW e \in job[c].todo, Put(e[1], REMOVED), Pass(c, e), hit \subseteq hit',
           UNCHANGED <<setting, users, remote, at>>
    PROVE  Codes'
<1>0. GrantInv /\ e[1] \in Grant
  BY JobParts DEF CodeInv, LifeInv
<1> PICK j \in JobRow : j = PassJob(c, e)
  BY <1>0, MemoryKept
<1>1. at' = [at EXCEPT ![c] = "grant"] /\ job' = [job EXCEPT ![c] = j]
  BY <1>0, MemoryIs DEF GrantInv, Jobs
<1>2. REMOVED \in GrantState /\ REMOVED \notin {INSTALLED, CANCELLED, REMOVING}
  BY Apart DEF GrantState
<1>3. ClaimsOK'
  BY <1>0, <1>1, <1>2, NoCode, PutClaims
<1>4. TokensOK'
  BY <1>0, <1>1, <1>2, NoCode, PutTokens
<1> QED
  BY <1>3, <1>4 DEF Codes

\* A code that a job may take is nobody's, unless it is chosen twice
LEMMA PinsAreFree ==
    ASSUME CodeInv, NEW c \in Cron, at[c] = "user", NEW k \in Pins
    PROVE  k \in Code /\ (ChosenTwice(c, k) \/ \A h \in Grant \ hit : ~Claimed(h, k))
<1>1. k \in Code
  BY DEF Pins, FreeCodes
<1>2. CASE k \notin ActiveCodes
  <2> SUFFICES ASSUME NEW h \in Grant \ hit, Claimed(h, k)
               PROVE  FALSE
    BY <1>1
  <2>1. <<h, k>> \in users
    BY <1>1 DEF CodeInv, Codes, ClaimsOK
  <2> QED
    BY <1>2, <2>1 DEF ActiveCodes
<1>3. CASE k \in ActiveCodes /\ ~ChosenTwice(c, k)
  <2>1. k \in FreeCodes
    BY <1>3 DEF Pins
  <2>2. \A h \in Grant : Held(h) => grants[h].code # k
    BY <2>1, Apart DEF FreeCodes, Held, InState, Exists
  <2>3. \A d \in Cron, h \in Grant : ~MemClaims(at[d], job[d], h, k)
    BY <1>3 DEF MemClaims, ChosenTwice
  <2> QED
    BY <1>1, <2>2, <2>3 DEF Claimed
<1> QED
  BY <1>1, <1>2, <1>3

LEMMA CreateUserCode ==
    ASSUME CodeInv, LifeInv', NEW c \in Cron, at[c] = "user", NEW k \in Pins,
           users' = users \cup {<<job[c].g, k>>}, job' = [job EXCEPT ![c].code = k],
           hit' = IF ChosenTwice(c, k) THEN hit \cup {job[c].g} ELSE hit,
           Move(c, "send"), UNCHANGED <<setting, grants, remote>>
    PROVE  Codes'
<1>0. /\ GrantInv /\ ClaimsOK /\ TokensOK /\ k \in Code /\ job \in [Cron -> JobRow]
      /\ ChosenTwice(c, k) \/ \A h \in Grant \ hit : ~Claimed(h, k)
      /\ hit \subseteq hit'
  BY PinsAreFree DEF CodeInv, Codes, LifeInv, GrantInv, Jobs
<1> PICK j \in JobRow : j = CodeJob(c, k)
  BY <1>0, MemoryKept
<1>1. at' = [at EXCEPT ![c] = "send"] /\ job' = [job EXCEPT ![c] = j]
  BY <1>0 DEF Move, CodeJob
<1>2. j.g = job[c].g /\ j.code = k
  BY <1>0, MemoryKept
<1>3. ClaimsOK'
  <2>1. ASSUME NEW g \in Grant, NEW x \in Code \cup {None}, Claimed(g, x)'
        PROVE  Claimed(g, x) \/ (g = job[c].g /\ x = k)
    <3>1. \/ Held(g)' /\ x = grants'[g].code
          \/ MemClaims("send", j, g, x)
          \/ \E d \in Cron \ {c} : MemClaims(at[d], job[d], g, x)
      BY <1>0, <1>1, <2>1, MovedFrom
    <3>2. Held(g)' => Held(g)
      BY DEF Held
    <3> QED
      BY <1>2, <3>1, <3>2 DEF Claimed, MemClaims
  <2>2. CASE ChosenTwice(c, k)
    <3>1. ASSUME NEW g \in Grant \ hit', NEW x \in Code \cup {None}, Claimed(g, x)'
          PROVE  Claimed(g, x)
      BY <2>1, <2>2, <3>1
    <3> QED
      BY <1>0, <3>1, ClaimsKept
  <2>3. CASE ~ChosenTwice(c, k)
    <3>0. hit' = hit /\ \A h \in Grant \ hit : ~Claimed(h, k)
      BY <1>0, <2>3
    <3> SUFFICES ASSUME NEW g \in Grant, NEW x \in Code \cup {None}, g \notin hit', Claimed(g, x)'
                 PROVE  /\ x \in Code /\ <<g, x>> \in users'
                        /\ \A h \in Grant : h \notin hit' /\ Claimed(h, x)' => h = g
      BY DEF ClaimsOK
    <3>1. CASE Claimed(g, x)
      <4>1. x \in Code /\ <<g, x>> \in users /\ x # k
        BY <1>0, <3>0, <3>1 DEF ClaimsOK
      <4>2. \A h \in Grant : h \notin hit' /\ Claimed(h, x)' => h = g
        BY <1>0, <2>1, <3>0, <3>1, <4>1 DEF ClaimsOK
      <4> QED
        BY <4>1, <4>2
    <3>2. CASE g = job[c].g /\ x = k
      BY <1>0, <2>1, <3>0, <3>2
    <3> QED
      BY <2>1, <3>1, <3>2
  <2> QED
    BY <2>2, <2>3
<1>4. TokensOK'
  <2>1. ASSUME NEW g \in Grant, NEW x, Needs(g, x)'
        PROVE  Needs(g, x)
    BY <1>0, <1>1, <2>1, MovedFrom DEF Needs, MemNeeds
  <2> QED
    BY <1>0, <2>1, TokensKept
<1> QED
  BY <1>3, <1>4 DEF Codes

LEMMA InstallSendCode ==
    ASSUME CodeInv, LifeInv', NEW c \in Cron, InstallSend(c)
    PROVE  Codes'
<1>0. /\ GrantInv /\ ClaimsOK /\ TokensOK /\ at[c] = "send" /\ at[c] # "off"
      /\ remote' = remote \cup {<<job[c].g, job[c].code>>}
      /\ UNCHANGED <<setting, grants, users, hit>>
  BY DEF CodeInv, Codes, LifeInv, InstallSend
<1> PICK j \in JobRow : j = job[c]
  BY <1>0 DEF GrantInv, Jobs
<1>1. at' = [at EXCEPT ![c] = "save"] /\ job' = [job EXCEPT ![c] = j]
  BY <1>0, MemoryIs DEF InstallSend, Move
<1>2. ClaimsOK'
  <2>1. ASSUME NEW g \in Grant, NEW k, Claimed(g, k)'
        PROVE  Claimed(g, k)
    <3>1. Held(g)' => Held(g)
      BY <1>0 DEF Held
    <3>2. MemClaims("save", j, g, k) => MemClaims(at[c], job[c], g, k)
      BY <1>0 DEF MemClaims
    <3> QED
      BY <1>0, <1>1, <2>1, <3>1, <3>2, MovedFrom DEF Claimed
  <2> QED
    BY <1>0, <2>1, ClaimsKept
<1>3. TokensOK'
  <2>1. ASSUME NEW g \in Grant, NEW k, Needs(g, k)'
        PROVE  Needs(g, k) \/ <<g, k>> = <<job[c].g, job[c].code>>
    <3>1. MemNeeds("save", j, g, k) => g = job[c].g /\ k = job[c].code
      BY DEF MemNeeds
    <3> QED
      BY <1>0, <1>1, <2>1, <3>1, MovedFrom DEF Needs
  <2> QED
    BY <1>0, <2>1, TokensKept
<1> QED
  BY <1>2, <1>3 DEF Codes

LEMMA InstallSaveCode ==
    ASSUME CodeInv, LifeInv', NEW c \in Cron, InstallSave(c)
    PROVE  Codes'
<1>0. /\ GrantInv /\ ClaimsOK /\ TokensOK /\ at[c] = "save" /\ at[c] # "off"
      /\ grants' = [grants EXCEPT ![job[c].g].state = INSTALLED, ![job[c].g].code = job[c].code]
      /\ UNCHANGED <<setting, users, remote, hit>> /\ at[c] \in Working
  BY Names DEF CodeInv, Codes, LifeInv, InstallSave
<1> PICK j \in JobRow, g \in Grant : j = job[c] /\ g = job[c].g
  BY <1>0, OwnFacts DEF CodeInv, GrantInv, Jobs
<1>1. at' = [at EXCEPT ![c] = "notify"] /\ job' = [job EXCEPT ![c] = j]
  BY <1>0, MemoryIs DEF InstallSave, Move
<1>2. /\ grants'[g].state = INSTALLED /\ grants'[g].code = job[c].code
      /\ \A h \in Grant \ {g} : grants'[h] = grants[h]
  <2>1. grants \in [Grant -> GrantRow] /\ grants[g] \in GrantRow
    BY <1>0 DEF GrantInv, Data
  <2> DEFINE row == [grants[g] EXCEPT !.state = INSTALLED, !.code = job[c].code]
  <2>2. grants' = [grants EXCEPT ![g] = row]
    BY <1>0, <2>1
  <2>3. row.state = INSTALLED /\ row.code = job[c].code
    BY <2>1 DEF GrantRow
  <2> QED
    BY <2>1, <2>2, <2>3
<1>3. ClaimsOK'
  <2>1. ASSUME NEW h \in Grant, NEW k, Claimed(h, k)'
        PROVE  Claimed(h, k)
    <3>1. \/ Held(h)' /\ k = grants'[h].code
          \/ \E d \in Cron \ {c} : MemClaims(at[d], job[d], h, k)
      BY <1>0, <1>1, <2>1, NoCode, MovedFrom
    <3>2. MemClaims(at[c], job[c], g, job[c].code)
      BY <1>0 DEF MemClaims
    <3>3. h # g => (Held(h)' <=> Held(h))
      BY <1>2 DEF Held
    <3> QED
      BY <1>2, <3>1, <3>2, <3>3 DEF Claimed
  <2> QED
    BY <1>0, <2>1, ClaimsKept
<1>4. TokensOK'
  <2>1. ASSUME NEW h \in Grant, NEW k, Needs(h, k)'
        PROVE  Needs(h, k)
    <3>1. \/ grants'[h].state \in {INSTALLED, CANCELLED} /\ k = grants'[h].code
          \/ \E d \in Cron \ {c} : MemNeeds(at[d], job[d], h, k)
      BY <1>0, <1>1, <2>1, NoCode, MovedFrom
    <3>2. MemNeeds(at[c], job[c], g, job[c].code)
      BY <1>0 DEF MemNeeds
    <3> QED
      BY <1>2, <3>1, <3>2 DEF Needs
  <2> QED
    BY <1>0, <2>1, TokensKept
<1> QED
  BY <1>3, <1>4 DEF Codes

LEMMA InstallCode ==
    ASSUME CodeInv, LifeInv', NEW c \in Cron, Install(c)
    PROVE  Codes'
<1>0. GrantInv
  BY DEF CodeInv, LifeInv
<1>1. CASE InstallBegin(c)
  <2>1. at[c] = "grant"
    BY <1>1 DEF InstallBegin
  <2>2. PICK e \in job[c].todo :
        \/ /\ Put(e[1], REMOVED) /\ Pass(c, e) /\ hit \subseteq hit'
           /\ UNCHANGED <<setting, users, remote, at>>
        \/ Skip(c, e)
        \/ /\ StillAs(e) /\ Put(e[1], INSTALLING) /\ Take(c, e) /\ Move(c, "user")
           /\ UNCHANGED <<setting, users, remote, hit>>
    BY <1>1 DEF InstallBegin
  <2>3. Mark("user") = INSTALLING
    BY DEF Mark, Installing
  <2> QED
    BY <2>1, <2>2, <2>3, InstallOverCode, SkipCode, TakeCode
<1>2. CASE CreateUser(c)
  <2>1. at[c] = "user" /\ at[c] \in Installing
    BY <1>2 DEF CreateUser, Installing
  <2>2. \/ \E k \in Pins :
            /\ users' = users \cup {<<job[c].g, k>>} /\ job' = [job EXCEPT ![c].code = k]
            /\ hit' = IF ChosenTwice(c, k) THEN hit \cup {job[c].g} ELSE hit
            /\ Move(c, "send") /\ UNCHANGED <<setting, grants, remote>>
        \/ RetryLater(c, REQUESTED, "grant") /\ UNCHANGED <<setting, users, remote, hit>>
    BY <1>2 DEF CreateUser, InstallFails
  <2> QED
    BY <2>1, <2>2, CreateUserCode, InstallFailsCode
<1>3. CASE InstallSendFails(c)
  <2>1. /\ at[c] \in Installing /\ RetryLater(c, REQUESTED, "grant") /\ setting' = setting
        /\ hit \subseteq hit' /\ remote \subseteq remote'
        /\ users' = users \/ users' = users \ {<<job[c].g, job[c].code>>}
    BY <1>3 DEF InstallSendFails, InstallFails, Installing
  <2> QED
    BY <2>1, InstallFailsCode
<1>4. CASE Notify(c)
  <2>1. /\ at' = [at EXCEPT ![c] = "grant"] /\ job' = [job EXCEPT ![c] = DoneJob(c)]
        /\ at[c] # "off" /\ UNCHANGED <<setting, grants, users, remote, hit>>
    BY <1>0, <1>4, MemoryIs DEF Notify, Move
  <2> QED
    BY <2>1, NoCode, QuietCode
<1>5. CASE NotifyFails(c)
  BY <1>5, InstallFailsCode DEF NotifyFails, InstallFails
<1> QED
  BY <1>1, <1>2, <1>3, <1>4, <1>5, InstallSendCode, InstallSaveCode DEF Install

LEMMA CrashCode ==
    ASSUME CodeInv, LifeInv', NEW c \in Cron, Crash(c)
    PROVE  Codes'
<1>1. /\ at' = [at EXCEPT ![c] = "off"] /\ job' = [job EXCEPT ![c] = Idle] /\ at[c] # "off"
      /\ UNCHANGED <<setting, grants, users, remote>> /\ hit \subseteq hit'
  BY Names DEF Crash, Move
<1> QED
  BY <1>1, NoCode, QuietCode

-----------------------------------------------------------------------------
(* The theorems                                                            *)

LEMMA InitCode == Init => CodeInv
<1> SUFFICES ASSUME Init PROVE CodeInv
  OBVIOUS
<1>1. \A g \in Grant : grants[g].state = Absent
  BY DEF Init, NoGrant
<1>2. \A c \in Cron : at[c] = "off"
  BY DEF Init
<1>3. ClaimsOK /\ TokensOK
  BY <1>1, <1>2, Apart DEF ClaimsOK, TokensOK, Claimed, Needs, Held, MemClaims, MemNeeds
<1> QED
  BY <1>3, InitLife DEF CodeInv, Codes

LEMMA StepCode ==
    ASSUME CodeInv, [Next]_vars
    PROVE  CodeInv'
<1>0. LifeInv' /\ GrantInv
  BY StepLife DEF CodeInv, Codes, LifeInv
<1>1. CASE Request
  <2>1. UNCHANGED <<setting, users, remote, at, job, hit>>
    BY <1>1 DEF Request, Confirm, Deny, Cancel, Modify
  <2> QED
    BY <1>0, <1>1, <2>1, RequestsRows, RequestsCode DEF CodeInv
<1>2. CASE Clock \/ UNCHANGED vars
  <2>1. UNCHANGED <<setting, grants, users, remote, at, job, hit>>
    BY <1>2 DEF Clock, TimePasses, Retry, vars
  <2> QED
    BY <1>0, <2>1, RequestsCode DEF CodeInv, RequestRows
<1>3. ASSUME NEW c \in Cron, Job(c)
      PROVE  CodeInv'
  BY <1>0, <1>3, ListsCode, RemoveCode, InstallCode DEF Job, CodeInv
<1>4. ASSUME NEW c \in Cron, Crash(c)
      PROVE  CodeInv'
  BY <1>0, <1>4, CrashCode DEF CodeInv
<1> QED
  BY <1>1, <1>2, <1>3, <1>4 DEF Next

\* A code that opens the door belongs to a grant that will be removed, unless it was
\* struck: kulkunen never has a code of a grant that it takes for requested or removed.
THEOREM NoCodeForgotten == Spec => []NoForgottenCode
<1>1. CodeInv => NoForgottenCode
  <2> SUFFICES ASSUME CodeInv, NEW t \in remote, t[1] \notin hit
               PROVE  grants[t[1]].state \notin {REQUESTED, REMOVED}
    BY DEF NoForgottenCode
  <2>1. t[1] \in Grant \ hit /\ Tok(t[1]) # {}
    BY DEF CodeInv, LifeInv, GrantInv, Data, Tok
  <2>2. TokOK(t[1])
    BY <2>1 DEF CodeInv, LifeInv, RowOK
  <2> QED
    BY <2>1, <2>2, Apart DEF TokOK
<1>2. CodeInv /\ [Next]_vars => CodeInv'
  BY StepCode
<1> QED
  BY <1>1, <1>2, InitCode, PTL DEF Spec

\* Every grant lives as GrantLife says: it is wanted, may open its door, and once it is
\* closed it never opens a door again.
THEOREM ImplementsGrantLife == Spec => GrantsLive
<1>1. Init => Life!Init
  BY GrantAssumption DEF Init, Life!Init, StageOf, Exists, NoGrant
<1>2. CodeInv /\ [Next]_vars => CodeInv'
  BY StepCode
<1>3. CodeInv /\ [Next]_vars => [Life!Next]_([g \in Grant |-> StageOf(g)])
  <2> SUFFICES ASSUME CodeInv, [Next]_vars PROVE Life!Next
    OBVIOUS
  <2>1. LifeInv /\ LifeStep
    BY StepLife DEF CodeInv, Codes
  <2>2. \A g \in Grant : StageOf(g)' \in Life!Stage
    BY DEF StageOf, Life!Stage
  <2>3. \A g \in Grant : <<StageOf(g), StageOf(g)'>>
            \in Life!Want \cup Life!Open \cup Life!Close \cup Life!LoseSight \cup Life!Stay
    BY <2>1, StageStep
  <2> QED
    BY <2>2, <2>3 DEF Life!Next
<1> QED
  BY <1>1, <1>2, <1>3, InitCode, PTL DEF Spec, GrantsLive, Life!Spec

\* Two grants never have one code, unless one of them was struck: the codes of the active
\* users are not given again, and Abloy's codes of removed grants only when no row has them.
THEOREM CodesAreApart == Spec => []NoSharedCode
<1>1. CodeInv => NoSharedCode
  <2> SUFFICES ASSUME CodeInv, NEW s \in remote, NEW t \in remote, s[2] = t[2],
                      s[1] \notin hit, t[1] \notin hit
               PROVE  s[1] = t[1]
    BY DEF NoSharedCode
  <2>1. \A u \in remote : u[1] \notin hit =>
            u[1] \in Grant /\ u[2] \in Code /\ Claimed(u[1], u[2])
    BY TokenClaimed DEF CodeInv
  <2> QED
    BY <2>1 DEF CodeInv, Codes, ClaimsOK
<1>2. CodeInv /\ [Next]_vars => CodeInv'
  BY StepCode
<1> QED
  BY <1>1, <1>2, InitCode, PTL DEF Spec

\* An installed grant has its code at the remote system, unless it was struck: no removal of
\* another grant, and no list of tokens that a job of Abloy writes back, takes it away.
THEOREM InstalledCodesOpen == Spec => []InstalledOpens
<1>1. CodeInv => InstalledOpens
  <2> SUFFICES ASSUME CodeInv, NEW g \in InState({INSTALLED}) \ hit
               PROVE  <<g, grants[g].code>> \in remote
    BY DEF InstalledOpens
  <2>1. g \in Grant \ hit /\ grants[g].state = INSTALLED
    BY DEF InState, Exists
  <2>2. grants[g].code \in Code \cup {None}
    BY <2>1 DEF CodeInv, LifeInv, GrantInv, Data, GrantRow
  <2> QED
    BY <2>1, <2>2 DEF CodeInv, Codes, TokensOK, Needs
<1>2. CodeInv /\ [Next]_vars => CodeInv'
  BY StepCode
<1> QED
  BY <1>1, <1>2, InitCode, PTL DEF Spec
=============================================================================
