---------------------------- MODULE AccessGrants ----------------------------
(***************************************************************************)
(* Access control (kulkunen): grants of access codes to reservations, the  *)
(* requests that ask for them and withdraw them, and the cron job that     *)
(* installs them in the remote access control system and removes them.     *)
(*                                                                         *)
(* A request runs in one transaction and holds the locks of the grants it  *)
(* has selected until it commits: it is one step.  A job commits after     *)
(* every statement, calls the remote system between two commits, and works *)
(* from lists of grants that it has read before.  Jobs may overlap, a call *)
(* may fail or its answer may be lost, and a job may die at any point.     *)
(*                                                                         *)
(* One access control system with one resource, and one person who has all *)
(* the reservations.  The remote system is external.                       *)
(***************************************************************************)
EXTENDS Integers, FiniteSets

CONSTANTS
    Reservation, \* reservations of the resource
    Grant,       \* rows of AccessControlGrant
    Cron,        \* processes that may run the job
    Code,        \* PIN codes
    Period,      \* times of reservations
    Setting,     \* driver, how many grants, the processes that run the job, what may go wrong
    None         \* none of these

\* AccessControlGrant.state; Absent is no row yet
Absent == "absent"
REQUESTED == "requested"
INSTALLING == "installing"
INSTALLED == "installed"
CANCELLED == "cancelled"
REMOVING == "removing"
REMOVED == "removed"
GrantState == {REQUESTED, INSTALLING, INSTALLED, CANCELLED, REMOVING, REMOVED}

ASSUME GrantAssumption ==
    /\ None \notin Code \cup Grant \cup Reservation \cup Period
    /\ Grant \subseteq Nat
    /\ Setting \subseteq [driver : {"sipass", "abloy"}, grants : SUBSET Grant, cron : SUBSET Cron,
                          faults : SUBSET {"refused", "lost", "notify", "crash"}]

VARIABLES
    setting, \* chosen once
    phase,   \* how far the time of a period is: a day away, near, over
    resv,    \* reservation rows: state and period
    grants,  \* AccessControlGrant rows
    wait,    \* the grants whose delay before a retry is running
    users,   \* active AccessControlUser rows: whose, with which code
    remote,  \* external: the cardholders or tokens of the remote system
    at, job, \* where each job is, and what it holds in memory
    hit      \* history: grants struck by a lost answer, a failed notification, a crash, a
             \* cancellation from an old copy, or another job of the Abloy driver

vars == <<setting, phase, resv, grants, wait, users, remote, at, job, hit>>

NoGrant == [state |-> Absent, resv |-> None, period |-> None, code |-> None]
GrantRow == [state : GrantState \cup {Absent}, resv : Reservation \cup {None},
             period : Period \cup {None}, code : Code \cup {None}]
Exists == {g \in Grant : grants[g].state # Absent}
InState(S) == {g \in Exists : grants[g].state \in S}

Over(g) == phase[grants[g].period] = "over"

\* The steps at which a job works on a grant, and those at which it is to do so alone
Installing == {"user", "send", "save"}
Removing == {"read", "withdraw", "removed"}
Alone == Installing \cup Removing
Working == Alone \cup {"notify"}

Idle == [todo |-> {}, g |-> None, was |-> NoGrant, code |-> None, seen |-> {}]

TypeOK ==
    /\ setting \in Setting
    /\ phase \in [Period -> {"far", "near", "over"}]
    /\ resv \in [Reservation -> [state : {"created", "confirmed", "denied", "cancelled"},
                                 period : Period]]
    /\ grants \in [Grant -> GrantRow]
    /\ wait \subseteq Grant /\ hit \subseteq Grant
    /\ users \subseteq Grant \X Code /\ remote \subseteq Grant \X Code
    /\ at \in [Cron -> {"off", "revoke", "grant"} \cup Working]
    /\ job \in [Cron -> [todo : SUBSET (Grant \X GrantRow), g : Grant \cup {None},
                         was : GrantRow, code : Code \cup {None},
                         seen : SUBSET (Grant \X Code)]]

Init ==
    /\ setting \in Setting
    /\ phase = [p \in Period |-> "far"]
    /\ resv \in [Reservation -> [state : {"created"}, period : Period]]
    /\ grants = [g \in Grant |-> NoGrant]
    /\ wait = {} /\ users = {} /\ remote = {} /\ hit = {}
    /\ at = [c \in Cron |-> "off"]
    /\ job = [c \in Cron |-> Idle]

-----------------------------------------------------------------------------
(* Requests: Reservation.set_state sends the signals of kulkunen *)

\* AccessControlGrantQuerySet.active, for one reservation
Active(r) == {g \in InState({REQUESTED, INSTALLING, INSTALLED, REMOVING}) : grants[g].resv = r}

\* (mutant) an installed grant is marked as removed, too
MutCancelTo(s) == IF s \in {REQUESTED, INSTALLED} THEN REMOVED ELSE s

\* AccessControlGrant.cancel does nothing in any other state
CancelTo(s) == CASE s = REQUESTED -> REMOVED
                 [] s = INSTALLED -> CANCELLED
                 [] OTHER -> s

\* More than one active grant fails an assertion and with it the request
GrantAccess(r, p) ==
    /\ Cardinality(Active(r)) <= 1
    /\ \/ /\ \E old \in Active(r) : grants[old].period = p
          /\ UNCHANGED <<grants, wait>>
       \/ /\ \A old \in Active(r) : grants[old].period # p
          /\ \E new \in setting.grants \ Exists :
              /\ \A g \in setting.grants \ Exists : new <= g
              /\ grants' = [g \in Grant |->
                    IF g = new
                    THEN [state |-> REQUESTED, resv |-> r, period |-> p, code |-> None]
                    ELSE IF g \in Active(r) THEN [grants[g] EXCEPT !.state = CancelTo(@)]
                    ELSE grants[g]]
          /\ wait' = wait \ (Active(r) \cap InState({INSTALLED}))

RevokeAccess(r) ==
    /\ Cardinality(Active(r)) <= 1
    /\ grants' = [g \in Grant |-> IF g \in Active(r)
                                  THEN [grants[g] EXCEPT !.state = CancelTo(@)] ELSE grants[g]]
    /\ wait' = wait \ (Active(r) \cap InState({INSTALLED}))

Confirm(r) ==
    /\ resv[r].state \in {"created", "denied"}
    /\ resv' = [resv EXCEPT ![r].state = "confirmed"]
    /\ GrantAccess(r, resv[r].period)
    /\ UNCHANGED <<setting, phase, users, remote, at, job, hit>>

Modify(r, p) ==
    /\ resv[r].state = "confirmed" /\ p # resv[r].period /\ phase[p] # "over"
    /\ resv' = [resv EXCEPT ![r].period = p]
    /\ GrantAccess(r, p)
    /\ UNCHANGED <<setting, phase, users, remote, at, job, hit>>

\* A denial sends no signal: the grant of a reservation confirmed before stays
Deny(r) ==
    /\ resv[r].state \in {"created", "confirmed"}
    /\ resv' = [resv EXCEPT ![r].state = "denied"]
    /\ UNCHANGED <<setting, phase, grants, wait, users, remote, at, job, hit>>

Cancel(r) ==
    /\ resv[r].state # "cancelled"
    /\ resv' = [resv EXCEPT ![r].state = "cancelled"]
    /\ RevokeAccess(r)
    /\ UNCHANGED <<setting, phase, users, remote, at, job, hit>>

-----------------------------------------------------------------------------
(* The job: sync_kulkunen *)

\* A queryset is read when the loop over it starts; its rows stay as they were then
Copies(S) == {<<g, grants[g]>> : g \in S}

\* (mutant) installed grants are left to their requests
MutRevokeList == InState({CANCELLED}) \ wait

RevokeList == {g \in InState({INSTALLED, CANCELLED}) \ wait :
                 grants[g].state = CANCELLED \/ Over(g)}

InstallList == {g \in InState({REQUESTED}) \ wait : phase[grants[g].period] # "far"}

Move(c, step) == at' = [at EXCEPT ![c] = step]
Put(g, state) == grants' = [grants EXCEPT ![g].state = state]

JobBegin(c) ==
    /\ at[c] = "off"
    /\ c \in setting.cron
    /\ Move(c, "revoke")
    /\ job' = [job EXCEPT ![c].todo = Copies(RevokeList)]
    /\ UNCHANGED <<setting, phase, resv, grants, wait, users, remote, hit>>

JobTurn(c) ==
    /\ at[c] = "revoke" /\ job[c].todo = {}
    /\ Move(c, "grant")
    /\ job' = [job EXCEPT ![c].todo = Copies(InstallList)]
    /\ UNCHANGED <<setting, phase, resv, grants, wait, users, remote, hit>>

JobEnd(c) ==
    /\ at[c] = "grant" /\ job[c].todo = {}
    /\ Move(c, "off")
    /\ UNCHANGED <<setting, phase, resv, grants, wait, users, remote, job, hit>>

\* The next grant of the list
Take(c, e) == job' = [job EXCEPT ![c].todo = @ \ {e}, ![c].g = e[1], ![c].was = e[2]]
Pass(c, e) == job' = [job EXCEPT ![c].todo = @ \ {e}]
Done(c) == job' = [job EXCEPT ![c] = [Idle EXCEPT !.todo = job[c].todo]]

\* (mutant) the row is not read again
MutStillAs(e) == TRUE

\* The row, locked and read again, is as the copy says
StillAs(e) == grants[e[1]].state = e[2].state

\* Another process has been here: leave the grant alone
Skip(c, e) ==
    /\ ~StillAs(e)
    /\ Pass(c, e)
    /\ UNCHANGED <<setting, phase, resv, grants, wait, users, remote, at, hit>>

RemoveBegin(c) ==
    /\ at[c] = "revoke"
    /\ \E e \in job[c].todo :
        \/ Skip(c, e)
        \/ /\ StillAs(e)
           /\ Put(e[1], REMOVING)
           /\ Take(c, e)
           /\ Move(c, IF setting.driver = "abloy" THEN "read" ELSE "withdraw")
           /\ UNCHANGED <<setting, phase, resv, wait, users, remote, hit>>

\* An exception in a driver: try again later
RetryLater(c, state, step) ==
    /\ Put(job[c].g, state)
    /\ wait' = wait \cup {job[c].g}
    /\ Done(c)
    /\ Move(c, step)

RemoveFails(c) ==
    /\ RetryLater(c, job[c].was.state, "revoke")
    /\ UNCHANGED <<setting, phase, resv, users>>

\* AbloyDriver.remove_grant reads the tokens of the person, to write them back without one
RemoveRead(c) ==
    /\ at[c] = "read"
    /\ job' = [job EXCEPT ![c].seen = remote]
    /\ Move(c, "withdraw")
    /\ UNCHANGED <<setting, phase, resv, grants, wait, users, remote, hit>>

RemoveReadFails(c) ==
    /\ at[c] = "read" /\ "refused" \in setting.faults
    /\ RemoveFails(c)
    /\ UNCHANGED <<remote, hit>>

\* (mutant) the tokens are not read before they are replaced
MutRemaining(c) ==
    IF setting.driver = "sipass" THEN remote \ {<<job[c].g, job[c].was.code>>} ELSE {}

\* What the remote system keeps: SiPass deletes a cardholder, Abloy replaces all tokens
Remaining(c) ==
    IF setting.driver = "sipass" THEN remote \ {<<job[c].g, job[c].was.code>>}
    ELSE {t \in job[c].seen : t[2] # job[c].was.code}

\* SiPass does not know a cardholder that is gone
Removable(c) == setting.driver = "abloy" \/ <<job[c].g, job[c].was.code>> \in remote

\* The owners of tokens that were added or withdrawn since Abloy's were read: this write
\* undoes that.  Removing a struck grant takes its code from whoever else has it, too.
Overwritten(c) ==
    IF setting.driver = "sipass" THEN {}
    ELSE {t[1] : t \in (remote \ job[c].seen) \cup (job[c].seen \ remote)}
         \cup {t[1] : t \in {t \in remote : job[c].g \in hit /\ t[2] = job[c].was.code}}

RemoveSend(c) ==
    /\ at[c] = "withdraw" /\ Removable(c)
    /\ remote' = Remaining(c)
    /\ hit' = hit \cup Overwritten(c)
    /\ Move(c, "removed")
    /\ UNCHANGED <<setting, phase, resv, grants, wait, users, job>>

RemoveSendFails(c) ==
    /\ at[c] = "withdraw"
    /\ \/ ~Removable(c) /\ UNCHANGED <<remote, hit>>
       \/ "refused" \in setting.faults /\ UNCHANGED <<remote, hit>>
       \/ /\ "lost" \in setting.faults /\ Removable(c)
          /\ remote' = Remaining(c)
          /\ hit' = hit \cup Overwritten(c) \cup {job[c].g}
    /\ RemoveFails(c)

RemoveSave(c) ==
    /\ at[c] = "removed"
    /\ users' = users \ {<<job[c].g, job[c].was.code>>}
    /\ Put(job[c].g, REMOVED)
    /\ Done(c)
    /\ Move(c, "revoke")
    /\ UNCHANGED <<setting, phase, resv, wait, remote, hit>>

\* install: a grant whose time is over is cancelled before the row is looked at again
InstallBegin(c) ==
    /\ at[c] = "grant"
    /\ \E e \in job[c].todo :
        \/ /\ Over(e[1])
           /\ Put(e[1], REMOVED)
           /\ Pass(c, e)
           /\ hit' = IF StillAs(e) THEN hit ELSE hit \cup {e[1]}
           /\ UNCHANGED <<setting, phase, resv, wait, users, remote, at>>
        \/ ~Over(e[1]) /\ Skip(c, e)
        \/ /\ ~Over(e[1]) /\ StillAs(e)
           /\ Put(e[1], INSTALLING)
           /\ Take(c, e)
           /\ Move(c, "user")
           /\ UNCHANGED <<setting, phase, resv, wait, users, remote, hit>>

InstallFails(c) ==
    /\ RetryLater(c, REQUESTED, "grant")
    /\ UNCHANGED <<setting, phase, resv>>

\* (mutant) only the codes of installed grants count as used
MutActiveCodes == {grants[g].code : g \in InState({INSTALLED})}

ActiveCodes == {u[2] : u \in users}

\* AbloyDriver uses the codes of removed grants again
FreeCodes == {k \in Code :
    /\ \E g \in InState({REMOVED}) : grants[g].code = k
    /\ \A g \in InState({INSTALLING, INSTALLED, CANCELLED, REMOVING}) : grants[g].code # k}

\* (mutant) the search for a code gives up silently
MutPins == IF Code \subseteq ActiveCodes THEN {None} ELSE Code \ ActiveCodes

Pins == (Code \ ActiveCodes) \cup IF setting.driver = "abloy" THEN FreeCodes ELSE {}

\* A code used before is free until its next grant is saved: another job may choose it, too
ChosenTwice(c, k) == k \in ActiveCodes
    /\ \E d \in Cron \ {c} : at[d] \in {"send", "save"} /\ job[d].code = k

\* create_access_user, under the lock of the system
CreateUser(c) ==
    /\ at[c] = "user"
    /\ \/ \E k \in Pins :
            /\ users' = users \cup {<<job[c].g, k>>}
            /\ job' = [job EXCEPT ![c].code = k]
            /\ hit' = IF ChosenTwice(c, k) THEN hit \cup {job[c].g} ELSE hit
            /\ Move(c, "send")
            /\ UNCHANGED <<setting, phase, resv, grants, wait, remote>>
       \/ /\ Pins = {}
          /\ InstallFails(c)
          /\ UNCHANGED <<users, remote, hit>>

InstallSend(c) ==
    /\ at[c] = "send"
    /\ remote' = remote \cup {<<job[c].g, job[c].code>>}
    /\ Move(c, "save")
    /\ UNCHANGED <<setting, phase, resv, grants, wait, users, job, hit>>

\* SiPassDriver deletes the user it has created, AbloyDriver does not
InstallSendFails(c) ==
    /\ at[c] = "send"
    /\ \/ "refused" \in setting.faults /\ UNCHANGED <<remote, hit>>
       \/ /\ "lost" \in setting.faults
          /\ remote' = remote \cup {<<job[c].g, job[c].code>>}
          /\ hit' = hit \cup {job[c].g}
    /\ users' = IF setting.driver = "sipass" THEN users \ {<<job[c].g, job[c].code>>} ELSE users
    /\ InstallFails(c)

InstallSave(c) ==
    /\ at[c] = "save"
    /\ grants' = [grants EXCEPT ![job[c].g].state = INSTALLED, ![job[c].g].code = job[c].code]
    /\ wait' = wait \ {job[c].g}
    /\ Move(c, "notify")
    /\ UNCHANGED <<setting, phase, resv, users, remote, job, hit>>

\* notify_access_code, send_notify_email
Notify(c) ==
    /\ at[c] = "notify"
    /\ Done(c)
    /\ Move(c, "grant")
    /\ UNCHANGED <<setting, phase, resv, grants, wait, users, remote, hit>>

NotifyFails(c) ==
    /\ at[c] = "notify" /\ "notify" \in setting.faults
    /\ InstallFails(c)
    /\ hit' = hit \cup {job[c].g}
    /\ UNCHANGED <<users, remote>>

\* A job that dies leaves its grant as it is, and nothing looks at it again.  (Between two
\* grants its death leaves no trace but a list that the next run reads anew.)
Crash(c) ==
    /\ "crash" \in setting.faults /\ at[c] \in Working
    /\ hit' = IF at[c] \in Alone THEN hit \cup {job[c].g} ELSE hit
    /\ job' = [job EXCEPT ![c] = Idle]
    /\ Move(c, "off")
    /\ UNCHANGED <<setting, phase, resv, grants, wait, users, remote>>

-----------------------------------------------------------------------------
(* Time *)

TimePasses(p) ==
    /\ phase[p] # "over"
    /\ phase' = [phase EXCEPT ![p] = IF @ = "far" THEN "near" ELSE "over"]
    /\ UNCHANGED <<setting, resv, grants, wait, users, remote, at, job, hit>>

Retry(g) ==
    /\ g \in wait
    /\ wait' = wait \ {g}
    /\ UNCHANGED <<setting, phase, resv, grants, users, remote, at, job, hit>>

-----------------------------------------------------------------------------
Request == \E r \in Reservation :
    Confirm(r) \/ Deny(r) \/ Cancel(r) \/ \E p \in Period : Modify(r, p)

Remove(c) == RemoveBegin(c) \/ RemoveRead(c) \/ RemoveReadFails(c) \/ RemoveSend(c)
             \/ RemoveSendFails(c) \/ RemoveSave(c)

Install(c) == InstallBegin(c) \/ CreateUser(c) \/ InstallSend(c) \/ InstallSendFails(c)
              \/ InstallSave(c) \/ Notify(c) \/ NotifyFails(c)

Job(c) == JobBegin(c) \/ JobTurn(c) \/ JobEnd(c) \/ Remove(c) \/ Install(c)

Clock == (\E p \in Period : TimePasses(p)) \/ \E g \in Grant : Retry(g)

Next == Request \/ Clock \/ \E c \in Cron : Job(c) \/ Crash(c)

Spec == Init /\ [][Next]_vars

\* Cron starts the job again and again, time passes, a call that is repeated goes through
FairSpec == Spec
    /\ WF_vars(\E p \in Period : TimePasses(p))
    /\ \A g \in Grant : WF_vars(Retry(g))
    /\ \A c \in Cron : WF_vars(Job(c)) /\ SF_vars(RemoveRead(c)) /\ SF_vars(RemoveSend(c))

-----------------------------------------------------------------------------
(* Properties *)

\* models.py: "After the state is set to 'installing', we have exclusive access."
\* While a job works on a grant, no other does, and the row says what the job is doing.
ExclusiveAccess == \A c \in Cron :
    LET g == job[c].g IN
    at[c] \in Alone /\ g \notin hit =>
       /\ \A d \in Cron \ {c} : job[d].g = g => at[d] = "notify"
       /\ grants[g].state = IF at[c] \in Installing THEN INSTALLING ELSE REMOVING

\* A code that opens the door during its reservation belongs to a grant that will be removed, but
\* for grants that have been struck (see hit).
NoForgottenCode == \A t \in remote :
    t[1] \in hit \/ grants[t[1]].state \notin {REQUESTED, REMOVED}

\* Two grants never have one code, unless one of them has been struck: by a job that died with it,
\* say, or by two jobs that chose a code used before at once.
NoSharedCode == \A s, t \in remote : s[2] = t[2] => s[1] = t[1] \/ {s[1], t[1]} \cap hit # {}

\* An installed grant has its code at the remote system, though Abloy's jobs remove another by
\* writing back what else the person had: only what changed since they read it may be lost.
InstalledOpens == \A g \in InState({INSTALLED}) \ hit : <<g, grants[g].code>> \in remote

\* The stage of a grant in GrantLife
Opens(g) == ~Over(g) /\ \E t \in remote : t[1] = g
Wanted(g) == ~Over(g) /\ ~Opens(g) /\ grants[g].state \in {REQUESTED, INSTALLING}

StageOf(g) ==
    IF g \in hit THEN "unknown"
    ELSE IF g \notin Exists THEN "none"
    ELSE IF Opens(g) THEN "open"
    ELSE IF Wanted(g) THEN "wanted"
    ELSE "closed"

Life == INSTANCE GrantLife WITH life <- [g \in Grant |-> StageOf(g)]

\* Every grant lives as GrantLife says.
GrantsLive == Life!Spec

\* Every grant is removed in the end, be it withdrawn, refused or past its time.
GrantsEnd == \A g \in Grant : (g \in Exists) ~> (g \in hit \/ g \in InState({REMOVED}))
=============================================================================
