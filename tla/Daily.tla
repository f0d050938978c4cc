-------------------------------- MODULE Daily --------------------------------
(***************************************************************************)
(* The daily job: Runner.RunDaily of src/internal/digest/digest.go over    *)
(* the digests table (src/internal/repo/digests.go), fired once a day by   *)
(* src/internal/scheduler/scheduler.go and at boot with RUN_ON_START.      *)
(*                                                                         *)
(* A run of one user (module Digest) is seen here as its outcome.  The     *)
(* users stop, resume and delete themselves, and the operator enables and  *)
(* disables them, at any time.  Days are numbered; those after LastDay are *)
(* not told apart from it.                                                 *)
(***************************************************************************)
EXTENDS Naturals, FiniteSets

CONSTANTS
    User,
    LastDay      \* bound on the days of one behavior

ASSUME DailyAssumption ==
    /\ IsFiniteSet(User)
    /\ LastDay \in Nat \ {0}

Day == 1..LastDay

VARIABLES
    state,     \* users.state, as far as delivery looks at it; "none": no row
    active,    \* users.active
    digests,   \* digests[u][d]: status of the row, "none" without one
    today,
    phase,     \* where RunDaily is
    date,      \* its argument
    toEnsure,  \* users it listed and has not recorded yet
    todo,      \* what PendingDigests returned and is not done yet
    run,       \* the run under way, <<u, d>>
    clean      \* history: no step of this cycle has failed

users == <<state, active>>
cycle == <<phase, date, toEnsure, todo, run>>
dailyVars == <<users, digests, today, cycle, clean>>

Row == {"none", "pending", "running", "done", "error"}
NoRun == <<>>

DailyTypeOK ==
    /\ state \in [User -> {"none", "ready", "stopped"}]
    /\ active \in [User -> BOOLEAN]
    /\ digests \in [User -> [Day -> Row]]
    /\ today \in Day /\ date \in Day
    /\ phase \in {"off", "ensure", "next", "run"}
    /\ toEnsure \subseteq User
    /\ todo \subseteq User \X Day
    /\ run \in (User \X Day) \cup {NoRun}
    /\ clean \in BOOLEAN
    /\ phase = "run" <=> run # NoRun
    /\ \A u \in User : state[u] = "none" => \A d \in Day : digests[u][d] = "none"

DailyInit ==
    /\ state = [u \in User |-> "none"]
    /\ active = [u \in User |-> TRUE]
    /\ digests = [u \in User |-> [d \in Day |-> "none"]]
    /\ today = 1
    /\ phase = "off"
    /\ date = 1
    /\ toEnsure = {}
    /\ todo = {}
    /\ run = NoRun
    /\ clean = TRUE

-----------------------------------------------------------------------------
(* The users, the operator and the calendar.                               *)

Onboard(u) ==
    /\ state[u] = "none"
    /\ state' = [state EXCEPT ![u] = "ready"]
    /\ active' = [active EXCEPT ![u] = TRUE]
    /\ UNCHANGED <<digests, today, cycle, clean>>

\* SetUserStopped: /stop, and /start of a stopped user.
SetStopped(u) ==
    /\ state[u] # "none"
    /\ state' = [state EXCEPT ![u] = IF state[u] = "ready" THEN "stopped" ELSE "ready"]
    /\ UNCHANGED <<active, digests, today, cycle, clean>>

\* The operator's UPDATE.
SetActive(u) ==
    /\ state[u] # "none"
    /\ active' = [active EXCEPT ![u] = ~active[u]]
    /\ UNCHANGED <<state, digests, today, cycle, clean>>

\* Faulty: the rows do not refer to the user.
DeleteUserOnly(u) ==
    /\ state[u] # "none"
    /\ state' = [state EXCEPT ![u] = "none"]
    /\ UNCHANGED <<active, digests, today, cycle, clean>>

\* The user's digests rows go with the users row.
DeleteUser(u) ==
    /\ state[u] # "none"
    /\ state' = [state EXCEPT ![u] = "none"]
    /\ digests' = [digests EXCEPT ![u] = [d \in Day |-> "none"]]
    /\ UNCHANGED <<active, today, cycle, clean>>

NextDay ==
    /\ today < LastDay
    /\ today' = today + 1
    /\ UNCHANGED <<users, digests, cycle, clean>>

-----------------------------------------------------------------------------
(* RunDaily.                                                               *)

ListActiveUsers == {u \in User : state[u] = "ready" /\ active[u]}

\* The scheduler's timer or the boot fires the job; never two at once.
Fire ==
    /\ phase = "off"
    /\ phase' = "ensure"
    /\ date' = today
    /\ toEnsure' = ListActiveUsers
    /\ clean' = TRUE
    /\ UNCHANGED <<users, digests, today, todo, run>>

EnsureDigest(u) ==
    /\ phase = "ensure"
    /\ u \in toEnsure
    /\ state[u] # "none"
    /\ digests' = [digests EXCEPT ![u][date] =
                    IF digests[u][date] = "none" THEN "pending" ELSE digests[u][date]]
    /\ toEnsure' = toEnsure \ {u}
    /\ UNCHANGED <<users, today, phase, date, todo, run, clean>>

\* The insert fails, or its foreign key finds no user: a warning.
EnsureFails(u) ==
    /\ phase = "ensure"
    /\ u \in toEnsure
    /\ toEnsure' = toEnsure \ {u}
    /\ clean' = FALSE
    /\ UNCHANGED <<users, digests, today, phase, date, todo, run>>

\* Faulty: only what was not begun or failed is pending.
ForgetsRunning == {r \in User \X (1..date) : digests[r[1]][r[2]] \in {"pending", "error"}}

\* Faulty: a day before is not looked at again.
OnlyToday == {r \in User \X {date} : digests[r[1]][r[2]] \notin {"none", "done"}}

\* PendingDigests: unfinished rows on or before the date.
PendingDigests == {r \in User \X (1..date) : digests[r[1]][r[2]] \notin {"none", "done"}}

ReadPending ==
    /\ phase = "ensure"
    /\ toEnsure = {}
    /\ todo' = PendingDigests
    /\ phase' = "next"
    /\ UNCHANGED <<users, digests, today, date, toEnsure, run, clean>>

\* Oldest first.
IsOldest(u, d) == <<u, d>> \in todo /\ \A r \in todo : d <= r[2]

\* StartDigest.  The row may be gone by now; the update then changes nothing
\* and RunForUser finds no search.
StartDigest(u, d) ==
    /\ phase = "next"
    /\ IsOldest(u, d)
    /\ digests' = [digests EXCEPT ![u][d] =
                    IF digests[u][d] = "none" THEN "none" ELSE "running"]
    /\ todo' = todo \ {<<u, d>>}
    /\ run' = <<u, d>>
    /\ phase' = "run"
    /\ UNCHANGED <<users, today, date, toEnsure, clean>>

\* The statement fails: a warning, and the next run.
StartFails(u, d) ==
    /\ phase = "next"
    /\ IsOldest(u, d)
    /\ todo' = todo \ {<<u, d>>}
    /\ clean' = FALSE
    /\ UNCHANGED <<users, digests, today, phase, date, toEnsure, run>>

\* FinishDigest, an update that a row that is gone ignores.
FinishDigest(result) ==
    /\ digests' = [digests EXCEPT ![run[1]][run[2]] =
                    IF digests[run[1]][run[2]] = "none" THEN "none" ELSE result]
    /\ phase' = "next"
    /\ run' = NoRun
    /\ UNCHANGED <<users, today, date, toEnsure, todo>>

\* RunForUser returned without an error.
RunSucceeds == phase = "run" /\ FinishDigest("done") /\ UNCHANGED clean

\* It returned an error.
RunErrors == phase = "run" /\ FinishDigest("error") /\ clean' = FALSE

\* FinishDigest itself fails: a warning; the row stays as it is.
FinishFails ==
    /\ phase = "run"
    /\ phase' = "next"
    /\ run' = NoRun
    /\ clean' = FALSE
    /\ UNCHANGED <<users, digests, today, date, toEnsure, todo>>

Over ==
    /\ phase' = "off"
    /\ toEnsure' = {}
    /\ todo' = {}
    /\ run' = NoRun
    /\ UNCHANGED <<users, digests, today, date>>

CycleDone == phase = "next" /\ todo = {} /\ Over /\ UNCHANGED clean

\* The process stops or dies, or a list cannot be read: RunDaily is over.
Interrupted == phase # "off" /\ Over /\ clean' = FALSE

-----------------------------------------------------------------------------
RunDaily ==
    \/ \E u \in User : EnsureDigest(u) \/ EnsureFails(u)
    \/ ReadPending
    \/ \E u \in User, d \in Day : StartDigest(u, d) \/ StartFails(u, d)
    \/ RunSucceeds
    \/ RunErrors
    \/ FinishFails
    \/ CycleDone

DailyNext ==
    \/ \E u \in User : Onboard(u) \/ SetStopped(u) \/ SetActive(u) \/ DeleteUser(u)
    \/ NextDay
    \/ Fire
    \/ RunDaily
    \/ Interrupted

DailySpec == DailyInit /\ [][DailyNext]_dailyVars

\* The scheduler comes back every day, and RunDaily goes on.
DailyFairSpec == DailySpec /\ WF_dailyVars(Fire) /\ WF_dailyVars(RunDaily)

-----------------------------------------------------------------------------
Unfinished(u, d) == digests[u][d] \notin {"none", "done"}

\* A cycle in which nothing failed leaves no run of its day or an earlier one
\* unfinished, whatever was interrupted before (digest.go:307-313,
\* digests.go:43-44).
NothingLeftBehind ==
    [][(phase # "off" /\ phase' = "off" /\ clean')
          => \A u \in User, d \in 1..date : ~Unfinished(u, d)']_dailyVars

\* Once nothing fails any more, a run that was recorded is done in the end, or
\* its user is gone.
DayResumed ==
    (<>[][~(Interrupted \/ RunErrors \/ FinishFails
             \/ \E u \in User, d \in Day : StartFails(u, d))]_dailyVars)
        => \A u \in User, d \in Day : Unfinished(u, d) ~> ~Unfinished(u, d)
=============================================================================
