------------------------------ MODULE Validator ------------------------------
(***************************************************************************)
(* The deep check of the searches: Validator.RunOnce of                    *)
(* src/internal/validate/validator.go, which a ticker of                   *)
(* src/cmd/bot/main.go calls, over search_urls                             *)
(* (src/internal/repo/onboarding.go).  The poller inserts, renames and     *)
(* deletes the rows meanwhile (module Chat).                               *)
(*                                                                         *)
(* A pass reads the rows that are due, fetches one page after the other,   *)
(* and writes what it concludes by the id it read.  A blocked request and  *)
(* a failed connection are handled alike and are one outcome here.         *)
(***************************************************************************)
EXTENDS Naturals, FiniteSets

CONSTANTS
    Search,       \* ids of search_urls rows; a removed id is never used again
    MaxAttempts,  \* Validator.MaxAttempts
    BatchSize,    \* Validator.BatchSize
    MaxFaults     \* bound on restarts and on statements that fail

ASSUME ValidatorAssumption ==
    /\ IsFiniteSet(Search)
    /\ MaxAttempts \in Nat \ {0}
    /\ BatchSize \in Nat \ {0}
    /\ MaxFaults \in Nat

VARIABLES
    status,   \* status[s]: validation_status; "unused" and "gone" have no row
    attempts, \* attempts[s]
    next,     \* next[s]: next_check_at is "null", "later" or "due"
    batch,    \* rows of the pass not looked at yet
    seen,     \* seen[s]: attempts as the pass read them
    pc,       \* where RunOnce is
    cur,      \* the row at hand, as a set
    outcome,  \* what check concluded of it
    outages,  \* history: outages[s], outcomes that were an outage, up to the bound
    told,     \* history: told[s], verdicts the owner was sent
    faults

table == <<status, attempts, next>>
pass  == <<batch, seen, pc, cur, outcome>>
vars  == <<status, attempts, next, batch, seen, pc, cur, outcome, outages,
           told, faults>>

Status   == {"unused", "pending", "retrying", "valid", "valid_empty", "invalid", "gone"}
Location == {"idle", "loop", "write", "notify"}
Outcome  == {"none", "valid", "valid_empty", "retrying"}

TypeOK ==
    /\ status \in [Search -> Status]
    /\ attempts \in [Search -> 0..MaxAttempts]
    /\ next \in [Search -> {"null", "later", "due"}]
    /\ batch \subseteq Search
    /\ Cardinality(batch) <= BatchSize
    /\ seen \in [Search -> 0..MaxAttempts]
    /\ pc \in Location
    /\ cur \subseteq Search
    /\ outcome \in Outcome
    /\ outages \in [Search -> 0..MaxAttempts]
    /\ told \in [Search -> Nat]
    /\ faults \in 0..MaxFaults
    /\ pc \in {"idle", "loop"} => cur = {} /\ outcome = "none"
    /\ pc \notin {"idle", "loop"} => Cardinality(cur) = 1

Init ==
    /\ status = [s \in Search |-> "unused"]
    /\ attempts = [s \in Search |-> 0]
    /\ next = [s \in Search |-> "null"]
    /\ batch = {}
    /\ seen = [s \in Search |-> 0]
    /\ pc = "idle"
    /\ cur = {}
    /\ outcome = "none"
    /\ outages = [s \in Search |-> 0]
    /\ told = [s \in Search |-> 0]
    /\ faults = 0

HasRow(s) == status[s] \notin {"unused", "gone"}

-----------------------------------------------------------------------------
(* The user and the clock.                                                 *)

\* A new URL.  The upsert of AddSearchURLChecked gives a URL that is there a
\* label and changes nothing else, whatever its status, so it is left out.
Add(s) ==
    /\ status[s] = "unused"
    /\ status' = [status EXCEPT ![s] = "pending"]
    /\ UNCHANGED <<attempts, next, pass, outages, told, faults>>

Remove(s) ==
    /\ HasRow(s)
    /\ status' = [status EXCEPT ![s] = "gone"]
    /\ attempts' = [attempts EXCEPT ![s] = 0]
    /\ next' = [next EXCEPT ![s] = "null"]
    /\ outages' = [outages EXCEPT ![s] = 0]
    /\ UNCHANGED <<pass, told, faults>>

\* The backoff of a row is over.
Due(s) ==
    /\ next[s] = "later"
    /\ next' = [next EXCEPT ![s] = "due"]
    /\ UNCHANGED <<status, attempts, pass, outages, told, faults>>

-----------------------------------------------------------------------------
(* RunOnce.                                                                *)

\* Faulty: rows with a verdict are due as well.
OverdueOfAny == {s \in Search : HasRow(s) /\ next[s] # "later"}

\* The WHERE clause of PendingValidations.
Overdue == {s \in Search : status[s] \in {"pending", "retrying"} /\ next[s] # "later"}

\* With its ORDER BY and LIMIT: rows never checked come first.
PendingValidations ==
    {B \in SUBSET Overdue :
        /\ Cardinality(B) = BatchSize \/ (Cardinality(B) < BatchSize /\ B = Overdue)
        /\ \A s \in B, t \in Overdue \ B : ~(next[t] = "null" /\ next[s] = "due")}

BeginPass ==
    /\ pc = "idle"
    /\ Overdue # {}
    /\ batch' \in PendingValidations
    /\ seen' = [s \in Search |-> IF s \in batch' THEN attempts[s] ELSE 0]
    /\ pc' = "loop"
    /\ UNCHANGED <<table, cur, outcome, outages, told, faults>>

\* Rows are looked at in the order of the query.
IsNext(s) ==
    /\ s \in batch
    /\ next[s] = "null" \/ \A t \in batch : next[t] # "null"

\* On to the next row; what was read of this one is of no further use.
Continue ==
    /\ pc' = "loop"
    /\ cur' = {}
    /\ outcome' = "none"
    /\ seen' = [s \in Search |-> IF s \in cur THEN 0 ELSE seen[s]]

\* The page of the row was fetched and said something about the search, or
\* there was none to be had.  Nothing else sees the fetch begin, so that it is
\* one step with its outcome.
Check(s, o) ==
    /\ pc = "loop"
    /\ IsNext(s)
    /\ batch' = batch \ {s}
    /\ cur' = {s}
    /\ outcome' = o
    /\ pc' = "write"
    /\ outages' = IF o = "retrying" /\ HasRow(s) /\ outages[s] < MaxAttempts
                  THEN [outages EXCEPT ![s] = @ + 1] ELSE outages
    /\ UNCHANGED <<table, seen, told, faults>>

\* The page did not parse: a warning, and nothing is written.
CheckFails(s) ==
    /\ pc = "loop"
    /\ IsNext(s)
    /\ batch' = batch \ {s}
    /\ seen' = [seen EXCEPT ![s] = 0]
    /\ UNCHANGED <<table, pc, cur, outcome, outages, told, faults>>

\* Faulty: the last attempt is one too early.
LastButOne(s) == seen[s] + 2 >= MaxAttempts

\* Faulty: it is one too late.
LastOverdue(s) == seen[s] + 1 > MaxAttempts

\* This was the last attempt.
Last(s) == seen[s] + 1 >= MaxAttempts

\* What is written: a page decides, an outage does so after the last attempt.
Verdict(s) ==
    IF outcome = "retrying" /\ Last(s) THEN "invalid" ELSE outcome

\* Faulty: a check that was blocked does not count.
NotCounted(s) == IF outcome = "retrying" THEN attempts[s] ELSE attempts[s] + 1

\* MarkSearchURLValid sets the attempts back.
Counted(s) == IF outcome = "valid" THEN 0 ELSE attempts[s] + 1

\* MarkSearchURLValid and SetSearchURLValidation of the row that was read, if
\* it is still there.
Write(s) ==
    /\ pc = "write"
    /\ s \in cur
    /\ IF HasRow(s)
       THEN /\ status' = [status EXCEPT ![s] = Verdict(s)]
            /\ attempts' = [attempts EXCEPT ![s] = Counted(s)]
            /\ next' = [next EXCEPT ![s] =
                    IF Verdict(s) = "retrying" THEN "later" ELSE "null"]
       ELSE UNCHANGED table
    /\ IF Verdict(s) = "retrying"
       THEN Continue
       ELSE pc' = "notify" /\ UNCHANGED <<cur, outcome, seen>>
    /\ UNCHANGED <<batch, outages, told, faults>>

\* RunOnce returns, and its variables are gone.
Stops ==
    /\ pc' = "idle"
    /\ batch' = {}
    /\ cur' = {}
    /\ outcome' = "none"
    /\ seen' = [s \in Search |-> 0]

\* The statement failed: the pass returns.
WriteFails ==
    /\ pc = "write"
    /\ faults < MaxFaults
    /\ faults' = faults + 1
    /\ Stops
    /\ UNCHANGED <<table, outages, told>>

\* SearchURLOwner finds nobody when the row is gone; a failed send is a warning.
Notify(s) ==
    /\ pc = "notify"
    /\ s \in cur
    /\ \/ HasRow(s) /\ told' = [told EXCEPT ![s] = told[s] + 1]
       \/ UNCHANGED told
    /\ Continue
    /\ UNCHANGED <<table, batch, outages, faults>>

EndPass ==
    /\ pc = "loop"
    /\ batch = {}
    /\ Stops
    /\ UNCHANGED <<table, outages, told, faults>>

\* The process ends, or the context is done before the next row.
Restart ==
    /\ pc # "idle"
    /\ faults < MaxFaults
    /\ faults' = faults + 1
    /\ Stops
    /\ UNCHANGED <<table, outages, told>>

-----------------------------------------------------------------------------
RunOnce ==
    \/ BeginPass
    \/ \E s \in Search : \/ \E o \in Outcome \ {"none"} : Check(s, o)
                         \/ CheckFails(s)
                         \/ Write(s)
                         \/ Notify(s)
    \/ EndPass

Next ==
    \/ \E s \in Search : Add(s) \/ Remove(s) \/ Due(s)
    \/ RunOnce
    \/ WriteFails
    \/ Restart

Spec == Init /\ [][Next]_vars

\* The ticker calls again, a fetch returns, and time passes.
FairSpec == Spec /\ WF_vars(RunOnce) /\ \A s \in Search : WF_vars(Due(s))

-----------------------------------------------------------------------------
\* A search is given up only after MaxAttempts outages of its own, whatever
\* passes were cut short (validator.go:36-37).
InvalidOnlyAfterAttempts ==
    \A s \in Search : status[s] = "invalid" => outages[s] = MaxAttempts

\* The owner is sent one verdict on a search at most, although a pass may be
\* cut short between its write and its message (validator.go:91-114).
OneVerdict == \A s \in Search : told[s] <= 1

\* No search stays pending forever (validator.go:6-9), even though a page that
\* does not parse is checked again first in every pass: as long as fewer rows
\* than fit a batch stay unparsed, every other one is decided.
Decided ==
    \A B \in SUBSET Search :
        Cardinality(B) < BatchSize /\ <>[][\A s \in Search : CheckFails(s) => s \in B]_vars =>
            \A s \in Search \ B :
                (status[s] = "pending") ~> (status[s] \notin {"pending", "retrying"})
=============================================================================
