-------------------------------- MODULE Boot ---------------------------------
(***************************************************************************)
(* From the start of a process to its end: main and retrainAll of          *)
(* src/cmd/bot/main.go over Open, Migrate and Seed of src/internal/db.     *)
(* Two processes on one database is what a deployment that overlaps the    *)
(* old instance and the new one gives.  A process that serves is what the  *)
(* other modules are about; of its work, this one has the loads of the     *)
(* preference model (module Model) and the user's rows that a start-up     *)
(* meets.                                                                  *)
(*                                                                         *)
(* Left out: the settings' defaults, which nobody reads, and the command   *)
(* menu, whose failure is a log line.                                      *)
(***************************************************************************)
EXTENDS Model, FiniteSets

CONSTANTS
    Migration,   \* the embedded migrations: the numbers of their files
    Url, NoUrl,  \* search URLs in normal form; one that Normalize refuses
    Label,
    Environment, \* Environment[p]: what SEED_CHAT_ID and SEED_URLS may be for p
    Own,         \* the searches the user may send, beside what was seeded
    NoOne,
    MaxBoots,    \* bound: starts
    MaxFaults    \* bound: failed statements, signals and deaths

\* A row of search_urls, or an entry of SEED_URLS.
Search == Url \X Label
Entry  == (Url \cup {NoUrl}) \X Label

ASSUME BootAssumption ==
    /\ Migration \subseteq Nat
    /\ NoUrl \notin Url
    /\ Environment \in [Process -> SUBSET [numeric : BOOLEAN, seeds : SUBSET Entry]]
    /\ Own \subseteq Search
    /\ NoOne \notin Process
    /\ MaxBoots \in Nat /\ MaxFaults \in Nat

VARIABLES
    env,        \* env[p]: what the environment tells p; its chat id is a number or not
    pc,         \* where each process is
    lock,       \* holder of the advisory lock
    applied,    \* schema_migrations
    found,      \* found[p]: the versions p read under the lock
    searches,   \* the user's rows of search_urls
    left,       \* left[p]: the entries p has not seeded yet
    marker,     \* the row bootstrap_seeded_at of settings
    boots,      \* history: starts
    faults,     \* history: failures
    removed,    \* history: URLs the user took away, and has not sent again
    late,       \* history: those taken away since the marker
    together    \* history: two processes were seeding at once

gone     == <<removed, late>>
bootVars == <<env, pc, lock, applied, found, searches, left, marker, boots, faults,
              gone, together>>

vars == <<modelVars, bootVars>>

Seeding   == {"user", "searches", "mark"}
Migrating == {"versions", "apply"}
Starting  == {"open", "lock"} \cup Migrating \cup {"marker"} \cup Seeding
                 \cup {"list", "retrain"}
Location  == {"down", "serving"} \cup Starting

\* The foreign key, UNIQUE (user_id, url_norm) and UNIQUE (user_id, label).
RowsOK ==
    /\ searches \subseteq Search
    /\ searches # {} => user
    /\ \A q, r \in searches : q[1] = r[1] \/ q[2] = r[2] => q = r

TypeOK ==
    /\ ModelTypeOK
    /\ \A p \in Process : env[p] \in Environment[p]
    /\ pc \in [Process -> Location]
    /\ lock \in Process \cup {NoOne}
    /\ applied \subseteq Migration
    /\ found \in [Process -> SUBSET Migration]
    /\ RowsOK
    /\ left \in [Process -> SUBSET Entry]
    /\ marker \in BOOLEAN
    /\ boots \in 0..MaxBoots
    /\ faults \in 0..MaxFaults
    /\ late \subseteq removed /\ removed \subseteq Url
    /\ together \in BOOLEAN
    /\ \A p \in Process :
          /\ pc[p] \in Migrating <=> lock = p
          /\ pc[p] = "apply" => found[p] \subseteq applied
          /\ left[p] # {} => pc[p] = "searches"
          /\ left[p] \subseteq env[p].seeds
          /\ Training(p) => pc[p] = "retrain"
          /\ at[p] = "rows" => pc[p] = "serving"

Init ==
    /\ ModelInit
    /\ env \in [Process -> UNION {Environment[p] : p \in Process}]
    /\ \A p \in Process : env[p] \in Environment[p]
    /\ pc = [p \in Process |-> "down"]
    /\ lock = NoOne
    /\ applied = {}
    /\ found = [p \in Process |-> {}]
    /\ searches = {}
    /\ left = [p \in Process |-> {}]
    /\ marker = FALSE
    /\ boots = 0
    /\ faults = 0
    /\ removed = {}
    /\ late = {}
    /\ together = FALSE

-----------------------------------------------------------------------------
Goes(p, to) == pc' = [pc EXCEPT ![p] = to]

Start(p) ==
    /\ pc[p] = "down"
    /\ boots < MaxBoots
    /\ boots' = boots + 1
    /\ Goes(p, "open")
    /\ UNCHANGED <<modelVars, env, lock, applied, found, searches, left, marker,
                   faults, gone, together>>

\* The database answered a ping, after however many attempts.
Open(p) ==
    /\ pc[p] = "open"
    /\ Goes(p, "lock")
    /\ UNCHANGED <<modelVars, env, lock, applied, found, searches, left, marker,
                   boots, faults, gone, together>>

(* Migrate.                                                                *)

\* Faulty: the lock is tried, and the answer not looked at.
LockTried == TRUE

\* pg_advisory_lock waits.
LockFree == lock = NoOne

Lock(p) ==
    /\ pc[p] = "lock"
    /\ LockFree
    /\ lock' = p
    /\ Goes(p, "versions")
    /\ UNCHANGED <<modelVars, env, applied, found, searches, left, marker, boots,
                   faults, gone, together>>

AppliedVersions(p) ==
    /\ pc[p] = "versions"
    /\ found' = [found EXCEPT ![p] = applied]
    /\ Goes(p, "apply")
    /\ UNCHANGED <<modelVars, env, lock, applied, searches, left, marker, boots,
                   faults, gone, together>>

Pending(p) == Migration \ found[p]

\* m is the next one in the order of the versions.
Due(p, m) == m \in Pending(p) /\ \A n \in Pending(p) : m <= n

\* The next migration and its version in one transaction.  A version that is
\* there already is a conflict of keys, which ends the process and with it the
\* session that holds the lock.
Apply(p) ==
    /\ pc[p] = "apply"
    /\ \E m \in Migration :
          /\ Due(p, m)
          /\ applied' = applied \cup {m}
          /\ IF m \in applied
             THEN /\ Goes(p, "down")
                  /\ found' = [found EXCEPT ![p] = {}]
                  /\ lock' = IF lock = p THEN NoOne ELSE lock
             ELSE /\ found' = [found EXCEPT ![p] = @ \cup {m}]
                  /\ UNCHANGED <<pc, lock>>
    /\ UNCHANGED <<modelVars, env, searches, left, marker, boots, faults, gone,
                   together>>

\* Faulty: the lock is left to the session, which goes back to the pool.
UnlockLater == UNCHANGED lock

\* The deferred unlock.
Unlock == lock' = NoOne

Migrated(p) ==
    /\ pc[p] = "apply"
    /\ Pending(p) = {}
    /\ Unlock
    /\ found' = [found EXCEPT ![p] = {}]
    /\ Goes(p, "marker")
    /\ UNCHANGED <<modelVars, env, applied, searches, left, marker, boots, faults,
                   gone, together>>

-----------------------------------------------------------------------------
(* Seed.                                                                   *)

\* Somebody is seeding already when p begins.
Joins(p, begins) ==
    together' = (together \/ (begins /\ \E q \in Process : pc[q] \in Seeding))

\* Faulty: done once, says the row of the user.
BootstrapByUser(p) ==
    /\ pc[p] = "marker"
    /\ LET begins == ~user /\ env[p].seeds # {}
       IN  Goes(p, IF begins THEN "user" ELSE "list") /\ Joins(p, begins)
    /\ UNCHANGED <<modelVars, env, lock, applied, found, searches, left, marker, boots,
                   faults, gone>>

\* Nothing to seed, or done once, says the marker.
BootstrapApplied(p) ==
    /\ pc[p] = "marker"
    /\ LET begins == ~marker /\ env[p].seeds # {}
       IN  Goes(p, IF begins THEN "user" ELSE "list") /\ Joins(p, begins)
    /\ UNCHANGED <<modelVars, env, lock, applied, found, searches, left, marker, boots,
                   faults, gone>>

SeedUser(p) ==
    /\ pc[p] = "user"
    /\ env[p].numeric
    /\ IF user THEN UNCHANGED modelVars ELSE Register
    /\ left' = [left EXCEPT ![p] = env[p].seeds]
    /\ Goes(p, "searches")
    /\ UNCHANGED <<env, lock, applied, found, searches, marker, boots, faults, gone,
                   together>>

Listed == {r[1] : r \in searches}

\* The label of entry s is on a row of another URL.
LabelTaken(s) == \E r \in searches : r[2] = s[2] /\ r[1] # s[1]

\* Faulty: the insert without its ON CONFLICT.
SeedableOnce(s) == s[1] \in Url /\ user /\ s[1] \notin Listed /\ ~LabelTaken(s)

\* The URL has a normal form, the foreign key finds the user, and the URL has a
\* row, which is left alone, or its label has none.
Seedable(s) == s[1] \in Url /\ user /\ (s[1] \in Listed \/ ~LabelTaken(s))

Inserted(s) == IF s[1] \in Listed THEN searches ELSE searches \cup {s}

\* One statement by entry.  The order is the environment's; here it is any.
SeedSearch(p) ==
    /\ pc[p] = "searches"
    /\ \E s \in left[p] :
          /\ Seedable(s)
          /\ searches' = Inserted(s)
          /\ left' = [left EXCEPT ![p] = @ \ {s}]
    /\ UNCHANGED <<modelVars, env, pc, lock, applied, found, marker, boots, faults, gone,
                   together>>

\* The chat id is not a number, or an entry cannot be seeded: the conflict of
\* labels is not one the statement looks after.  All of it is fatal, and what
\* was seeded before stays.
SeedRefused(p) ==
    /\ \/ pc[p] = "user" /\ ~env[p].numeric
       \/ pc[p] = "searches" /\ \E s \in left[p] : ~Seedable(s)
    /\ left' = [left EXCEPT ![p] = {}]
    /\ Goes(p, "down")
    /\ UNCHANGED <<modelVars, env, lock, applied, found, searches, marker, boots, faults,
                   gone, together>>

Seeded(p) ==
    /\ pc[p] = "searches"
    /\ left[p] = {}
    /\ Goes(p, "mark")
    /\ UNCHANGED <<modelVars, env, lock, applied, found, searches, left, marker,
                   boots, faults, gone, together>>

MarkBootstrapApplied(p) ==
    /\ pc[p] = "mark"
    /\ marker' = TRUE
    /\ Goes(p, "list")
    /\ UNCHANGED <<modelVars, env, lock, applied, found, searches, left, boots,
                   faults, gone, together>>

-----------------------------------------------------------------------------
(* retrainAll, and what follows it.                                        *)

ListActiveUsers(p) ==
    /\ pc[p] = "list"
    /\ IF user
       THEN TrainingSamples(p) /\ Goes(p, "retrain")
       ELSE UNCHANGED modelVars /\ Goes(p, "serving")
    /\ UNCHANGED <<env, lock, applied, found, searches, left, marker, boots, faults,
                   gone, together>>

RetrainUser(p) ==
    /\ pc[p] = "retrain"
    /\ ModelVersion(p) \/ ReplaceWeights(p)
    /\ UNCHANGED bootVars

\* One user's training that is over, or failed, does not hold the start up.
Trained(p) ==
    /\ pc[p] = "retrain"
    /\ at[p] = "idle"
    /\ Goes(p, "serving")
    /\ UNCHANGED <<modelVars, env, lock, applied, found, searches, left, marker,
                   boots, faults, gone, together>>

Serving == \E p \in Process : pc[p] = "serving"

\* A run of the delivery cycle, or /model.
LoadModel(p) ==
    /\ pc[p] = "serving"
    /\ Load(p)
    /\ UNCHANGED bootVars

\* SIGTERM: the loops are waited for, the pool is closed.
Shutdown(p) ==
    /\ pc[p] = "serving"
    /\ at[p] = "idle"
    /\ Goes(p, "down")
    /\ UNCHANGED <<modelVars, env, lock, applied, found, searches, left, marker,
                   boots, faults, gone, together>>

-----------------------------------------------------------------------------
(* Failures.                                                               *)

\* The process is gone, and its sessions with it.
Down(p) ==
    /\ Goes(p, "down")
    /\ lock' = IF lock = p THEN NoOne ELSE lock
    /\ found' = [found EXCEPT ![p] = {}]
    /\ left' = [left EXCEPT ![p] = {}]

\* What a statement that failed may have done all the same.
Lost(p) ==
    \/ /\ pc[p] = "apply"
       /\ \E m \in Migration : Due(p, m) /\ applied' = applied \cup {m}
       /\ UNCHANGED <<modelVars, searches, marker>>
    \/ /\ pc[p] = "user"
       /\ env[p].numeric
       /\ Register
       /\ UNCHANGED <<applied, searches, marker>>
    \/ /\ pc[p] = "searches"
       /\ \E s \in left[p] : Seedable(s) /\ searches' = Inserted(s)
       /\ UNCHANGED <<modelVars, applied, marker>>
    \/ /\ pc[p] = "mark"
       /\ marker' = TRUE
       /\ UNCHANGED <<modelVars, applied, searches>>

\* A statement of the start-up fails, which is fatal; a signal; a death.
Dies(p) ==
    /\ pc[p] # "down"
    /\ faults < MaxFaults
    /\ faults' = faults + 1
    /\ Down(p)
    /\ \/ /\ IF at[p] = "idle" THEN UNCHANGED modelVars ELSE StatementFails(p)
          /\ UNCHANGED <<applied, searches, marker>>
       \/ Lost(p)
    /\ UNCHANGED <<env, boots, gone, together>>

\* A training or a load that fails is a warning.
ModelFails(p) ==
    /\ faults < MaxFaults
    /\ faults' = faults + 1
    /\ StatementFails(p)
    /\ UNCHANGED <<env, pc, lock, applied, found, searches, left, marker, boots,
                   gone, together>>

-----------------------------------------------------------------------------
(* The user, through a process that serves.                                *)

\* AddSearchURLChecked: a URL that has a row gets the label, and a label that is
\* on another URL is refused (module Chat, which has the limit too).
AddSearch(r) ==
    /\ Serving
    /\ user
    /\ ~LabelTaken(r)
    /\ searches' = {q \in searches : q[1] # r[1]} \cup {r}
    /\ removed' = removed \ {r[1]}
    /\ late' = late \ {r[1]}
    /\ UNCHANGED <<modelVars, env, pc, lock, applied, found, left, marker, boots, faults,
                   together>>

\* The user takes the rows of these away.
Takes(R) ==
    /\ searches' = searches \ R
    /\ removed' = removed \cup {r[1] : r \in R}
    /\ late' = IF marker THEN late \cup {r[1] : r \in R} ELSE late

RemoveSearch(r) ==
    /\ Serving
    /\ r \in searches
    /\ Takes({r})
    /\ UNCHANGED <<modelVars, env, pc, lock, applied, found, left, marker, boots, faults,
                   together>>

EraseUser ==
    /\ Serving
    /\ Erase
    /\ Takes(searches)
    /\ UNCHANGED <<env, pc, lock, applied, found, left, marker, boots, faults, together>>

UserActs ==
    /\ Serving
    /\ Register \/ \E b \in Bucket : Rate(b)
    /\ UNCHANGED bootVars

-----------------------------------------------------------------------------
Boots(p) ==
    \/ Open(p) \/ Lock(p) \/ AppliedVersions(p) \/ Apply(p) \/ Migrated(p)
    \/ BootstrapApplied(p) \/ SeedUser(p) \/ SeedSearch(p) \/ SeedRefused(p)
    \/ Seeded(p) \/ MarkBootstrapApplied(p)
    \/ ListActiveUsers(p) \/ RetrainUser(p) \/ Trained(p)

Next ==
    \/ \E p \in Process :
          \/ Start(p) \/ Boots(p) \/ LoadModel(p) \/ Shutdown(p)
          \/ Dies(p) \/ ModelFails(p)
    \/ \E r \in Search : RemoveSearch(r)
    \/ \E r \in Own : AddSearch(r)
    \/ EraseUser \/ UserActs

Spec == Init /\ [][Next]_vars

\* A process that is starting goes on; PostgreSQL queues for the lock.
FairSpec == Spec /\ \A p \in Process : WF_vars(Boots(p))

-----------------------------------------------------------------------------
\* What may refuse the entries p has left to seed: a URL that has no normal form,
\* a row of another URL with the label (of this environment, of another, or sent
\* by the user), and the erasure of the user by another instance.
Refusable(p) ==
    \/ pc[p] = "user" /\ ~env[p].numeric
    \/ pc[p] = "searches" /\ (~user \/ \E s \in left[p] : s[1] = NoUrl \/ LabelTaken(s))

\* Whatever another instance migrates or seeds, and wherever an earlier start was
\* cut short, a start-up ends only by a fault or a seed its data refuses:
\* migrations never conflict, nor do rows seeded before (db.go:29-31,
\* migrate.go:18-19, seed.go:97-125).
FatalOnlyByFault ==
    [][\A p \in Process :
          pc[p] \in Starting /\ pc'[p] = "down" => faults' > faults \/ Refusable(p)]_vars

\* A start ends in service or in a failure: whoever waits for the migrations of
\* another instance gets the lock, and finds them applied.
BootEnds ==
    \A p \in Process : (pc[p] \in Starting) ~> (pc[p] \in {"serving", "down"})

\* URLs that have a row, or had one until the user took it away.
Handled == Listed \cup removed

\* Once marked, all entries of some environment were seeded, or were there under
\* a label of the user; and no URL the user has removed since is there again
\* unless the user sent it, or two instances seeded the database at once
\* (seed.go:40-43).
SeededOnce ==
    /\ marker =>
          \E p \in Process :
              env[p].seeds # {} /\ \A s \in env[p].seeds : s[1] \in Handled
    /\ ~together => Listed \cap late = {}
=============================================================================
