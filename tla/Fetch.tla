-------------------------------- MODULE Fetch --------------------------------
(***************************************************************************)
(* The paced fetcher: Gate of src/internal/fetch/gate.go and               *)
(* Client.FetchWith of src/internal/fetch/fetch.go, for requests to the    *)
(* portal (images of the CDN are not paced and are left out).              *)
(*                                                                         *)
(* Times are relative to now, in ticks: Tick takes one unit off everything *)
(* that lies ahead.  A sleeper may wake later than it asked to.  The       *)
(* backoff between attempts is 2 to 60 seconds, less than a tick of the    *)
(* default spacing, so it takes no tick and any number of them may pass.   *)
(***************************************************************************)
EXTENDS Integers, FiniteSets

CONSTANTS
    Client,      \* goroutines that fetch from the portal
    Urgent,      \* those that pass Options.Priority
    Attempts,    \* Attempts[p]: TLS attempts of one fetch, 1 with NoRetries
    MinGap,      \* Gate.minGap
    Hold,        \* Gate.cooldown
    MaxCancels   \* bound on contexts that end early in one behavior

ASSUME FetchAssumption ==
    /\ IsFiniteSet(Client)
    /\ Urgent \subseteq Client
    /\ Attempts \in [Client -> Nat \ {0}]
    /\ MinGap \in Nat \ {0}
    /\ Hold \in Nat
    /\ MaxCancels \in Nat

VARIABLES
    flare,       \* a FlareSolverr is configured; chosen once
    pc,          \* where each goroutine is in FetchWith
    slots,       \* len(Gate.sem)
    next,        \* Gate.next, ahead of now; 0 when it is not in the future
    wait,        \* wait[p]: how long p still sleeps in Acquire
    attempt,     \* attempt[p]: TLS attempts p has started in this fetch
    cancels,     \* contexts ended so far
    last,        \* history: the latest start handed out to anyone
    quiet,       \* history: what is left of the hold-off of the last challenge
    hurried      \* history: a priority request was handed a start while an
                 \* earlier start or a hold-off lay ahead of it; until both
                 \* are past

gate == <<slots, next>>
past == <<last, quiet, hurried>>
vars == <<flare, pc, slots, next, wait, attempt, cancels, last, quiet, hurried>>

\* New: one browser at a time when FlareSolverr is in play.
Concurrency == IF flare THEN 1 ELSE 2

\* "slot": blocked on the semaphore.  "pace": asleep until its start.  "flare"
\* and "tls": a request is out.  "backoff": asleep before another attempt.
Location == {"idle", "slot", "pace", "flare", "tls", "backoff"}
Holding  == {"pace", "flare", "tls", "backoff"}

TypeOK ==
    /\ flare \in BOOLEAN
    /\ pc \in [Client -> Location]
    /\ slots \in Int
    /\ next \in Nat
    /\ wait \in [Client -> Nat]
    /\ attempt \in [Client -> Nat]
    /\ cancels \in Nat
    /\ last \in Int /\ quiet \in Nat /\ hurried \in BOOLEAN
    /\ \A p \in Client : attempt[p] <= Attempts[p]

Init ==
    /\ flare \in BOOLEAN
    /\ pc = [p \in Client |-> "idle"]
    /\ slots = 0
    /\ next = 0
    /\ wait = [p \in Client |-> 0]
    /\ attempt = [p \in Client |-> 0]
    /\ cancels = 0
    /\ last = -MinGap
    /\ quiet = 0
    /\ hurried = FALSE

-----------------------------------------------------------------------------
Call(p) ==
    /\ pc[p] = "idle"
    /\ pc' = [pc EXCEPT ![p] = "slot"]
    /\ attempt' = [attempt EXCEPT ![p] = 0]
    /\ UNCHANGED <<flare, gate, wait, cancels, past>>

\* Faulty: the next start is counted from now, not from the start handed out.
ReserveFromNow(p, start) ==
    /\ wait' = [wait EXCEPT ![p] = start]
    /\ next' = MinGap
    /\ last' = IF start > last THEN start ELSE last

\* The critical section of Acquire hands out the start of p.
Reserve(p, start) ==
    /\ wait' = [wait EXCEPT ![p] = start]
    /\ next' = start + MinGap
    /\ last' = IF start > last THEN start ELSE last

\* Acquire got a slot and a start: Gate.next, or now for a priority request.
Acquire(p) ==
    /\ pc[p] = "slot"
    /\ slots < Concurrency
    /\ slots' = slots + 1
    /\ Reserve(p, IF p \in Urgent THEN 0 ELSE next)
    /\ pc' = [pc EXCEPT ![p] = "pace"]
    /\ hurried' = (hurried \/ (p \in Urgent /\ (last > 0 \/ quiet > 0)))
    /\ UNCHANGED <<flare, attempt, cancels, quiet>>

\* A request goes out; FlareSolverr is asked first, and once.
Request(p, to) ==
    /\ pc' = [pc EXCEPT ![p] = to]
    /\ attempt' = [attempt EXCEPT ![p] = attempt[p] + IF to = "tls" THEN 1 ELSE 0]
    /\ UNCHANGED <<flare, gate, wait, cancels, past>>

Start(p) ==
    /\ pc[p] = "pace"
    /\ wait[p] = 0
    /\ Request(p, IF flare THEN "flare" ELSE "tls")

\* FlareSolverr failed without a challenge: on to the TLS client at once.
FallBack(p) ==
    /\ pc[p] = "flare"
    /\ Request(p, "tls")

\* Faulty: one attempt too many.
BackOffOnceMore(p) ==
    /\ pc[p] = "tls"
    /\ attempt[p] <= Attempts[p]
    /\ pc' = [pc EXCEPT ![p] = "backoff"]
    /\ UNCHANGED <<flare, gate, wait, attempt, cancels, past>>

\* A TLS attempt failed without a challenge, and it was not the last one.
BackOff(p) ==
    /\ pc[p] = "tls"
    /\ attempt[p] < Attempts[p]
    /\ pc' = [pc EXCEPT ![p] = "backoff"]
    /\ UNCHANGED <<flare, gate, wait, attempt, cancels, past>>

Retry(p) ==
    /\ pc[p] = "backoff"
    /\ Request(p, "tls")

\* FetchWith returns; the slot it holds is released.
Release(p) ==
    /\ pc' = [pc EXCEPT ![p] = "idle"]
    /\ slots' = slots - (IF pc[p] \in Holding THEN 1 ELSE 0)
    /\ wait' = [wait EXCEPT ![p] = 0]

\* The page arrived, or the last attempt failed.
Done(p) ==
    /\ pc[p] \in {"flare", "tls"}
    /\ Release(p)
    /\ UNCHANGED <<flare, next, attempt, cancels, past>>

\* Gate.Cooldown pushes the next start back, never forward.
Cooldown == next' = IF Hold > next THEN Hold ELSE next

\* The answer is a challenge: no retry, and the gate holds off.
Blocked(p) ==
    /\ pc[p] \in {"flare", "tls"}
    /\ Cooldown
    /\ quiet' = IF Hold > quiet THEN Hold ELSE quiet
    /\ Release(p)
    /\ UNCHANGED <<flare, attempt, cancels, last, hurried>>

\* Faulty: the wait for the start ends without giving the slot back.
CancelledLeak(p) ==
    /\ cancels < MaxCancels
    /\ pc[p] # "idle"
    /\ cancels' = cancels + 1
    /\ pc' = [pc EXCEPT ![p] = "idle"]
    /\ slots' = slots - IF pc[p] \in Holding \ {"pace"} THEN 1 ELSE 0
    /\ wait' = [wait EXCEPT ![p] = 0]
    /\ UNCHANGED <<flare, next, attempt, past>>

\* The caller's context is done, wherever it waits.  The start it was handed
\* is not given back.
Cancelled(p) ==
    /\ cancels < MaxCancels
    /\ pc[p] # "idle"
    /\ cancels' = cancels + 1
    /\ Release(p)
    /\ UNCHANGED <<flare, next, attempt, past>>

Sooner(t) == IF t > 0 THEN t - 1 ELSE 0

Tick ==
    /\ next' = Sooner(next)
    /\ wait' = [p \in Client |-> Sooner(wait[p])]
    /\ last' = IF last > -MinGap THEN last - 1 ELSE last
    /\ quiet' = Sooner(quiet)
    /\ hurried' = (hurried /\ (last > 1 - MinGap \/ quiet > 1))
    /\ UNCHANGED <<flare, pc, slots, attempt, cancels>>

-----------------------------------------------------------------------------
FetchWith(p) ==
    \/ Acquire(p)
    \/ Start(p)
    \/ FallBack(p)
    \/ BackOff(p)
    \/ Retry(p)
    \/ Done(p)
    \/ Blocked(p)

Next ==
    \/ \E p \in Client : Call(p) \/ FetchWith(p) \/ Cancelled(p)
    \/ Tick

Spec == Init /\ [][Next]_vars

\* Waiters of a channel are served in turn, time passes, requests time out.
Fairness ==
    /\ WF_vars(Tick)
    /\ \A p \in Client : SF_vars(Acquire(p)) /\ WF_vars(FetchWith(p))

FairSpec == Spec /\ Fairness

-----------------------------------------------------------------------------
Holders == {p \in Client : pc[p] \in Holding}

\* The slots in use are exactly those of the fetches under way, on every path
\* out of FetchWith, and so there are never two browsers at once
\* (fetch.go:123-128, gate.go:28-29).
SlotsInUse == slots = Cardinality(Holders) /\ slots <= Concurrency

HandedOut(p) == pc[p] = "slot" /\ pc'[p] = "pace"

\* The start a bulk request is handed is spaced from every start handed out
\* before, used or cancelled (gate.go:10-16), and lies beyond the hold-off of
\* the last challenge (gate.go:77-79), unless a priority request came in
\* between.
StartsSpaced ==
    [][\A p \in Client \ Urgent :
        HandedOut(p) => hurried \/ (wait'[p] >= last + MinGap /\ wait'[p] >= quiet)]_vars

\* Every fetch comes to an end: slots lost on no path, no start out of reach.
FetchEnds == \A p \in Client : (pc[p] # "idle") ~> (pc[p] = "idle")
=============================================================================
