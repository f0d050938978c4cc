------------------------------- MODULE Poller -------------------------------
(***************************************************************************)
(* The polling loop of src/internal/chat/bot.go (Poller.Run) over the      *)
(* bot_state row of src/internal/repo/ratings.go: the poll lease, the      *)
(* durable offset, the retries and the dead letter.  What a handler does   *)
(* is left out; it may fail at any time, and then it may have done half of *)
(* its work.                                                               *)
(*                                                                         *)
(* An Instance is one process of the bot with its own holder name.  A      *)
(* process that crashed starts again under the same name.  Telegram keeps  *)
(* an update until a getUpdates call asks for a later one.                 *)
(***************************************************************************)
EXTENDS Naturals, FiniteSets

CONSTANTS
    Instance,     \* processes that poll with the same token
    LastUpdate,   \* how many updates the users send
    MaxAttempts,  \* maxAttemptsPerUpdate
    Lease,        \* DeliveryLeaseDuration, in ticks
    MaxFaults,    \* bound on crashes and on failed writes of the offset
    NoOne

ASSUME PollerAssumption ==
    /\ LastUpdate \in Nat
    /\ MaxAttempts \in Nat \ {0}
    /\ Lease \in Nat \ {0}
    /\ MaxFaults \in Nat
    /\ NoOne \notin Instance

Update == 1..LastUpdate

VARIABLES
    arrived,    \* updates sent so far: 1..arrived
    forgotten,  \* Telegram has dropped 1..forgotten
    stored,     \* bot_state.last_update_id
    holder,     \* bot_state.poll_lease_holder
    lease,      \* time left until poll_lease_expires_at
    pc,         \* where each instance is
    offset,     \* its offset variable
    batch,      \* what is left of the updates it got
    failing,    \* its failingID, 0 for none
    failures,   \* its failures
    handled,    \* history: how often a handler of the update succeeded
    failed,     \* history: how often one failed, up to MaxAttempts
    dead,       \* history: updates given up
    lapsed,     \* history: instances whose lease ran out while they polled
    overlap,    \* history: one took the lease while another polled
    faults

server  == <<arrived, forgotten>>
row     == <<stored, holder, lease>>
local   == <<pc, offset, batch, failing, failures>>
history == <<handled, failed, dead, lapsed, overlap, faults>>
vars    == <<arrived, forgotten, stored, holder, lease, pc, offset, batch,
             failing, failures, handled, failed, dead, lapsed, overlap, faults>>

Location == {"down", "refused", "start", "poll", "handle", "advance"}
Polling  == {"start", "poll", "handle", "advance"}

TypeOK ==
    /\ arrived \in 0..LastUpdate
    /\ forgotten \in 0..LastUpdate
    /\ stored \in 0..LastUpdate
    /\ holder \in Instance \cup {NoOne}
    /\ lease \in 0..Lease
    /\ pc \in [Instance -> Location]
    /\ offset \in [Instance -> 0..LastUpdate]
    /\ batch \in [Instance -> SUBSET Update]
    /\ failing \in [Instance -> 0..LastUpdate]
    /\ failures \in [Instance -> 0..MaxAttempts]
    /\ handled \in [Update -> Nat]
    /\ failed \in [Update -> 0..MaxAttempts]
    /\ dead \subseteq Update
    /\ lapsed \subseteq Instance
    /\ overlap \in BOOLEAN
    /\ faults \in Nat
    /\ \A i \in Instance : pc[i] \in {"handle", "advance"} <=> batch[i] # {}
    /\ \A i \in Instance : failures[i] < MaxAttempts \/ pc[i] = "advance"

Init ==
    /\ arrived = 0
    /\ forgotten = 0
    /\ stored = 0
    /\ holder = NoOne
    /\ lease = 0
    /\ pc = [i \in Instance |-> "down"]
    /\ offset = [i \in Instance |-> 0]
    /\ batch = [i \in Instance |-> {}]
    /\ failing = [i \in Instance |-> 0]
    /\ failures = [i \in Instance |-> 0]
    /\ handled = [u \in Update |-> 0]
    /\ failed = [u \in Update |-> 0]
    /\ dead = {}
    /\ lapsed = {}
    /\ overlap = FALSE
    /\ faults = 0

-----------------------------------------------------------------------------
Arrive ==
    /\ arrived < LastUpdate
    /\ arrived' = arrived + 1
    /\ UNCHANGED <<forgotten, row, local, history>>

\* A lease that runs out is not renewed: Run asks for it once.
Tick ==
    /\ lease > 0
    /\ lease' = lease - 1
    /\ lapsed' = IF lease = 1 /\ holder # NoOne /\ pc[holder] \in Polling
                 THEN lapsed \cup {holder} ELSE lapsed
    /\ UNCHANGED <<server, stored, holder, local, handled, failed, dead,
                   overlap, faults>>

\* Faulty: the statement forgets to compare the holder.
LeaseTaken(i) == TRUE

\* The WHERE clause of AcquirePollLease.
LeaseFree(i) == holder = NoOne \/ holder = i \/ lease = 0

AcquirePollLease(i) ==
    /\ pc[i] = "down"
    /\ LeaseFree(i)
    /\ holder' = i
    /\ lease' = Lease
    /\ pc' = [pc EXCEPT ![i] = "start"]
    /\ lapsed' = lapsed \ {i}
    /\ overlap' = (overlap \/ \E j \in Instance : pc[j] \in Polling)
    /\ UNCHANGED <<server, stored, offset, batch, failing, failures,
                   handled, failed, dead, faults>>

\* Run returns at once, and nothing in the process calls it again.
Refused(i) ==
    /\ pc[i] = "down"
    /\ ~LeaseFree(i)
    /\ pc' = [pc EXCEPT ![i] = "refused"]
    /\ UNCHANGED <<server, row, offset, batch, failing, failures, history>>

ReadOffset(i) ==
    /\ pc[i] = "start"
    /\ offset' = [offset EXCEPT ![i] = stored]
    /\ pc' = [pc EXCEPT ![i] = "poll"]
    /\ UNCHANGED <<server, row, batch, failing, failures, history>>

\* GetUpdates(offset+1) confirms what lies before, and returns a first part of
\* what has arrived since.  A failed call changes nothing and is made again.
GetUpdates(i) ==
    /\ pc[i] = "poll"
    /\ forgotten' = IF offset[i] > forgotten THEN offset[i] ELSE forgotten
    /\ \E n \in forgotten' + 1 .. arrived :
           batch' = [batch EXCEPT ![i] = forgotten' + 1 .. n]
    /\ pc' = [pc EXCEPT ![i] = "handle"]
    /\ UNCHANGED <<arrived, row, offset, failing, failures, history>>

IsHead(u, i) == u \in batch[i] /\ \A v \in batch[i] : u <= v

Handled(i, u) ==
    /\ pc[i] = "handle"
    /\ IsHead(u, i)
    /\ handled' = [handled EXCEPT ![u] = handled[u] + 1]
    /\ pc' = [pc EXCEPT ![i] = "advance"]
    /\ UNCHANGED <<server, row, offset, batch, failing, failures,
                   failed, dead, lapsed, overlap, faults>>

\* Faulty: each batch starts counting anew.
CountForgets(i, u) == 1

\* Failures of this update in a row, with the one at hand.
Count(i, u) == IF failing[i] = u THEN failures[i] + 1 ELSE 1

Failed(i, u) ==
    /\ pc[i] = "handle"
    /\ IsHead(u, i)
    /\ failures' = [failures EXCEPT ![i] = Count(i, u)]
    /\ failing' = [failing EXCEPT ![i] = u]
    /\ failed' = [failed EXCEPT ![u] =
                    IF failed[u] < MaxAttempts THEN failed[u] + 1 ELSE failed[u]]
    /\ UNCHANGED <<server, row, offset, handled, lapsed, overlap, faults>>

\* Faulty: the loop goes on with the next update of the batch.
SkipsAhead(i, u) ==
    /\ Failed(i, u)
    /\ Count(i, u) < MaxAttempts
    /\ batch' = [batch EXCEPT ![i] = batch[i] \ {u}]
    /\ pc' = [pc EXCEPT ![i] = IF batch[i] = {u} THEN "poll" ELSE "handle"]
    /\ UNCHANGED dead

\* The batch is dropped, and the next poll brings the update again.
Retry(i, u) ==
    /\ Failed(i, u)
    /\ Count(i, u) < MaxAttempts
    /\ batch' = [batch EXCEPT ![i] = {}]
    /\ pc' = [pc EXCEPT ![i] = "poll"]
    /\ UNCHANGED dead

DeadLetter(i, u) ==
    /\ Failed(i, u)
    /\ Count(i, u) >= MaxAttempts
    /\ dead' = dead \cup {u}
    /\ pc' = [pc EXCEPT ![i] = "advance"]
    /\ UNCHANGED batch

\* Faulty: the failures are not set back.
AdvanceKeepsCount(i, u) ==
    /\ pc[i] = "advance"
    /\ IsHead(u, i)
    /\ stored' = IF u > stored THEN u ELSE stored
    /\ offset' = [offset EXCEPT ![i] = u]
    /\ batch' = [batch EXCEPT ![i] = batch[i] \ {u}]
    /\ pc' = [pc EXCEPT ![i] = IF batch[i] = {u} THEN "poll" ELSE "handle"]
    /\ UNCHANGED <<server, holder, lease, failing, failures, history>>

\* Faulty: the row takes the last update of the batch.
AdvanceToEnd(i, u) ==
    /\ pc[i] = "advance"
    /\ IsHead(u, i)
    /\ stored' = CHOOSE v \in batch[i] : \A w \in batch[i] : w <= v
    /\ offset' = [offset EXCEPT ![i] = u]
    /\ batch' = [batch EXCEPT ![i] = batch[i] \ {u}]
    /\ failing' = [failing EXCEPT ![i] = 0]
    /\ failures' = [failures EXCEPT ![i] = 0]
    /\ pc' = [pc EXCEPT ![i] = IF batch[i] = {u} THEN "poll" ELSE "handle"]
    /\ UNCHANGED <<server, holder, lease, history>>

\* The update is consumed, whether it was handled or given up.
AdvanceUpdateID(i, u) ==
    /\ pc[i] = "advance"
    /\ IsHead(u, i)
    /\ stored' = IF u > stored THEN u ELSE stored
    /\ offset' = [offset EXCEPT ![i] = u]
    /\ batch' = [batch EXCEPT ![i] = batch[i] \ {u}]
    /\ failing' = [failing EXCEPT ![i] = 0]
    /\ failures' = [failures EXCEPT ![i] = 0]
    /\ pc' = [pc EXCEPT ![i] = IF batch[i] = {u} THEN "poll" ELSE "handle"]
    /\ UNCHANGED <<server, holder, lease, history>>

\* Run is over and its variables are gone.
Leave(i, to) ==
    /\ pc' = [pc EXCEPT ![i] = to]
    /\ batch' = [batch EXCEPT ![i] = {}]
    /\ failing' = [failing EXCEPT ![i] = 0]
    /\ failures' = [failures EXCEPT ![i] = 0]
    /\ offset' = [offset EXCEPT ![i] = 0]

\* Only its own lease, and the row may refuse.
ReleasePollLease(i) ==
    IF holder = i THEN holder' = NoOne /\ lease' = 0
                  ELSE UNCHANGED <<holder, lease>>

\* The offset could not be written: Run returns, the process goes on without.
AdvanceFails(i) ==
    /\ faults < MaxFaults
    /\ pc[i] = "advance"
    /\ faults' = faults + 1
    /\ Leave(i, "refused")
    /\ ReleasePollLease(i)
    /\ UNCHANGED <<server, stored, handled, failed, dead, lapsed, overlap>>

\* The context is done: Run leaves the loop between batches and the process
\* ends; it may be started again.
Shutdown(i) ==
    /\ pc[i] = "poll"
    /\ Leave(i, "down")
    /\ ReleasePollLease(i)
    /\ UNCHANGED <<server, stored, history>>

\* The process dies anywhere and is started again; the row stays.
Crash(i) ==
    /\ faults < MaxFaults
    /\ pc[i] # "down"
    /\ faults' = faults + 1
    /\ Leave(i, "down")
    /\ UNCHANGED <<server, row, handled, failed, dead, lapsed, overlap>>

-----------------------------------------------------------------------------
Run(i) ==
    \/ AcquirePollLease(i)
    \/ Refused(i)
    \/ ReadOffset(i)
    \/ GetUpdates(i)
    \/ \E u \in Update : \/ Handled(i, u)
                         \/ Retry(i, u)
                         \/ DeadLetter(i, u)
                         \/ AdvanceUpdateID(i, u)

Next ==
    \/ Arrive
    \/ Tick
    \/ \E i \in Instance : Run(i) \/ AdvanceFails(i) \/ Shutdown(i) \/ Crash(i)

Spec == Init /\ [][Next]_vars

\* The loop of a process runs on, and Telegram answers in the end.
FairSpec == Spec /\ \A i \in Instance : WF_vars(Run(i))

-----------------------------------------------------------------------------
Settled(u) == handled[u] > 0 \/ (u \in dead /\ failed[u] = MaxAttempts)

\* What the row or Telegram counts as consumed has been handled, or given up
\* after its attempts: no crash, retry or second poller drops an update
\* (bot.go:3-7, 30-33 and :146).
NoneSkipped == \A u \in Update : u <= stored \/ u <= forgotten => Settled(u)

\* An update is handled only when all those before it are settled
\* (bot.go:133-135).
InOrder ==
    [][\A u \in Update : handled'[u] > handled[u] => \A v \in 1..u-1 : Settled(v)]_vars

IsPolling(i) == pc[i] \in Polling

\* An update is handled twice only after a crash, a failed write of the offset
\* or under a second poller; and a second poller is let in by no start, stop or
\* crash, only by a lease that ran out under the first (ratings.go:70-75).
OncePerLease ==
    /\ \A u \in Update : handled[u] > 1 => faults > 0 \/ overlap
    /\ \A i, j \in Instance :
          i # j /\ IsPolling(i) /\ IsPolling(j) => i \in lapsed \/ j \in lapsed

\* An instance that is not stopped again and again and whose loop was not
\* refused or ended by a failed write.
KeepsPolling(i) ==
    /\ <>[][~Shutdown(i)]_vars
    /\ [](pc[i] # "refused")

\* Every update a user sends is consumed as long as one instance keeps polling,
\* also behind an update whose handler always fails (bot.go:30-32), and
\* whatever a second instance does to the same row and the same queue.
UpdatesConsumed ==
    \A u \in Update, i \in Instance :
        KeepsPolling(i) => ((arrived >= u) ~> (stored >= u))
-----------------------------------------------------------------------------
\* The pollers, however many there are, implement the promise to the users.
Queue == INSTANCE Feed WITH
    Last <- LastUpdate,
    Limit <- MaxAttempts,
    sent <- arrived,
    served <- handled,
    tries <- failed,
    givenUp <- dead,
    passed <- IF stored > forgotten THEN stored ELSE forgotten

KeepsFeed == Queue!FeedSpec
=============================================================================
