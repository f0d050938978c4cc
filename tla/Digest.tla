------------------------------- MODULE Digest -------------------------------
(***************************************************************************)
(* One delivery cycle of the bot: Runner.RunForUser of                     *)
(* src/internal/digest/digest.go over the tables it reads and writes       *)
(* (src/internal/repo/deliveries.go, listings.go), run by several callers  *)
(* at once (the daily digest and the detached goroutines of /buscar) while *)
(* the user's own commands change the rows underneath it.                  *)
(*                                                                         *)
(* A Proc is a goroutine that may call RunForUser.  Listings and searches  *)
(* are model values: the order the candidates are sent in depends on       *)
(* scores and timestamps that are not modelled here, so the choice of the  *)
(* next listing is left open.  A failed statement, a failed fetch, a lost  *)
(* answer of Telegram and a crash of the process are actions of their own. *)
(* A definition marked "Faulty:" is a plausible bug in the definition that *)
(* follows it; it is used only to see that a property would notice it.     *)
(***************************************************************************)
EXTENDS Naturals, FiniteSets

CONSTANTS
    User,       \* telegram users
    Listing,    \* postings of the portal, keyed by their zonaprop id
    Search,     \* ids of search_urls rows; a removed id is never used again
    Owner,      \* [Search -> User], the user_id column of search_urls
    Proc,       \* goroutines that call RunForUser
    MaxPerRun,  \* Runner.MaxPerRun; 0 stands for its limit of 1000
    MaxFaults,  \* bound on crashes and lost records in one behavior
    NoUser, NoProc, NoListing

ASSUME DigestAssumption ==
    /\ Owner \in [Search -> User]
    /\ MaxPerRun \in Nat
    /\ MaxFaults \in Nat
    /\ NoUser \notin User
    /\ NoProc \notin Proc
    /\ NoListing \notin Listing
    /\ IsFiniteSet(Listing)

VARIABLES
    account,    \* account[u]: u has a row in users
    search,     \* search[s]: life of the search_urls row s
    sources,    \* sources[s]: listing_sources rows of search s
    delivery,   \* delivery[u][l]: status of the deliveries row, or "none"
    lock,       \* lock[u]: holder of the per-user mutex of Runner.locks
    pc,         \* where each goroutine is
    who,        \* the user a goroutine runs for
    stage,      \* stage[p][s]: progress of indexSearch for s in p's run
    fresh,      \* fresh[p][s]: sourcesBefore = 0 in that call
    page,       \* page[p][s]: listings of the fetched page not linked yet
    queue,      \* candidates of p's run not tried yet
    cur,        \* the listing p has sent and not recorded yet
    cards,      \* history: cards[u][l], how many cards of l reached u's chat
    lapses,     \* history: sends whose record was never written, or erased
    found,      \* history: found[u], listings ever linked to a search of u
    firstPage,  \* history: the last page fetched for a search without sources
    seeded,     \* history: the first index of the search ran to its end
    faults      \* crashes and lost records so far

rows    == <<account, search, sources, delivery>>
runVars == <<lock, pc, who, stage, fresh, page, queue, cur>>
history == <<cards, lapses, found, firstPage, seeded, faults>>
vars    == <<account, search, sources, delivery, lock, pc, who, stage, fresh,
             page, queue, cur, cards, lapses, found, firstPage, seeded, faults>>

SearchState == {"unused", "pending", "valid", "deleted"}
Status      == {"none", "baseline", "sent"}
Stage       == {"off", "fetch", "link", "baseline", "ok", "failed"}
Location    == {"idle", "want", "index", "send", "mark"}

TypeOK ==
    /\ account \in [User -> BOOLEAN]
    /\ search \in [Search -> SearchState]
    /\ sources \in [Search -> SUBSET Listing]
    /\ delivery \in [User -> [Listing -> Status]]
    /\ lock \in [User -> Proc \cup {NoProc}]
    /\ pc \in [Proc -> Location]
    /\ who \in [Proc -> User \cup {NoUser}]
    /\ stage \in [Proc -> [Search -> Stage]]
    /\ fresh \in [Proc -> [Search -> BOOLEAN]]
    /\ page \in [Proc -> [Search -> SUBSET Listing]]
    /\ queue \in [Proc -> SUBSET Listing]
    /\ cur \in [Proc -> Listing \cup {NoListing}]
    /\ cards \in [User -> [Listing -> Nat]]
    /\ lapses \in [User -> [Listing -> Nat]]
    /\ found \in [User -> SUBSET Listing]
    /\ firstPage \in [Search -> SUBSET Listing]
    /\ seeded \in [Search -> BOOLEAN]
    /\ faults \in Nat
    /\ \A p \in Proc : (pc[p] = "idle") <=> (who[p] = NoUser)
    /\ \A p \in Proc : (pc[p] = "mark") <=> (cur[p] # NoListing)

Init ==
    /\ account = [u \in User |-> FALSE]
    /\ search = [s \in Search |-> "unused"]
    /\ sources = [s \in Search |-> {}]
    /\ delivery = [u \in User |-> [l \in Listing |-> "none"]]
    /\ lock = [u \in User |-> NoProc]
    /\ pc = [p \in Proc |-> "idle"]
    /\ who = [p \in Proc |-> NoUser]
    /\ stage = [p \in Proc |-> [s \in Search |-> "off"]]
    /\ fresh = [p \in Proc |-> [s \in Search |-> FALSE]]
    /\ page = [p \in Proc |-> [s \in Search |-> {}]]
    /\ queue = [p \in Proc |-> {}]
    /\ cur = [p \in Proc |-> NoListing]
    /\ cards = [u \in User |-> [l \in Listing |-> 0]]
    /\ lapses = [u \in User |-> [l \in Listing |-> 0]]
    /\ found = [u \in User |-> {}]
    /\ firstPage = [s \in Search |-> {}]
    /\ seeded = [s \in Search |-> FALSE]
    /\ faults = 0

-----------------------------------------------------------------------------
(* The user's commands and the validator, as they change the rows.         *)

\* /start or /addurl of a user without a row.
CreateUser(u) ==
    /\ ~account[u]
    /\ account' = [account EXCEPT ![u] = TRUE]
    /\ UNCHANGED <<search, sources, delivery, runVars, history>>

\* The label that closes the conversation inserts a pending search.
AddSearch(s) ==
    /\ account[Owner[s]]
    /\ search[s] = "unused"
    /\ search' = [search EXCEPT ![s] = "pending"]
    /\ UNCHANGED <<account, sources, delivery, runVars, history>>

\* The validator read the page: from now on the digest fetches it.
MarkValid(s) ==
    /\ search[s] = "pending"
    /\ search' = [search EXCEPT ![s] = "valid"]
    /\ UNCHANGED <<account, sources, delivery, runVars, history>>

\* /rmurl: the row goes, and its listing_sources with it (ON DELETE CASCADE).
RemoveSearch(s) ==
    /\ search[s] \in {"pending", "valid"}
    /\ search' = [search EXCEPT ![s] = "deleted"]
    /\ sources' = [sources EXCEPT ![s] = {}]
    /\ UNCHANGED <<account, delivery, runVars, history>>

\* /borrardatos: searches, sources and deliveries go with the users row.
DeleteUser(u) ==
    /\ account[u]
    /\ account' = [account EXCEPT ![u] = FALSE]
    /\ search' = [s \in Search |->
                    IF Owner[s] = u /\ search[s] # "unused"
                    THEN "deleted" ELSE search[s]]
    /\ sources' = [s \in Search |-> IF Owner[s] = u THEN {} ELSE sources[s]]
    /\ delivery' = [delivery EXCEPT ![u] = [l \in Listing |-> "none"]]
    /\ lapses' = [lapses EXCEPT ![u] =
                    [l \in Listing |-> lapses[u][l] +
                        IF delivery[u][l] = "sent" THEN 1 ELSE 0]]
    /\ UNCHANGED <<runVars, cards, found, firstPage, seeded, faults>>

-----------------------------------------------------------------------------
(* RunForUser: lock, index every valid search, send what is undelivered.   *)

\* A caller asks for a run.  RunDaily may name a user whose row is gone by
\* the time of the call: it works from a list it read before.
Call(p, u) ==
    /\ pc[p] = "idle"
    /\ pc' = [pc EXCEPT ![p] = "want"]
    /\ who' = [who EXCEPT ![p] = u]
    /\ UNCHANGED <<rows, lock, stage, fresh, page, queue, cur, history>>

ValidSearches(u) == {s \in Search : Owner[s] = u /\ search[s] = "valid"}

\* Faulty: runs of one user are not serialized.
NoMutex(p) == TRUE

\* The user's mutex in Runner.locks is not held.
LockFree(p) == lock[who[p]] = NoProc

\* The local state of a goroutine whose run is over.
Unwind(p) ==
    /\ pc' = [pc EXCEPT ![p] = "idle"]
    /\ who' = [who EXCEPT ![p] = NoUser]
    /\ stage' = [stage EXCEPT ![p] = [s \in Search |-> "off"]]
    /\ fresh' = [fresh EXCEPT ![p] = [s \in Search |-> FALSE]]
    /\ page' = [page EXCEPT ![p] = [s \in Search |-> {}]]
    /\ queue' = [queue EXCEPT ![p] = {}]
    /\ cur' = [cur EXCEPT ![p] = NoListing]

\* Faulty: a return path forgets the unlock.
ReturnLocked(p) == Unwind(p) /\ UNCHANGED lock

\* RunForUser returns, and its deferred unlock frees the mutex.
Return(p) ==
    /\ lock' = [lock EXCEPT ![who[p]] = NoProc]
    /\ Unwind(p)

\* lockUser, then ListValidSearchURLs; one goroutine per search counts the
\* sources it had before.
StartRun(p) ==
    /\ pc[p] = "want"
    /\ LockFree(p)
    /\ ValidSearches(who[p]) # {}
    /\ lock' = [lock EXCEPT ![who[p]] = p]
    /\ pc' = [pc EXCEPT ![p] = "index"]
    /\ stage' = [stage EXCEPT ![p] =
                [s \in Search |-> IF s \in ValidSearches(who[p]) THEN "fetch" ELSE "off"]]
    /\ fresh' = [fresh EXCEPT ![p] =
                [s \in Search |-> s \in ValidSearches(who[p]) /\ sources[s] = {}]]
    /\ UNCHANGED <<rows, who, page, queue, cur, history>>

\* Without a valid search the run is over at once, and counts as a success.
NothingToFetch(p) ==
    /\ pc[p] = "want"
    /\ LockFree(p)
    /\ ValidSearches(who[p]) = {}
    /\ Return(p)
    /\ UNCHANGED <<rows, history>>

\* The page of one search arrived and parsed into the listings L.
Fetch(p, s, L) ==
    /\ pc[p] = "index"
    /\ stage[p][s] = "fetch"
    /\ stage' = [stage EXCEPT ![p][s] = IF L = {} THEN "ok" ELSE "link"]
    /\ page' = [page EXCEPT ![p][s] = L]
    /\ firstPage' = [firstPage EXCEPT ![s] =
                        IF fresh[p][s] /\ L # {} THEN L ELSE firstPage[s]]
    /\ UNCHANGED <<rows, lock, pc, who, fresh, queue, cur,
                   cards, lapses, found, seeded, faults>>

\* UpsertListing and LinkListingSource of one listing.  The foreign key
\* refuses the link of a search that is gone.
Link(p, s, l) ==
    /\ pc[p] = "index"
    /\ stage[p][s] = "link"
    /\ l \in page[p][s]
    /\ search[s] # "deleted"
    /\ sources' = [sources EXCEPT ![s] = sources[s] \cup {l}]
    /\ found' = [found EXCEPT ![Owner[s]] = found[Owner[s]] \cup {l}]
    /\ page' = [page EXCEPT ![p][s] = page[p][s] \ {l}]
    /\ stage' = [stage EXCEPT ![p][s] =
                    IF page[p][s] # {l} THEN "link"
                    ELSE IF fresh[p][s] THEN "baseline" ELSE "ok"]
    /\ UNCHANGED <<account, search, delivery, lock, pc, who, fresh, queue,
                   cur, cards, lapses, firstPage, seeded, faults>>

\* LinkedListingIDs and BaselineDeliveries, whose inserts are one
\* transaction and leave the rows that exist alone.
Baseline(p, s) ==
    /\ pc[p] = "index"
    /\ stage[p][s] = "baseline"
    /\ delivery' = [delivery EXCEPT ![who[p]] = [l \in Listing |->
            IF l \in sources[s] /\ delivery[who[p]][l] = "none"
            THEN "baseline" ELSE delivery[who[p]][l]]]
    /\ stage' = [stage EXCEPT ![p][s] = "ok"]
    /\ seeded' = [seeded EXCEPT ![s] = search[s] = "valid"]
    /\ UNCHANGED <<account, search, sources, lock, pc, who, fresh, page,
                   queue, cur, cards, lapses, found, firstPage, faults>>

\* A failed fetch, parse or statement ends the goroutine of the search and
\* leaves what it has written so far.
IndexFails(p, s) ==
    /\ pc[p] = "index"
    /\ stage[p][s] \in {"fetch", "link", "baseline"}
    /\ stage' = [stage EXCEPT ![p][s] = "failed"]
    /\ page' = [page EXCEPT ![p][s] = {}]
    /\ UNCHANGED <<rows, lock, pc, who, fresh, queue, cur, history>>

Indexed(p) == \A s \in Search : stage[p][s] \in {"off", "ok", "failed"}
Fetched(p) == \E s \in Search : stage[p][s] = "ok"

\* Listings that a search of u found: the EXISTS part of Repo.Candidates.
Linked(u) == UNION {sources[s] : s \in {t \in Search : Owner[t] = u}}

\* Faulty: the query forgets the join with the user's own searches and reads
\* the listings of everyone.
UndeliveredOfAnyone(u) == {l \in Listing : delivery[u][l] = "none"}

\* Faulty: a baseline row does not count as delivered.
UndeliveredOrBaseline(u) == {l \in Linked(u) : delivery[u][l] # "sent"}

\* With its NOT EXISTS part: what the user has not been shown, before LIMIT.
Undelivered(u) == {l \in Linked(u) : delivery[u][l] = "none"}

\* What Candidates may return under the cap.
Candidates(u) ==
    {L \in SUBSET Undelivered(u) :
        IF MaxPerRun = 0 \/ Cardinality(Undelivered(u)) <= MaxPerRun
        THEN L = Undelivered(u)
        ELSE Cardinality(L) = MaxPerRun}

\* wg.Wait is over and at least one search was read.
ReadCandidates(p) ==
    /\ pc[p] = "index"
    /\ Indexed(p)
    /\ Fetched(p)
    /\ \E L \in Candidates(who[p]) : queue' = [queue EXCEPT ![p] = L]
    /\ pc' = [pc EXCEPT ![p] = "send"]
    /\ UNCHANGED <<rows, lock, who, stage, fresh, page, cur, history>>

\* Not one search could be read: the run is an error, to be tried again.
NoneFetched(p) ==
    /\ pc[p] = "index"
    /\ Indexed(p)
    /\ ~Fetched(p)
    /\ Return(p)
    /\ UNCHANGED <<rows, history>>

\* The context is done (the time of a /buscar is over, or the bot stops)
\* when the searches were read, or before the next card; or the list of
\* searches, the candidates or the weights could not be read.
Cancelled(p) ==
    /\ \/ pc[p] = "want" /\ LockFree(p)
       \/ pc[p] = "index" /\ Indexed(p) /\ Fetched(p)
       \/ pc[p] = "send" /\ queue[p] # {}
    /\ Return(p)
    /\ UNCHANGED <<rows, history>>

\* Telegram took the card.
Notify(p, l) ==
    /\ pc[p] = "send"
    /\ l \in queue[p]
    /\ queue' = [queue EXCEPT ![p] = queue[p] \ {l}]
    /\ cur' = [cur EXCEPT ![p] = l]
    /\ pc' = [pc EXCEPT ![p] = "mark"]
    /\ cards' = [cards EXCEPT ![who[p]][l] = cards[who[p]][l] + 1]
    /\ UNCHANGED <<rows, lock, who, stage, fresh, page,
                   lapses, found, firstPage, seeded, faults>>

\* Faulty: the row is written although the send failed.
NotifyFailsRecorded(p, l) ==
    /\ pc[p] = "send"
    /\ l \in queue[p]
    /\ queue' = [queue EXCEPT ![p] = queue[p] \ {l}]
    /\ delivery' = [delivery EXCEPT ![who[p]][l] = "sent"]
    /\ UNCHANGED <<account, search, sources, lock, pc, who, stage, fresh, page,
                   cur, history>>

\* Notify returned an error: the listing stays undelivered and the run goes on.
NotifyFails(p, l) ==
    /\ pc[p] = "send"
    /\ l \in queue[p]
    /\ queue' = [queue EXCEPT ![p] = queue[p] \ {l}]
    /\ UNCHANGED <<rows, lock, pc, who, stage, fresh, page, cur, history>>

\* The same error, although Telegram showed the card: its answer was lost.
NotifyUnanswered(p, l) ==
    /\ faults < MaxFaults
    /\ pc[p] = "send"
    /\ l \in queue[p]
    /\ queue' = [queue EXCEPT ![p] = queue[p] \ {l}]
    /\ cards' = [cards EXCEPT ![who[p]][l] = cards[who[p]][l] + 1]
    /\ lapses' = [lapses EXCEPT ![who[p]][l] = lapses[who[p]][l] + 1]
    /\ faults' = faults + 1
    /\ UNCHANGED <<rows, lock, pc, who, stage, fresh, page, cur,
                   found, firstPage, seeded>>

\* The delivery is recorded; message_id is always NULL, so an existing row
\* is overwritten.
MarkDelivered(p) ==
    /\ pc[p] = "mark"
    /\ account[who[p]]
    /\ delivery' = [delivery EXCEPT ![who[p]][cur[p]] = "sent"]
    /\ cur' = [cur EXCEPT ![p] = NoListing]
    /\ pc' = [pc EXCEPT ![p] = "send"]
    /\ UNCHANGED <<account, search, sources, lock, who, stage, fresh, page,
                   queue, history>>

\* The insert failed, or its foreign key found no user: the run ends there.
MarkFails(p) ==
    /\ pc[p] = "mark"
    /\ \/ ~account[who[p]] /\ UNCHANGED faults
       \/ account[who[p]] /\ faults < MaxFaults /\ faults' = faults + 1
    /\ lapses' = [lapses EXCEPT ![who[p]][cur[p]] = lapses[who[p]][cur[p]] + 1]
    /\ Return(p)
    /\ UNCHANGED <<rows, cards, found, firstPage, seeded>>

Finish(p) ==
    /\ pc[p] = "send"
    /\ queue[p] = {}
    /\ Return(p)
    /\ UNCHANGED <<rows, history>>

InFlight(u, l) == \E p \in Proc : pc[p] = "mark" /\ who[p] = u /\ cur[p] = l

\* The process dies: mutexes and goroutines are gone, the rows stay.
Crash ==
    /\ faults < MaxFaults
    /\ faults' = faults + 1
    /\ lapses' = [u \in User |-> [l \in Listing |->
                    lapses[u][l] + IF InFlight(u, l) THEN 1 ELSE 0]]
    /\ lock' = [u \in User |-> NoProc]
    /\ pc' = [p \in Proc |-> "idle"]
    /\ who' = [p \in Proc |-> NoUser]
    /\ stage' = [p \in Proc |-> [s \in Search |-> "off"]]
    /\ fresh' = [p \in Proc |-> [s \in Search |-> FALSE]]
    /\ page' = [p \in Proc |-> [s \in Search |-> {}]]
    /\ queue' = [p \in Proc |-> {}]
    /\ cur' = [p \in Proc |-> NoListing]
    /\ UNCHANGED <<rows, cards, found, firstPage, seeded>>

-----------------------------------------------------------------------------
Command ==
    \/ \E u \in User : CreateUser(u) \/ DeleteUser(u)
    \/ \E s \in Search : AddSearch(s) \/ MarkValid(s) \/ RemoveSearch(s)

IndexSearch(p) ==
    \E s \in Search :
        \/ \E L \in SUBSET Listing : Fetch(p, s, L)
        \/ \E l \in Listing : Link(p, s, l)
        \/ Baseline(p, s)
        \/ IndexFails(p, s)

SendUndelivered(p) ==
    \/ \E l \in Listing : Notify(p, l) \/ NotifyFails(p, l) \/ NotifyUnanswered(p, l)
    \/ MarkDelivered(p)
    \/ MarkFails(p)
    \/ Finish(p)

RunForUser(p) ==
    \/ StartRun(p)
    \/ NothingToFetch(p)
    \/ IndexSearch(p)
    \/ ReadCandidates(p)
    \/ NoneFetched(p)
    \/ Cancelled(p)
    \/ SendUndelivered(p)

Next ==
    \/ Command
    \/ \E p \in Proc, u \in User : Call(p, u)
    \/ \E p \in Proc : RunForUser(p)
    \/ Crash

Spec == Init /\ [][Next]_vars

\* The Go scheduler runs every goroutine that can run, a mutex is handed on,
\* and the daily job comes back for every user.
Fairness ==
    /\ \A u \in User : SF_vars(\E p \in Proc : Call(p, u))
    /\ \A p \in Proc : SF_vars(StartRun(p) \/ NothingToFetch(p)) /\ WF_vars(RunForUser(p))

FairSpec == Spec /\ Fairness

-----------------------------------------------------------------------------
\* Every card in the chat is being recorded, is recorded, or its record was
\* lost.  So two runs that overlap never send one card twice (the reason for
\* Runner.locks, digest.go:47-50), a second card is always the price of a
\* lost record, and nothing is recorded as sent without having been sent
\* (digest.go:273-274).
CardsAccounted ==
    \A u \in User, l \in Listing :
        cards[u][l] = lapses[u][l] + (IF delivery[u][l] = "sent" THEN 1 ELSE 0)
                                   + (IF InFlight(u, l) THEN 1 ELSE 0)

InRun(p) == pc[p] \in {"index", "send", "mark"}

\* A goroutine inside RunForUser holds the mutex of its user.
HoldsMutex == \A p \in Proc : InRun(p) => lock[who[p]] = p

\* The candidates a run read are still undelivered when it sends them, however
\* long the sends take: no other caller, command or baseline delivers them in
\* between (digest.go:47-50 and :228-257).
CandidatesStayFresh ==
    \A p \in Proc :
        /\ pc[p] \in {"send", "mark"} =>
              \A l \in queue[p] : delivery[who[p]][l] = "none"
        /\ pc[p] = "mark" =>
              delivery[who[p]][cur[p]] = "none" /\ cur[p] \notin queue[p]

\* A user is only ever shown listings that one of their own searches found,
\* although the listings table is shared (listings.go:49-51), and even when
\* rows are removed while a run is under way.
NoLeak ==
    \A u \in User, l \in Listing : cards[u][l] > 0 => l \in found[u]

\* The page a search started with is never sent, as long as its first index
\* ran to the end (digest.go:201-203).
StartNotReplayed ==
    [][\A s \in Search : \A l \in firstPage[s] :
        (seeded[s] /\ search[s] = "valid")
            => cards'[Owner[s]][l] = cards[Owner[s]][l]]_vars

\* The same without that condition, as digest.go:201-203 states it: "First
\* time this search yielded anything: mark the whole page as already seen
\* instead of replaying it."
HistoryNotReplayed ==
    [][\A s \in Search : \A l \in firstPage[s] :
        search[s] = "valid" => cards'[Owner[s]][l] = cards[Owner[s]][l]]_vars

\* A step that only a failure of the database, the portal, Telegram or the
\* process itself explains, or the end of a run's time.
Failure ==
    \/ Crash
    \/ \E p \in Proc :
        \/ Cancelled(p) \/ MarkFails(p)
        \/ \E s \in Search : IndexFails(p, s)
        \/ \E l \in Listing : NotifyFails(p, l) \/ NotifyUnanswered(p, l)

\* Once failures stop, every listing that was found and not delivered reaches
\* the chat, the cap and the failures before notwithstanding.
CandidateReaches ==
    <>[][~Failure]_vars =>
        \A u \in User, l \in Listing :
            (l \in Undelivered(u)) ~>
                (cards[u][l] > 0 \/ l \notin Linked(u) \/ delivery[u][l] = "baseline")

\* A caller that waits for a run gets it and comes back: no failure on the
\* way leaves the mutex taken.
RunEnds == \A p \in Proc : (pc[p] # "idle") ~> (pc[p] = "idle")

-----------------------------------------------------------------------------
\* The digest implements the promise to the user.
OpenCard(u) ==
    IF \E l \in Listing : InFlight(u, l)
    THEN CHOOSE l \in Listing : InFlight(u, l)
    ELSE NoListing

Promise == INSTANCE Inbox WITH
    row <- delivery,
    open <- [u \in User |-> OpenCard(u)],
    shown <- cards,
    lapsed <- lapses

KeepsPromise == Promise!InboxSpec
=============================================================================
