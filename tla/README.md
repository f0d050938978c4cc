# A TLA+ verification of zonapropbot

The repository is a Telegram bot in Go. Every morning it fetches the searches its users
have saved on a property portal, sends each user the listings not sent before, with two
buttons, learns from the ratings, and answers commands in the chat in between. All state
that must survive lives in PostgreSQL; the hard part of the program is what happens when
goroutines, chat commands, failed calls and restarts meet over those rows.

Contents:

1. [The system](#1-the-system): inventory of components and of what makes each correct
2. [The modules](#2-the-modules): which module models what, and how it corresponds to the code
3. [The runs](#3-the-runs): bounds, results, fairness
4. [Disagreements](#4-disagreements) between the code and what is written about it
5. [The proofs](#5-the-proofs)
6. [What is not modelled](#6-not-modelled)
7. [Plan](#7-plan)

To check a run: `tlc -config <cfg> <module>`, e.g. `tlc -config Digest_one.cfg MCDigest`.
To check the proofs of a component: `tlapm DigestProofs.tla`, and likewise for the other seven
modules named `...Proofs` (from a few seconds to a few minutes each).

## 1. The system

Paths are relative to `src/internal/`.

| component | code | state | operations |
|---|---|---|---|
| delivery cycle | `digest/digest.go`, `repo/listings.go`, `repo/deliveries.go` | tables `search_urls`, `listing_sources`, `deliveries`; one mutex per user in `Runner.locks` | `RunForUser` = `indexSearch` of each valid search, then `sendUndelivered` |
| daily job | `digest/digest.go` (`RunDaily`), `repo/digests.go`, `scheduler/` | table `digests`, one row per user and day | fire, ensure rows, resume the unfinished ones, finish each |
| fetch client and gate | `fetch/fetch.go`, `fetch/gate.go` | a channel used as semaphore, `Gate.next` | `FetchWith`, `Acquire`, `Cooldown`, release |
| update poller | `chat/bot.go` (`Run`), `repo/ratings.go` | row `bot_state` (offset, lease holder and expiry); offset and failure count in memory | lease, `getUpdates`, dispatch, retry, dead letter, advance |
| ratings | `chat/bot.go` (`handleCallback`), `repo/ratings.go`, `contact/` | tables `ratings`, `deliveries`, `listing_contacts`; the card in the chat | toast, record, note, revoke the keyboard, contact on a like |
| conversation | `chat/onboarding.go`, `chat/search.go`, `repo/onboarding.go` | `users.state`, `users.scratch`, `search_urls`, `lastSearch` in memory | the commands and the two-step dialogue that adds a search |
| deep validator | `validate/validator.go`, `repo/onboarding.go` | `search_urls.validation_status`, `attempts`, `next_check_at` | `RunOnce` every few minutes |
| preference model | `score/retrain.go`, `repo/weights.go` | table of weights by version, `users.active_model_version` | `Retrain`, `ReplaceWeights`, `Load`, `ActiveWeights` |
| Telegram client | `telegram/` | `Notifier.lastSent` and its mutex, one of each in the process | `Notify`, `throttle`, `post`; a 429, a picture that is refused |
| start-up | `db/`, `../cmd/bot/main.go` | schema and `schema_migrations`, advisory lock, seed marker | open, migrate, seed, retrain, start the loops, shut down |
| pure functions | `searchurl/`, `parser/`, `contact/` | none | normalise a URL, read a page |

How they interact. The scheduler calls `RunDaily`, which calls `RunForUser` for one user
after the other; `/buscar` starts `RunForUser` on a goroutine of its own. Both fetch through
the one `Gate`, shared with the validator (bulk) and with the contact goroutines that a like
starts (priority). The poller handles one update at a time and writes the same tables a digest
in progress is reading. Nothing but the mutex per user, the gate and the statements of
PostgreSQL orders any of this. All goroutines send through one `Notifier`, whose mutex a card
holds while it waits for its turn. A deployment may overlap the old instance and the new one:
then two processes migrate, seed, train and poll on one database.

What is hard, and what makes each component correct:

- **Delivery cycle.** A run reads its candidates once and then sends for minutes. Another
  caller, a removed search, an erased account or a crash may come in between. Telegram may
  show a card and lose the answer. *Correct*: a card is sent again only if the record of the
  first one was lost; nobody gets what only somebody else's search found; the page a search
  starts with is not replayed as news; whatever is left undelivered is delivered one day;
  the mutex is always given back.
- **Daily job.** The process may stop anywhere. *Correct*: a day that was recorded is finished
  at some later start.
- **Gate.** Callers time out in the queue, while pacing, during a request and during the
  backoff. *Correct*: no slot leaks, starts are spaced, a challenge silences everyone.
- **Poller.** Updates are delivered at least once, and the offset is written after the
  handler. *Correct*: nothing is skipped or reordered, a poison update is given up after its
  attempts and no earlier, two instances overlap only when the lease has lapsed.
- **Ratings.** Five calls, each of which may fail on either side of its effect, retried and
  replayed. *Correct*: the first tap wins, what the card says is what the table says, the
  contact is sent once.
- **Conversation.** *Correct*: the dialogue never loses the URL it is asking a name for, the
  cap holds under replays and what it answered is so, manual searches are an hour apart.
- **Validator.** A pass writes what it decided minutes ago about rows that may be gone.
  *Correct*: nothing is given up early or announced twice, and everything pending is
  decided, also behind rows that never can be.
- **Telegram client.** A send may wait behind another goroutine's, be told to wait, be
  cancelled in either wait, or lose its answer. *Correct*: cards are spaced, a call shows its
  message once or, in an error, at most once, and no caller that gives up blocks the others.
- **Preference model.** A load takes two statements, and another process prunes in between.
  *Correct*: it gets a whole generation or none.
- **Start-up.** Two instances, or one that died half-way, meet the same schema and seed, and
  searches of the user's own. *Correct*: the second instance waits and starts, what the user
  removed is not seeded again, nothing ends a start but a failure or a seed that its data
  refuses.

Every hazard is listed at its line in `PROJECT.json` with the properties that cover it.

## 2. The modules

Each module models one component with its own variables; what belongs to another component
is an environment action (a user who presses, a portal that publishes, an operator).
The MC modules (`MCDigest`, `MCFetch`, `MCRating`, `MCChat`, `MCBoot`) define the values a cfg
cannot write and name the symmetries; `Poller`, `Daily`, `DailyStop`, `Validator` and `Send` need
none and are run as they are.

`Poller` and `Boot` have two processes on one database. `Rating`, `Chat`, `Validator` and `Send` are
about one, and so is the mutex of `Digest`, which lives in the memory of its process:
`FirstTapWins`, `OneVerdict`, `CardsAccounted` and `CardsSpaced` say nothing of two instances that
handle one tap, check one search, run one user or send one chat's cards at once.

| module | models | promise, composition |
|---|---|---|
| `Digest` | the delivery cycle, several callers, several users | implements `Inbox` |
| `Inbox` | what a chat may see of the cycle | abstract specification |
| `Daily` | `RunDaily` over the `digests` table | |
| `DailyStop` | the same, with a history of the runs that were waiting at a `/stop` | EXTENDS `Daily` |
| `Fetch` | the gate and the control flow of one fetch | |
| `Send` | `Notifier`: the throttle and one call of the Telegram client | implements `Alert` |
| `Alert` | the outcomes of one call, for its caller | abstract specification |
| `Poller` | `Poller.Run`, two instances on one database | implements `Feed` |
| `Feed` | what becomes of the updates users send | abstract specification |
| `Rating` | `handleCallback` and `OnLike` | |
| `Chat` | the conversation, `/buscar`'s gates | |
| `Validator` | `RunOnce` | |
| `Model` | `Retrain` and `Load` of the preference model, several processes | |
| `Boot` | a process from `main` to its end: migrations, seed, training, service | EXTENDS `Model`; its steps are shown to be steps of `Model` |

`DigestProofs`, `FetchProofs`, `SendProofs`, `PollerProofs`, `RatingProofs`, `ChatProofs`,
`JobProofs` (about `Validator` and `Daily`, the two jobs `main` starts on a timer) and `BootProofs`
(about `Boot` and `Model`) hold the theorems (section 5). `JobProofs` extends both modules, which
is why the names of `Daily`'s specification and type invariant begin with its own.

Conventions that all modules share:

- One action is the work between two points where another actor can get in: a statement or
  transaction of PostgreSQL, a call to Telegram or the portal, taking or giving back a mutex.
- A call that can fail has an action for the failure; where the failure can come after the
  effect (a message that arrived, a commit whose answer was lost), one for that too, or a
  choice within it.
- History variables (marked "history") are read by properties and by bounds, never by a guard
  that stands for code.
- A definition that starts its comment with "Faulty:" is a plausible bug of the definition
  after it. No specification uses it; it takes the other's place to see that a property
  notices.

### Digest

| code | actions |
|---|---|
| `RunForUser` 91-151: mutex, listing of the valid searches, return paths | `Call`, `StartRun`, `NothingToFetch`, `Return`, `NoneFetched` |
| `indexSearch` 155-217, one goroutine per search | `Fetch` (the count of sources and the fetch), `Link` (one listing and its source), `Baseline`, `IndexFails`, `Indexed` |
| `sendUndelivered` 222-284 | `ReadCandidates`, `Notify`, `NotifyFails`, `NotifyUnanswered`, `MarkDelivered`, `MarkFails`, `Finish`, `Cancelled` |
| process death | `Crash` |
| the user's rows, changed by the conversation and the validator | `CreateUser`, `AddSearch`, `MarkValid`, `RemoveSearch`, `DeleteUser` |

`cur[p]` holds the listing whose card is in the chat and whose `deliveries` row is not written
yet. `lapses` counts the sends whose row never came, by user and listing; `cards` counts cards.

### Inbox

The promise to a chat, without goroutines, pages or mutexes: a card is shown, then recorded;
at most one card per user is open; a listing that is recorded, or suppressed as a baseline,
is not shown again; each loss of a record allows one more card. `Digest!KeepsPromise`
maps `row` to `delivery`, `open` to the card of the goroutine that holds it, and states
`InboxSpec` under that mapping.

### Daily

`digests[u][d]` is the status column. `Fire` starts a cycle, at the hour or at boot.
`EnsureDigest` and `EnsureFails` record the day's rows, `ReadPending` reads what is not done,
`StartDigest`, `StartFails`, `RunSucceeds`, `RunErrors` and `FinishFails` take one row through its
run, `CycleDone` ends the cycle; `Interrupted` is a shutdown or a death at any of them. The run
of a user is its outcome: what happens inside is `Digest`. The `sent` column, which no
statement reads, is left out.

### Fetch

Time is discrete and relative (`next`, `wait` and `quiet` count down with `Tick`), so states
are finite without a bound on the clock. `Acquire` is the channel send and the arithmetic of
`Gate.next`; the caller then waits in location "pace". `Start`, `FallBack`, `BackOff`,
`Retry`, `Done`, `Blocked` are the branches of `FetchWith`; `Cancelled` is the caller's
context ending in any of the places that look at it. `flare`, whether a FlareSolverr is
configured, is chosen at the start of a behavior. History: `last` is the last start handed out,
`quiet` what is left of the last hold-off, `hurried` that a priority request has been handed a
start while others, or a hold-off, lay ahead of it.

### Send

`pc` names where a caller is: "image" fetching the picture, "queue" at the mutex, "sleep" in
`throttle` with the mutex held, "sendPhoto" and "sendMessage" in a request, "holdPhoto" and
"holdMessage" in the wait a 429 asked for. `mu` is the mutex, `ready` the time until `minDelay` has
passed since `lastSent`, `wait[p]` what a sleeper still has to sleep, counted as in `Fetch`.
Runners send cards with `Notify`, through the throttle; the others send replies past it, as
`postForm` does. `Accepted`, `Rejected`, `Refused`, `Unanswered` and `TooMany` are the answers of
`do` and `post`; `Again` is the recursive call. `shown` and `answer`, history, are what `Alert` sees.

### Alert

A call begins, and ends with success and one message, or with an error and at most one.
These are the three outcomes `Digest` gives a card: `Notify`, `NotifyFails`, `NotifyUnanswered`.

### Poller

`stored`, `holder`, `lease` are the row; `offset`, `batch`, `failing`, `failures` are the
locals of `Run`. Telegram (`arrived`, `forgotten`) drops what an offset confirms.
`AdvanceFails` writes or does not write before it fails, and ends `Run`, as the code does.
History: `handled`, `failed`, `dead` count what became of an update, `lapsed` and `overlap` tell
whether a lease ran out and a second poller came in.

### Feed

The updates, without instances, leases, offsets or batches: they are taken in turn, each is
tried until a handler succeeds or its attempts have failed, and only then is it passed for
good. An update that is over may be handled once more, never ahead of another. `Poller!KeepsFeed`
maps `passed` to the further of the row's offset and what Telegram has forgotten, and the rest
to the history variables.

### Rating

One update at a time (`taps` is the queue of the poller), with the retry of the poller folded
in: a failed handler is called again until its attempts are used up. `buttons` and
`note` are the card in the chat, `showing` the cards whose row is not written yet; `late` says
that the delivery is older than `LateTapWindow`. `told` (what a toast called saved), `spawned`
(calls of `OnLike`) and `stumbled` (a handler that failed or died after its write) are history.
`jobs` are the goroutines of `OnLike`.

### Chat

`msg` is the message in hand, `tries` its attempts, `said` the set of answers its handler gave
so far. The two-step conversation is `AddURL`/`BeginSearch`, then `SearchAdded` or one of the
refusals. `label[x]` is the row of URL `x`, or `None`. `claim` is the age of the entry in
`lastSearch`: recent, old, or none.

### Validator

`batch` and `seen` are the slice that `PendingValidations` returned; `attempts`, `status`,
`next` are the columns. `Check(s, o)` is the fetch of a row's page with its outcome, `CheckFails`
a page that does not parse, `Write` the statement chosen from what was seen, `Notify` the
message, `WriteFails` a statement that fails. `Restart` is a death at any point. `outages` and
`told` are history.

### Model

One user's generations: `version` is `active_model_version`, `rows` the weights by generation,
`at` and `held` where a process is in a training or a load and what it has read. A training is
`TrainingSamples`, `ModelVersion`, `ReplaceWeights`; a load `ActiveVersion`, `ActiveRows`;
`StatementFails` breaks any of them off, before or after a commit. The weights themselves are
counts by bucket. `whole` (what the active generation was trained to) and `crossed` (two
trainings were under way at once) are history.

### Boot

`pc` goes through `main`: "open", "lock", "versions", "apply" (`Migrate`), "marker", "user", "searches",
"mark" (`Seed`), "list", "retrain" (`retrainAll`), "serving". `lock` is the advisory lock, `applied`
is `schema_migrations`, `found` what a process read of it, `marker` the row that says the seed was
applied. `env[p]` is what the environment tells process `p`: whether `SEED_CHAT_ID` is a number,
and the entries of `SEED_URLS`, pairs of a URL and a label; an entry that `Normalize` refuses has
the URL `NoUrl`. `searches` are the user's rows, under the two unique constraints and the foreign key
of `search_urls` (`RowsOK`); `left` the entries a process still has to write.

`SeedSearch` is one insert: an entry whose URL has a row is skipped by its ON CONFLICT, another is
added. `SeedRefused` is the fatal end of a seed: the chat id is no number, the URL has no normal form,
the user is gone, or the label is on a row of another URL, which the ON CONFLICT does not name
(`Seedable`). What was seeded before stays.

`Dies` is a failed statement, a signal or a death, with or without the effect of the statement at
hand; `ModelFails` a training or load whose failure is a warning. While a process serves, the user
rates, adds and removes searches (`AddSearch` renames a URL that has a row, as
`AddSearchURLChecked` does) and erases the account. `boots`, `faults`, `removed` (URLs taken away and
not sent again), `late` (those taken away since the marker) and `together` (two processes were
seeding at once) are history.

## 3. The runs

| run | instance | states | shows |
|---|---|---|---|
| `digest_one` | 1 user, 2 searches, 2 listings, 2 callers, cap 1, 1 fault | 563 000 | `CardsAccounted`, `CandidatesStayFresh`, `NoLeak`, `StartNotReplayed`, `KeepsPromise` (refinement of `Inbox`) |
| `digest_live` | 1 user, 1 search, 2 listings, 2 callers, cap 1, 1 fault | 12 600 | `CandidateReaches`, `RunEnds` |
| `daily_two` | 2 users, 2 days | 192 000 | `NothingLeftBehind`, `DayResumed` |
| `fetch_three` | 2 bulk clients, 1 priority client, with and without FlareSolverr, gap 2, hold-off 5, 1 cancellation | 64 400 | `SlotsInUse`, `StartsSpaced`, `FetchEnds` |
| `send_four` | 2 goroutines that send cards, 2 that send replies, `minDelay` of 2 ticks | 23 800 | `CardsSpaced`, `KeepsAlert` (refinement of `Alert`), `SendEnds` |
| `poller_two` | 2 instances, 2 updates, 2 attempts, lease of 2 ticks, 1 fault | 250 000 | `NoneSkipped`, `OncePerLease`, `KeepsFeed` (refinement of `Feed`), `UpdatesConsumed` |
| `rating_two` | 2 users, 1 listing, 3 taps, 2 attempts, 1 crash | 1 587 000 | `FirstTapWins`, `RatedTogether`, `ToldTruthful`, `LikeGetsContact` |
| `chat_three` | 3 URLs, 3 names, cap 2, 3 attempts, 1 crash | 414 000 | `CapHolds`, `AnswersTrue`, `RunsSpaced` |
| `validator_three` | 3 searches, 2 attempts, batches of 2, 1 restart or failed statement | 128 000 | `InvalidOnlyAfterAttempts`, `OneVerdict`, `Decided` |
| `boot_two` | an old and a new process with six pairs of environments, 2 migrations, 2 URLs, 2 labels, 1 bucket, 3 starts, 2 faults | 362 000 | `SeededOnce`, `LoadsWhole`, `FatalOnlyByFault`, `BootEnds` |
| `digest_replay`, `daily_stop` | smallest instances | | a violation each, see section 4 |

The runs of `Daily`, `Fetch`, `Poller`, `Rating`, `Chat`, `Validator` and `Boot` also check the type
invariant of their module, which carries the relations between a location and the variables
it uses. Those of `Digest` and `Send` are proved for every instance and not run.

### Why the bounds are enough

- *Digest.* Two callers are what it takes for a race over one user's mutex, and the code has
  two kinds (daily job, `/buscar`). Two searches give a first index beside a search that is
  running, two listings under a cap of one give a carry-over. One fault suffices for every
  window between two writes: a second fault meets the state the first one left, which is one
  the initial commands reach too. For `NoLeak`, every member of `Listing` may be in the shared
  table through another user; a query that lost its join would show one that this user's
  searches never found. `LeaksNothing` proves it for any number of users.
- *Fetch.* A hold-off longer than two gaps, so that it outlasts a start already handed out;
  three clients for two slots, so that one waits.
- *Send.* Two runners, so that one waits behind the other's sleep, and a delay of two ticks,
  so that a sleep can be cut in the middle. Nothing bounds the number of calls or of 429s.
- *Poller.* Two updates order a batch. A lease of two ticks can lapse before and after the
  offset is read.
- *Daily.* Two days make an old row beside today's; a behavior goes through any number of
  cycles on each.
- *Rating.* Three taps: both buttons, and a replay after an erasure. Two users share one
  listing, so that their likes race for its page.
- *Chat.* One URL more than the cap, one of them short enough to be read as a name.
- *Validator.* Batches of two out of three rows: some row is left out, and a row that never
  parses can share a batch with one that does.
- *Boot.* Two processes overlap, and a third start meets what an interrupted one left; with
  two faults, one start can fail after a failure of the other. Two migrations and two seeds
  have a middle. The old process has the good seeds or none; its successor has them too, or a
  URL without a normal form as the second, or a chat id that is no number. The user's own search
  is the second URL under the first label: it takes a label from one seed and gives the other
  a row. Three versions let a load be two trainings behind. One bucket tells a generation that
  is there from one that is not; that one in part is never read is proved for any number of
  buckets (`LoadsWholeHere`).

Counters that grow are bounded by guards on `MaxFaults`, `MaxTaps`, `MaxCancels`, `MaxBoots`,
`MaxRatings`, `MaxVersion`, `LastUpdate` and `LastDay`; nothing else is cut. `CHECK_DEADLOCK FALSE`
stands where a bounded history comes to its end and nobody has anything left to do (`Digest`,
`Poller`, `Rating`, `Chat`, `Validator`, `Boot`); `Fetch`, `Daily` and `Send` never stop and are
checked for deadlock.

### Fairness

| module | assumption | why the code justifies it |
|---|---|---|
| `Digest` | every user is called for again and again (strong), a goroutine that wants the mutex gets it (strong), a run goes on (weak) | the scheduler fires daily for every active user; Go hands a contended mutex to the longest waiter; each call has a timeout |
| `Fetch` | time passes (weak), a waiter of the channel gets its turn (strong), a fetch goes on (weak) | senders on a channel queue in order; requests time out |
| `Send` | time passes (weak), a waiter gets the mutex (strong), a sleeper wakes, requests and pictures end (weak) | the clock; Go's mutex; the timeout of the HTTP client |
| `Poller` | the loop of each instance goes on (weak) | a long poll returns, handlers return |
| `Daily` | the job is fired (weak) and goes on (weak) | the scheduler's timer; a boot |
| `Validator` | the ticker calls `RunOnce` (weak), a backoff ends (weak) | a ticker; the clock |
| `Boot` | a process that is starting goes on (weak) | statements return; PostgreSQL queues for the advisory lock, which its holder leaves within its own finite work |

No fairness is put on a failure, nor on the absence of one: `CandidateReaches` and
`DayResumed` say "once failures stop", `UpdatesConsumed` "while one instance keeps polling",
`SendEnds` "once Telegram stops asking that caller to wait", and `Decided` holds of every row
outside any set of fewer rows than fit a batch that may fail to parse forever.

## 4. Disagreements

Two are checked by runs that TLC finds violated; `PROJECT.json` quotes the lines.

- `digest_replay`: the baseline of a new search is written only by the call that found it
  without sources. Interrupted between the first link and the baseline, the next call sends
  the whole page, which `digest.go:201-203` rules out. `StartNotReplayed` states what does hold.
- `daily_stop`: `PendingDigests` does not look at `users.state`. TLC's trace records the row of
  the day, then the user sends `/stop`, and then the list of runs to make is read, with that row
  in it; `RunForUser` asks no further. `repo/users.go:18-19` says that `/stop` halts delivery. (A
  list read before the `/stop` is stale in the same way; the property does not speak of it.)

Others showed as conditions a property could not do without, or while reading. They are
stated here because the conditions are where the code and its comments part:

- A search that was valid and empty when it was checked is fetched by no digest
  (`repo/repo.go:85`) and looked at by no later pass, while the chat calls it "vigilando (hoy
  sin resultados)" (`chat/onboarding.go:205`).
- A priority request writes `Gate.next` from now and so undoes the hold-off of a challenge
  (`gate.go:57`); hence `hurried` in `StartsSpaced`, which says nothing of the starts after it.
- The comment of `post` speaks of one retry after a 429 (`telegram.go:307-310`); the code waits
  and sends as often as it is told to. Hence the premise of `SendEnds`.
- The poll lease is taken for 90 seconds and never renewed (`bot.go:81`,
  `repo/ratings.go:75`); hence `lapsed` in `OncePerLease`.
- After `RecordRating`, a failure of the revocation makes the retry stop at "already rated":
  the keyboard stays and the contact of the like is not asked for; hence `stumbled` in
  `LikeGetsContact`. "Guardado" is answered before the write; hence the two exceptions in
  `ToldTruthful`.
- The baseline of a second search marks as seen what the cap had left over from a first
  one; hence the last disjunct of `CandidateReaches`.
- A claim of `/buscar` whose acknowledgement failed stays (`search.go:56-63`); hence the
  exception in `AnswersTrue`; `RunsSpaced` is about the runs there are, and a claim without one
  is none.
- A search that was given up and is sent again stays invalid: `AddSearchURLChecked` changes
  its label only, so `Validator` has no action for it (`repo/onboarding.go:114`).
- Two trainings of one user that cross write the same next version over one another, and the
  rows mix until the next training; hence `crossed` in `LoadsWhole`. And the scorer "never reads
  half-written weights" (`weights.go:71-73`), but may read an empty generation: `ActiveWeights`
  takes two statements, and another instance's training prunes in between.
- A search that the user removes through one instance comes back when another is still at its
  seed; hence `SeededOnce` is about removals since the marker, and excepts two instances that
  seed at once (`together`).
- The ON CONFLICT of the seed names `(user_id, url_norm)`; a label that is on another URL, of the
  user's own or of an environment that has changed, violates the second unique constraint
  (`0001_init.sql:40`) and ends every start while it is there, as an entry without a normal form and a chat id that
  is no number do, with the entries before it written (`seed.go:97-125`). An erasure through
  another instance between the seeded user and a seeded search does so once. These are the
  cases of `Refusable` in `FatalOnlyByFault`.
- Listings of one page are inserted newest first, each with the `now()` of its own statement, so
  that the query, newest `first_indexed_at` first, puts the oldest of the page first;
  `recency_rank` decides nothing, against `repo/listings.go:72-75`. The order is not modelled.
- The LIMIT of the query cuts by recency, before anything is scored (`repo/listings.go:91`,
  `digest.go:240-255`): a listing with a better score may wait while newer ones go out, for as
  long as new ones fill the cap. Hence `CandidateReaches` needs a number of listings that ends.

## 5. The proofs

Every theorem is about the module's `Spec`, for any values of its constants that meet the
module's one named assumption, and for any number of faults. Together they state every safety
property the runs check, and the three refinements of abstract specifications; only liveness
is left to TLC.

| module | theorems |
|---|---|
| `DigestProofs` | `TypeCorrect`, `CandidatesFresh`, `CardsCorrect`, `OncePlusLapses`, `LeaksNothing`, `Implements` (`Inbox`), `StartsQuiet` |
| `FetchProofs` | `TypeCorrect`, `SlotsAccounted`, `Spaced` |
| `SendProofs` | `TypeCorrect`, `Spaced`, `Implements` (`Alert`) |
| `PollerProofs` | `TypeCorrect`, `SkipsNone`, `HandlesInOrder`, `Implements` (`Feed`), `HandlesOncePerLease` |
| `RatingProofs` | `TypeCorrect`, `RowsTogether`, `TellsTheTruth`, `LikesFollowed`, `FirstTap` |
| `JobProofs` | of `Validator`: `TypeCorrect`, `GivesUpLast`, `TellsOnce`; of `Daily`: `JobTypeCorrect`, `NothingForgotten` |
| `ChatProofs` | `TypeCorrect`, `Capped`, `AnswersHold`, `Spaced` |
| `BootProofs` | of `Model`: `ModelTypeCorrect`, `WholeLoads`; of `Boot`: `TypeCorrect`, `UsesModel`, `LoadsWholeHere`, `FatalByFault`, `SeedsOnce` |

Hardly any of these properties is inductive. A step is proved action by action; the
invariants that carry them are:

- **Digest.** That a queued listing stays undelivered rests on nobody else writing
  `deliveries` rows of that user, which is the mutex: the invariant adds `HoldsMutex` (a goroutine
  inside a run holds the mutex of its user). Indexing is the other writer, and it runs before
  the queue is read and under the same mutex. `CardsAccounted` needs in turn that the listing
  being sent has no row yet, or `MarkDelivered` would record one card for two: that is
  `CandidatesStayFresh`. So `IInv` is types, mutex, freshness, cards, each used in the next.
  `NoLeak` rests on `OwnFinds`: what is linked to a search of a user, queued for them or in their
  chat was found by one of their searches. The refinement first shows that, under the mutex,
  the open card of `Inbox` is the one card in flight (`OpenIs`) and that a step which moves no
  card leaves it alone (`OpenFrame`); `PromiseStep` then maps each action to a step of `Inbox` or a
  stutter. `OncePlusLapses` is what a user notices of all this: a card in flight has no row yet,
  so a listing comes once, plus once for each record that was lost or erased.
- **The page a search starts with.** `SeedInv` follows the first index from its count of sources
  to the baseline. Only the run of its owner works on a search (`StageOfRun`, with the mutex), so
  that what it has linked and has yet to link covers the page (`FirstUnderWay`); after the baseline
  the page has rows, and the sources that are left keep a later run from another first index
  (`PageRecorded`). Removing the search breaks the last fact and ends the promise with it.
- **Daily.** `NothingDropped`: while nothing has failed, each unfinished row up to the cycle's day is
  in the list or under way. New rows of those days are made only before the list is read, which
  is why `PendingDigests` must come after `EnsureDigest`.
- **Fetch.** `HoldersMove` says how the cardinality of the slot holders changes when one client
  moves; every branch of `FetchWith` is an instance of it. Spacing rests on `FarEnough`: unless a
  priority request jumped ahead, `Gate.next` lies a gap beyond the last start and beyond the
  hold-off.
- **Send.** `SleeperHolds`: who sleeps in `throttle` holds the mutex, so that one does at most, and its
  sleep is no shorter than what is left of the delay. For `Alert`, `NothingYet`: a call that has
  not returned has shown nothing, which is what allows a retry or the fall-back to a text.
- **Poller.** `SkipInv`: what the row, an instance's offset and Telegram count as consumed is
  settled, and what lies before an update of a batch is settled or in the batch; `CountBacked` ties the
  failure counter of an instance to failures of that very update, so that a dead letter has
  had its attempts. `LeaseInv`: who polls without having lapsed holds the lease, and as long as
  nothing overlapped or failed, one instance polls, at the offset of the row, and what is behind
  that offset, the update in hand apart, has not been handled.
  For `Feed`, `HeadHasTurn`: the head of a batch was sent (`BatchSent`) and all before it is
  over; and what a write of the offset or a poll passes is over by `NoneSkipped` after the step
  (`PassesOver`).
- **Rating.** One invariant by card, `CardInv`: rows agree, a rated card is not being shown for
  the first time, and for the tap in hand, what the handler has done so far is what its
  location and reply say. Cards are independent (`Unmoved`), so that a step is proved for its own.
- **Validator.** `Inv`: the attempts of a row, and those the pass has seen, are outages of that
  row; a row in a batch is undecided or gone, and the row at hand has been told nothing.
- **Chat.** Several handlers may answer one message, and some of them after a retry. `AnswersInv`
  adds to `AnswersTrue` that all answers so far belong to messages of one kind (`KnowsMessage`),
  so that what a retry adds cannot contradict them, and to the cap what one label does to the
  count (`LabelsMove`, `AddedCount`). `ClaimKept`: a run under way has its claim, and it is recent.
- **Model.** As long as no two trainings crossed, one process at most trains, its next version
  lies ahead of the active one, and the rows are those of the active generation only
  (`Uncrossed`).
- **Boot.** `StepOfModel` maps every step to a step of `Model` or a stutter, so that `LoadsWhole` is
  inherited. `RowsStep`: no insert, of a seed or of the user, breaks the constraints of the table,
  on which `TypeCorrect` rests. `KnowsApplied` (who holds the lock has read all that is applied)
  makes a conflict of migrations impossible. `SeedInv`: nothing was removed "late" before the
  marker is set, nobody seeds beside another or after the marker (unless `together`), and what a
  seeder is done with has a row or was removed, which `HandledStep` says no step undoes.

Only model-checked: the liveness properties (`CandidateReaches`, `RunEnds`, `FetchEnds`, `SendEnds`,
`UpdatesConsumed`, `DayResumed`, `Decided`, `BootEnds`), which are out of the prover's reach.

## 6. Not modelled

- Scores, features and the agreement `/model` shows: real-valued arithmetic. `Model` has the
  counts they are computed from.
- The order of the candidates (score, recency): `Digest` takes any next listing, so its
  properties hold for every order; nothing is said of which one is best.
- URL normalisation, the page and contact parsers, the wording of cards, the decoding of
  `getUpdates`, configuration, logging: pure functions and I/O. `Chat` and `Validator` use URLs in
  normal form as model values.
- FlareSolverr and the TLS client: two exchanges without state; `Fetch` has their outcomes.
- What a migration's SQL does; the settings' defaults, which nobody reads; the command menu,
  whose failure is a log line; dry runs, which print.
- `/help`, `/list`, `/model`, group chats and unknown commands, which write nothing.
- A second card of a listing after an erasure (`Rating`), images of the CDN (`Fetch`).
- The probe tool, and `RunAll`, which only tests call.

## 7. Plan

Modelled and checked: all components with a state of their own. What is left, in this order:

1. Compositions: `Poller` over `Chat` and `Rating`, whose retries are folded in by hand today;
   `Digest` over `Send` and `Fetch`, so that the end of a run rests on the throttle and the gate;
   `Daily` over `Digest`, whose run is one outcome today.
2. An abstract specification of the gate (a semaphore with a clock), with its refinement.
3. The order of the candidates: that no search or user that finds a listing again makes it
   count as new, and that the cap defers none in favour of one known before it was published.
