-------------------------------- MODULE Chat --------------------------------
(***************************************************************************)
(* The conversation with one user: handleMessage of                        *)
(* src/internal/chat/bot.go, the flow of src/internal/chat/onboarding.go   *)
(* and /buscar of src/internal/chat/search.go, over users and search_urls  *)
(* (src/internal/repo/onboarding.go).                                      *)
(*                                                                         *)
(* The poller hands over one message at a time (module Poller).  What a    *)
(* handler writes comes before its reply, and a reply that fails makes the *)
(* poller run the handler again, up to MaxAttempts times; so does a crash  *)
(* before the offset is written, even after a handler that succeeded.      *)
(* /help, /list and /model write nothing and are left out.                 *)
(***************************************************************************)
EXTENDS Naturals, FiniteSets

CONSTANTS
    URL,          \* pages of the portal a user may send, each in normal form
    ShortURL,     \* those whose text would do as a label: 40 characters, no comma
    Name,         \* texts that will do as a label
    Junk,         \* texts that are neither a URL nor a label
    MaxSearches,  \* MaxSearchURLsPerUser
    MaxAttempts,  \* maxAttemptsPerUpdate
    MaxFaults,    \* bound on crashes
    None

ASSUME ChatAssumption ==
    /\ IsFiniteSet(URL)
    /\ ShortURL \subseteq URL
    /\ MaxSearches \in Nat \ {0}
    /\ MaxAttempts \in Nat \ {0}
    /\ MaxFaults \in Nat
    /\ None \notin URL \cup Name \cup Junk
    /\ URL \cap (Name \cup Junk) = {}
    /\ Name \cap Junk = {}

VARIABLES
    state,     \* users.state, "none" without a row
    active,    \* users.active, the operator's switch
    scratch,   \* users.state_data: the URL that waits for its label
    label,     \* label[x]: label of the search_urls row of x, or None
    pc,        \* "wait" for a message, "handle" it, "advance" the offset
    msg,       \* the message being handled, or NoMessage
    tries,     \* failures of its handler
    claim,     \* Poller.lastSearch: "none", "recent" or "old"
    lastRun,   \* history: the last manual run: "none", "recent" or "old"
    said,      \* history: what the runs of the handler answered to msg
    restarted, \* history: the process came back within the last hour
    faults

rows == <<state, active, scratch, label>>
vars == <<state, active, scratch, label, pc, msg, tries, claim, lastRun, said,
          restarted, faults>>

Label   == Name \cup ShortURL
State   == {"none", "idle", "await_url", "await_label", "ready", "stopped"}
Command == {"/start", "/stop", "/addurl", "/buscar", "/borrardatos"}
Message == ({"command"} \X Command) \cup ({"/rmurl"} \X Label)
             \cup ({"text"} \X (URL \cup Name \cup Junk))
NoMessage == <<None, None>>

Answer == {"send the url", "send /start", "which name", "saved", "limit", "taken",
           "bad name", "removed", "not found", "paused", "deleted", "not enabled",
           "nothing to search", "searching", "just searched"}

TypeOK ==
    /\ state \in State
    /\ active \in BOOLEAN
    /\ scratch \in URL \cup {None}
    /\ label \in [URL -> Label \cup {None}]
    /\ pc \in {"wait", "handle", "advance"}
    /\ msg \in Message \cup {NoMessage}
    /\ tries \in 0..MaxAttempts - 1
    /\ claim \in {"none", "recent", "old"}
    /\ lastRun \in {"none", "recent", "old"}
    /\ said \subseteq Answer
    /\ restarted \in BOOLEAN
    /\ faults \in 0..MaxFaults
    /\ pc = "wait" <=> msg = NoMessage
    /\ pc = "wait" => tries = 0 /\ said = {}
    /\ state = "none" => label = [x \in URL |-> None]

Init ==
    /\ state = "none"
    /\ active = TRUE
    /\ scratch = None
    /\ label = [x \in URL |-> None]
    /\ pc = "wait"
    /\ msg = NoMessage
    /\ tries = 0
    /\ claim = "none"
    /\ lastRun = "none"
    /\ said = {}
    /\ restarted = FALSE
    /\ faults = 0

-----------------------------------------------------------------------------
(* The user writes, the operator flips the switch, an hour goes by.        *)

Receive(m) ==
    /\ pc = "wait"
    /\ pc' = "handle"
    /\ msg' = m
    /\ UNCHANGED <<rows, tries, claim, lastRun, said, restarted, faults>>

SetActive ==
    /\ state # "none"
    /\ active' = ~active
    /\ UNCHANGED <<state, scratch, label, pc, msg, tries, claim, lastRun, said,
                   restarted, faults>>

Aged(x) == IF x = "recent" THEN "old" ELSE x

Hour ==
    /\ claim' = Aged(claim)
    /\ lastRun' = Aged(lastRun)
    /\ restarted' = FALSE
    /\ UNCHANGED <<rows, pc, msg, tries, said, faults>>

\* The claims are in memory; the message at hand comes again.
Crash ==
    /\ faults < MaxFaults
    /\ faults' = faults + 1
    /\ claim' = "none"
    /\ tries' = 0
    /\ restarted' = TRUE
    /\ pc' = IF pc = "advance" THEN "handle" ELSE pc
    /\ UNCHANGED <<rows, msg, lastRun, said>>

-----------------------------------------------------------------------------
(* A run of a handler.                                                     *)

\* The handler returns nil, or is given up.
Ends(answers) == pc' = "advance" /\ said' = answers /\ UNCHANGED <<msg, tries>>

\* Faulty: one attempt too many.
FailsOnceMore(answers) ==
    IF tries + 1 > MaxAttempts
    THEN Ends(answers)
    ELSE tries' = tries + 1 /\ said' = answers /\ UNCHANGED <<pc, msg>>

\* The handler returns an error: once more, or given up.
Fails(answers) ==
    IF tries + 1 >= MaxAttempts
    THEN Ends(answers)
    ELSE tries' = tries + 1 /\ said' = answers /\ UNCHANGED <<pc, msg>>

\* The reply reaches the chat, or its failure is the handler's.
Reply(r) == Ends(said \cup {r}) \/ Fails(said \cup {r})

Advance ==
    /\ pc = "advance"
    /\ pc' = "wait"
    /\ msg' = NoMessage
    /\ tries' = 0
    /\ said' = {}
    /\ UNCHANGED <<rows, claim, lastRun, restarted, faults>>

\* A statement failed before anything was written.
ReadFails ==
    /\ pc = "handle"
    /\ Fails(said)
    /\ UNCHANGED <<rows, claim, lastRun, restarted, faults>>

SetUserState(to, url) == state' = to /\ scratch' = url

\* EnsureUser of a user without a row; the switch is on by default.
EnsureUser ==
    active' = IF state = "none" THEN TRUE ELSE active

StartOnboarding ==
    /\ pc = "handle"
    /\ msg = <<"command", "/start">>
    /\ EnsureUser
    /\ SetUserState("await_url", None)
    /\ Reply("send the url")
    /\ UNCHANGED <<label, claim, lastRun, restarted, faults>>

Count == Cardinality({x \in URL : label[x] # None})

\* addURL: nothing changes for a user who has all searches already.
AddURL ==
    /\ pc = "handle"
    /\ msg = <<"command", "/addurl">>
    /\ EnsureUser
    /\ IF Count >= MaxSearches
       THEN UNCHANGED <<state, scratch>> /\ Reply("limit")
       ELSE SetUserState("await_url", None) /\ Reply("send the url")
    /\ UNCHANGED <<label, claim, lastRun, restarted, faults>>

\* The row was inserted by /start or /addurl, and the next statement failed.
EnsuredOnly ==
    /\ pc = "handle"
    /\ msg \in {<<"command", "/start">>, <<"command", "/addurl">>}
    /\ state = "none"
    /\ EnsureUser
    /\ SetUserState("idle", None)
    /\ Fails(said)
    /\ UNCHANGED <<label, claim, lastRun, restarted, faults>>

\* handleConversationInput before it looks at the state: a text without /start.
Stranger ==
    /\ pc = "handle"
    /\ msg[1] = "text"
    /\ state = "none"
    /\ Reply("send /start")
    /\ UNCHANGED <<rows, claim, lastRun, restarted, faults>>

\* beginSearchFromURL, in any other state than await_label.
BeginSearch(x) ==
    /\ pc = "handle"
    /\ msg = <<"text", x>>
    /\ state \notin {"none", "await_label"}
    /\ SetUserState("await_label", x)
    /\ Reply("which name")
    /\ UNCHANGED <<active, label, claim, lastRun, restarted, faults>>

Guidance ==
    /\ pc = "handle"
    /\ msg[1] = "text"
    /\ msg[2] \notin URL
    /\ state \notin {"none", "await_label"}
    /\ Reply("send the url")
    /\ UNCHANGED <<rows, claim, lastRun, restarted, faults>>

\* completeSearchWithLabel: too long, empty or with a comma.
BadName ==
    /\ pc = "handle"
    /\ msg[1] = "text"
    /\ msg[2] \notin Label
    /\ state = "await_label"
    /\ Reply("bad name")
    /\ UNCHANGED <<rows, claim, lastRun, restarted, faults>>

Completes(n) ==
    /\ pc = "handle"
    /\ msg = <<"text", n>>
    /\ state = "await_label"
    /\ scratch # None

\* Faulty: the cap is compared one too late.
FullPlusOne == label[scratch] = None /\ Count > MaxSearches

\* AddSearchURLChecked finds no room for one more.  (Below, the state of a
\* user who is at the limit is written without a look at the error.)
Full == label[scratch] = None /\ Count >= MaxSearches

LimitReached(n) ==
    /\ Completes(n)
    /\ Full
    /\ SetUserState("ready", None) \/ UNCHANGED <<state, scratch>>
    /\ Reply("limit")
    /\ UNCHANGED <<active, label, claim, lastRun, restarted, faults>>

\* The unique index on user and label.
Taken(n) == \E x \in URL \ {scratch} : label[x] = n

LabelTaken(n) ==
    /\ Completes(n)
    /\ ~Full
    /\ Taken(n)
    /\ Reply("taken")
    /\ UNCHANGED <<rows, claim, lastRun, restarted, faults>>

\* Faulty: ON CONFLICT DO NOTHING.
AddSearchIgnores(n) ==
    /\ Completes(n)
    /\ ~Full
    /\ ~Taken(n)
    /\ label' = IF label[scratch] = None THEN [label EXCEPT ![scratch] = n] ELSE label

\* The row is inserted, or takes the new label if the search was there.
AddSearch(n) ==
    /\ Completes(n)
    /\ ~Full
    /\ ~Taken(n)
    /\ label' = [label EXCEPT ![scratch] = n]

SearchAdded(n) ==
    /\ AddSearch(n)
    /\ SetUserState("ready", None)
    /\ Reply("saved")
    /\ UNCHANGED <<active, claim, lastRun, restarted, faults>>

\* The row is in, and the state could not be written.
SearchAddedOnly(n) ==
    /\ AddSearch(n)
    /\ Fails(said)
    /\ UNCHANGED <<state, active, scratch, claim, lastRun, restarted, faults>>

RemoveURL(n) ==
    /\ pc = "handle"
    /\ msg = <<"/rmurl", n>>
    /\ label' = [x \in URL |-> IF label[x] = n THEN None ELSE label[x]]
    /\ Reply(IF \E x \in URL : label[x] = n THEN "removed" ELSE "not found")
    /\ UNCHANGED <<state, active, scratch, claim, lastRun, restarted, faults>>

\* setStopped: an update that a user without a row does not notice.  The
\* scratch data stays.
Stop ==
    /\ pc = "handle"
    /\ msg = <<"command", "/stop">>
    /\ state' = IF state = "none" THEN "none" ELSE "stopped"
    /\ Reply("paused")
    /\ UNCHANGED <<active, scratch, label, claim, lastRun, restarted, faults>>

DeleteEverything ==
    /\ pc = "handle"
    /\ msg = <<"command", "/borrardatos">>
    /\ SetUserState("none", None)
    /\ label' = [x \in URL |-> None]
    /\ Reply("deleted")
    /\ UNCHANGED <<active, claim, lastRun, restarted, faults>>

-----------------------------------------------------------------------------
(* /buscar.                                                                *)

Refusal ==
    CASE state = "none"    -> "send /start"
      [] state = "stopped" -> "paused"
      [] ~active           -> "not enabled"
      [] OTHER             -> "nothing to search"

\* One of the gates is closed.  The searches may all wait for the validator.
SearchRefused ==
    /\ pc = "handle"
    /\ msg = <<"command", "/buscar">>
    /\ Reply(Refusal)
    /\ UNCHANGED <<rows, claim, lastRun, restarted, faults>>

Admitted ==
    /\ pc = "handle"
    /\ msg = <<"command", "/buscar">>
    /\ state \notin {"none", "stopped"}
    /\ active
    /\ Count > 0

SearchTooSoon ==
    /\ Admitted
    /\ claim = "recent"
    /\ Reply("just searched")
    /\ UNCHANGED <<rows, claim, lastRun, restarted, faults>>

\* Faulty: only the first run of a user is recorded.
ClaimFirst == claim' = IF claim = "none" THEN "recent" ELSE claim

\* claimSearchRun stores the time.
Claim == claim' = "recent"

\* The claim comes first, then the reply, and then the run (module Digest).
SearchStarts ==
    /\ Admitted
    /\ claim # "recent"
    /\ Claim
    /\ Ends(said \cup {"searching"})
    /\ lastRun' = "recent"
    /\ UNCHANGED <<rows, restarted, faults>>

SearchUnanswered ==
    /\ Admitted
    /\ claim # "recent"
    /\ Claim
    /\ Fails(said \cup {"searching"})
    /\ UNCHANGED <<rows, lastRun, restarted, faults>>

-----------------------------------------------------------------------------
HandleMessage ==
    \/ ReadFails
    \/ StartOnboarding \/ AddURL \/ EnsuredOnly
    \/ Stranger \/ Guidance \/ BadName
    \/ \E x \in URL : BeginSearch(x)
    \/ \E n \in Label : \/ LimitReached(n) \/ LabelTaken(n)
                        \/ SearchAdded(n) \/ SearchAddedOnly(n)
                        \/ RemoveURL(n)
    \/ Stop \/ DeleteEverything
    \/ SearchRefused \/ SearchTooSoon \/ SearchStarts \/ SearchUnanswered

Next ==
    \/ \E m \in Message : Receive(m)
    \/ SetActive
    \/ Hour
    \/ Crash
    \/ HandleMessage
    \/ Advance

Spec == Init /\ [][Next]_vars

-----------------------------------------------------------------------------
\* The cap on the searches holds through retries, replays and relabelling
\* (repo/onboarding.go:20-22).
CapHolds == Count <= MaxSearches

\* A manual run does not begin within the hour of the last one, unless the
\* bot was started again in between (search.go:14-16).
RunsSpaced ==
    [][SearchStarts => lastRun # "recent" \/ restarted]_vars

\* What the handlers of one message have told the user is so, however many of
\* them ran and wherever they failed (chat/onboarding.go:133-161, 239-271).
\* The claim of a run that could not be announced is the exception: a retry
\* says "just searched" of it.  And a conversation that waits for a label knows
\* the URL it is for: the bot never says that it has lost it
\* (chat/onboarding.go:126-131).
AnswersTrue ==
    /\ state = "await_label" => scratch # None
    /\ "saved" \in said => \E x \in URL : label[x] = msg[2]
    /\ "taken" \in said => \E x \in URL : label[x] = msg[2]
    /\ "removed" \in said => \A x \in URL : label[x] # msg[2]
    /\ "limit" \in said => Count = MaxSearches
    /\ "deleted" \in said => state = "none"
=============================================================================
