------------------------------- MODULE Rating -------------------------------
(***************************************************************************)
(* A thumb on a card: handleCallback of src/internal/chat/bot.go, with the *)
(* rating rows of src/internal/repo/ratings.go and the contact that a like *)
(* sends (src/internal/contact/extractor.go, src/internal/repo/contacts.go)*)
(*                                                                         *)
(* One poller takes the taps in turn (module Poller): a handler that fails *)
(* is run again from its start, is given up after MaxAttempts, and may be  *)
(* run again after a crash although it had ended.  Meanwhile a digest      *)
(* shows and records cards (module Digest).  At most one card of a listing *)
(* is shown to a user here; the taps on a second card are left out.        *)
(***************************************************************************)
EXTENDS Naturals, Sequences, FiniteSets

CONSTANTS
    User,
    Listing,
    MaxAttempts,  \* maxAttemptsPerUpdate
    MaxTaps,      \* bound on the taps of one behavior
    MaxFaults     \* bound on its crashes

ASSUME RatingAssumption ==
    /\ MaxAttempts \in Nat \ {0}
    /\ MaxTaps \in Nat
    /\ MaxFaults \in Nat

Label == {"like", "dislike"}
Tap   == [user : User, listing : Listing, label : Label]

VARIABLES
    delivery,  \* delivery[u][l]: status of the deliveries row, or "none"
    late,      \* late[u][l]: its sent_at is older than LateTapWindow
    rating,    \* rating[u][l]: the label of the ratings row, or "none"
    showing,   \* cards shown whose delivery is not recorded yet
    buttons,   \* buttons[u][l]: "none" before the card, then "on" or "off"
    note,      \* note[u][l]: the choice written on the card, or "none"
    taps,      \* the updates not consumed yet, oldest first
    made,      \* taps made so far
    pc,        \* where handleCallback is
    reply,     \* what it answers
    tries,     \* failures of the update at the head
    jobs,      \* goroutines in OnLike: [user, listing, at]
    contact,   \* contact[l]: fresh listing_contacts row: "none", "empty", "phone"
    told,      \* history: told[u][l], the labels a toast called saved
    spawned,   \* history: spawned[u][l], OnLike calls
    stumbled,  \* history: cards whose rating was recorded by a handler that
               \* did not come to its end
    faults

card    == <<showing, buttons, note>>
row     == <<delivery, late, rating>>
handler == <<taps, pc, reply, tries>>
likes   == <<jobs, contact>>
past    == <<told, spawned, stumbled, faults>>
vars    == <<delivery, late, rating, showing, buttons, note, taps, made, pc,
             reply, tries, jobs, contact, told, spawned, stumbled, faults>>

Location == {"idle", "answer", "record", "note", "clear", "advance"}
Reply    == {"none", "saved", "foreign", "already", "expired"}
Job      == [user : User, listing : Listing, at : {"look", "fetch", "send"}]

TypeOK ==
    /\ delivery \in [User -> [Listing -> {"none", "baseline", "sent", "rated"}]]
    /\ late \in [User -> [Listing -> BOOLEAN]]
    /\ rating \in [User -> [Listing -> Label \cup {"none"}]]
    /\ showing \subseteq User \X Listing
    /\ buttons \in [User -> [Listing -> {"none", "on", "off"}]]
    /\ note \in [User -> [Listing -> Label \cup {"none"}]]
    /\ taps \in Seq(Tap)
    /\ made \in 0..MaxTaps
    /\ pc \in Location
    /\ reply \in Reply
    /\ tries \in 0..MaxAttempts
    /\ jobs \subseteq Job
    /\ contact \in [Listing -> {"none", "empty", "phone"}]
    /\ told \in [User -> [Listing -> SUBSET Label]]
    /\ spawned \in [User -> [Listing -> Nat]]
    /\ stumbled \subseteq User \X Listing
    /\ faults \in 0..MaxFaults
    /\ pc # "idle" => taps # <<>>
    /\ pc \in {"record", "note"} => reply = "saved"
    /\ pc # "advance" => tries < MaxAttempts

PerCard(x) == [u \in User |-> [l \in Listing |-> x]]

Init ==
    /\ delivery = PerCard("none")
    /\ late = PerCard(FALSE)
    /\ rating = PerCard("none")
    /\ showing = {}
    /\ buttons = PerCard("none")
    /\ note = PerCard("none")
    /\ taps = <<>>
    /\ made = 0
    /\ pc = "idle"
    /\ reply = "none"
    /\ tries = 0
    /\ jobs = {}
    /\ contact = [l \in Listing |-> "none"]
    /\ told = PerCard({})
    /\ spawned = PerCard(0)
    /\ stumbled = {}
    /\ faults = 0

-----------------------------------------------------------------------------
(* The digest, the clock and the user.                                     *)

\* sendUndelivered: the card is in the chat, with its two buttons.
Show(u, l) ==
    /\ delivery[u][l] = "none"
    /\ buttons[u][l] = "none"
    /\ showing' = showing \cup {<<u, l>>}
    /\ buttons' = [buttons EXCEPT ![u][l] = "on"]
    /\ UNCHANGED <<row, note, handler, made, likes, past>>

MarkDelivered(u, l) ==
    /\ <<u, l>> \in showing
    /\ showing' = showing \ {<<u, l>>}
    /\ delivery' = [delivery EXCEPT ![u][l] = "sent"]
    /\ late' = [late EXCEPT ![u][l] = FALSE]
    /\ UNCHANGED <<rating, buttons, note, handler, made, likes, past>>

\* The record is not written: the card stays without a row.
MarkFails(u, l) ==
    /\ <<u, l>> \in showing
    /\ showing' = showing \ {<<u, l>>}
    /\ UNCHANGED <<row, buttons, note, handler, made, likes, past>>

\* The first index of another search finds the listing.  Its sent_at is NULL,
\* which RatingState reads as long ago.
Baseline(u, l) ==
    /\ delivery[u][l] = "none"
    /\ <<u, l>> \notin showing
    /\ delivery' = [delivery EXCEPT ![u][l] = "baseline"]
    /\ late' = [late EXCEPT ![u][l] = TRUE]
    /\ UNCHANGED <<rating, card, handler, made, likes, past>>

\* Two weeks pass.
Age(u, l) ==
    /\ delivery[u][l] # "none"
    /\ ~late[u][l]
    /\ late' = [late EXCEPT ![u][l] = TRUE]
    /\ UNCHANGED <<delivery, rating, card, handler, made, likes, past>>

Press(u, l, x) ==
    /\ made < MaxTaps
    /\ buttons[u][l] = "on"
    /\ made' = made + 1
    /\ taps' = Append(taps, [user |-> u, listing |-> l, label |-> x])
    /\ UNCHANGED <<row, card, pc, reply, tries, likes, past>>

\* /borrardatos, which the same loop handles between two taps.  The cards
\* stay in the chat.
DeleteUser(u) ==
    /\ pc = "idle"
    /\ delivery' = [delivery EXCEPT ![u] = [l \in Listing |-> "none"]]
    /\ late' = [late EXCEPT ![u] = [l \in Listing |-> FALSE]]
    /\ rating' = [rating EXCEPT ![u] = [l \in Listing |-> "none"]]
    /\ told' = [told EXCEPT ![u] = [l \in Listing |-> {}]]
    /\ UNCHANGED <<card, handler, made, likes, spawned, stumbled, faults>>

-----------------------------------------------------------------------------
(* handleCallback of the tap at the head.                                  *)

TapUser    == Head(taps).user
TapListing == Head(taps).listing
TapLabel   == Head(taps).label

\* Faulty: an earlier rating is not looked at.
VerdictRepeats(u, l) ==
    IF delivery[u][l] = "none" THEN "foreign"
    ELSE IF late[u][l] THEN "expired" ELSE "saved"

\* What RatingState means for the tap.
Verdict(u, l) ==
    IF delivery[u][l] = "none" THEN "foreign"
    ELSE IF rating[u][l] # "none" THEN "already"
    ELSE IF late[u][l] THEN "expired" ELSE "saved"

ReadState ==
    /\ pc = "idle"
    /\ taps # <<>>
    /\ reply' = Verdict(TapUser, TapListing)
    /\ pc' = "answer"
    /\ UNCHANGED <<row, card, taps, made, tries, likes, past>>

\* Faulty: one more attempt than allowed.
FailOnceMore ==
    /\ tries' = tries + 1
    /\ pc' = IF tries + 1 > MaxAttempts THEN "advance" ELSE "idle"
    /\ reply' = "none"
    /\ UNCHANGED <<taps, made, likes, spawned, faults>>

\* The handler returns an error: again, or given up.
Fail ==
    /\ tries' = tries + 1
    /\ pc' = IF tries + 1 >= MaxAttempts THEN "advance" ELSE "idle"
    /\ reply' = "none"
    /\ UNCHANGED <<taps, made, likes, spawned, faults>>

StateFails ==
    /\ pc = "idle"
    /\ taps # <<>>
    /\ Fail
    /\ UNCHANGED <<row, card, told, stumbled>>

Toast == IF reply = "saved"
         THEN [told EXCEPT ![TapUser][TapListing] = @ \cup {TapLabel}]
         ELSE told

\* AnswerCallbackQuery comes before anything is written.
Answer ==
    /\ pc = "answer"
    /\ told' = Toast
    /\ pc' = CASE reply = "saved"   -> "record"
               [] reply = "expired" -> "clear"
               [] OTHER             -> "advance"
    /\ UNCHANGED <<row, card, taps, reply, made, tries, likes, spawned, stumbled, faults>>

\* An error, although the toast may have come up.
AnswerFails ==
    /\ pc = "answer"
    /\ told' \in {told, Toast}
    /\ Fail
    /\ UNCHANGED <<row, card, stumbled>>

\* Faulty: the rating is not written with the status, in one transaction.
RatingOnly ==
    /\ rating' = [rating EXCEPT ![TapUser][TapListing] = TapLabel]
    /\ UNCHANGED <<delivery, late>>

\* The two writes of RecordRating.
RecordRating ==
    /\ rating' = [rating EXCEPT ![TapUser][TapListing] = TapLabel]
    /\ delivery' = [delivery EXCEPT ![TapUser][TapListing] = "rated"]
    /\ UNCHANGED late

Record ==
    /\ pc = "record"
    /\ RecordRating
    /\ pc' = "note"
    /\ UNCHANGED <<card, taps, reply, made, tries, likes, past>>

\* Faulty: a failed write is taken for a success.
RecordFailsUnseen ==
    /\ pc = "record"
    /\ pc' = "note"
    /\ UNCHANGED <<row, card, taps, reply, made, tries, likes, past>>

\* The tap at the head has its rating, and its handler goes no further.
Stumbles == stumbled' = stumbled \cup {<<TapUser, TapListing>>}

\* An error, although the commit may have gone through.
RecordFails ==
    /\ pc = "record"
    /\ \/ RecordRating /\ Stumbles
       \/ UNCHANGED <<row, stumbled>>
    /\ Fail
    /\ UNCHANGED <<card, told>>

\* confirmRatingOnCard: best effort, and not on a card that has a note already.
Confirm ==
    /\ pc = "note"
    /\ \/ UNCHANGED note
       \/ /\ note[TapUser][TapListing] # "like"
          /\ note' = [note EXCEPT ![TapUser][TapListing] = TapLabel]
    /\ pc' = "clear"
    /\ UNCHANGED <<row, showing, buttons, taps, reply, made, tries, likes, past>>

Revoked == [buttons EXCEPT ![TapUser][TapListing] = "off"]

\* Faulty: the contact of a like is not asked for.
ClearKeyboardOnly ==
    /\ pc = "clear"
    /\ buttons' = Revoked
    /\ pc' = "advance"
    /\ UNCHANGED <<row, showing, note, taps, reply, made, tries, likes, past>>

\* The keyboard is revoked, and a like starts a goroutine in OnLike.
ClearKeyboard ==
    /\ pc = "clear"
    /\ buttons' = Revoked
    /\ IF reply = "saved" /\ TapLabel = "like"
       THEN /\ jobs' = jobs \cup {[user |-> TapUser, listing |-> TapListing, at |-> "look"]}
            /\ spawned' = [spawned EXCEPT ![TapUser][TapListing] = @ + 1]
       ELSE UNCHANGED <<jobs, spawned>>
    /\ pc' = "advance"
    /\ UNCHANGED <<row, showing, note, taps, reply, made, tries, contact, told,
                   stumbled, faults>>

ClearFails ==
    /\ pc = "clear"
    /\ buttons' \in {buttons, Revoked}
    /\ Stumbles
    /\ Fail
    /\ UNCHANGED <<row, showing, note, told>>

\* The offset moves past the tap, handled or given up.
Advance ==
    /\ pc = "advance"
    /\ taps' = Tail(taps)
    /\ pc' = "idle"
    /\ reply' = "none"
    /\ tries' = 0
    /\ UNCHANGED <<row, card, made, likes, past>>

\* The process dies and comes back: the tap at the head is handled anew.
Crash ==
    /\ faults < MaxFaults
    /\ faults' = faults + 1
    /\ pc' = "idle"
    /\ reply' = "none"
    /\ tries' = 0
    /\ jobs' = {}
    /\ showing' = {}
    /\ IF pc \in {"note", "clear"} THEN Stumbles ELSE UNCHANGED stumbled
    /\ UNCHANGED <<row, buttons, note, taps, made, contact, told, spawned>>

-----------------------------------------------------------------------------
(* OnLike.                                                                 *)

Gone(j) == jobs' = jobs \ {j}
Goes(j, to) == jobs' = (jobs \ {j}) \cup {[j EXCEPT !.at = to]}

\* GetContact: a fresh row is used, also one that says there is no phone.
LookUp(j) ==
    /\ j.at = "look"
    /\ CASE contact[j.listing] = "none"  -> Goes(j, "fetch")
         [] contact[j.listing] = "empty" -> Gone(j)
         [] contact[j.listing] = "phone" -> Goes(j, "send")
    /\ UNCHANGED <<row, card, handler, made, contact, told, spawned, stumbled, faults>>

\* fetchContact: the page was read and what it has saved.
PageRead(j, found) ==
    /\ j.at = "fetch"
    /\ contact' = [contact EXCEPT ![j.listing] = found]
    /\ IF found = "phone" THEN Goes(j, "send") ELSE Gone(j)
    /\ UNCHANGED <<row, card, handler, made, told, spawned, stumbled, faults>>

\* A statement or the fetch failed, or the message is sent: the call is over.
LikeEnds(j) ==
    /\ Gone(j)
    /\ UNCHANGED <<row, card, handler, made, contact, told, spawned, stumbled, faults>>

\* The row is older than ContactTTL.
Expire(l) ==
    /\ contact[l] # "none"
    /\ contact' = [contact EXCEPT ![l] = "none"]
    /\ UNCHANGED <<row, card, handler, made, jobs, told, spawned, stumbled, faults>>

-----------------------------------------------------------------------------
HandleCallback ==
    \/ ReadState \/ StateFails
    \/ Answer \/ AnswerFails
    \/ Record \/ RecordFails
    \/ Confirm
    \/ ClearKeyboard \/ ClearFails
    \/ Advance

OnLike ==
    \E j \in jobs :
        \/ LookUp(j)
        \/ \E found \in {"empty", "phone"} : PageRead(j, found)
        \/ LikeEnds(j)

Next ==
    \/ \E u \in User, l \in Listing :
           \/ Show(u, l) \/ MarkDelivered(u, l) \/ MarkFails(u, l)
           \/ Baseline(u, l) \/ Age(u, l)
           \/ \E x \in Label : Press(u, l, x)
    \/ \E u \in User : DeleteUser(u)
    \/ HandleCallback
    \/ OnLike
    \/ \E l \in Listing : Expire(l)
    \/ Crash

Spec == Init /\ [][Next]_vars

-----------------------------------------------------------------------------
\* The rating and the status of the delivery agree, for the two readers of the
\* rows: a card that is rated is never recorded as merely sent afterwards
\* (ratings.go:18-20).
RatedTogether ==
    \A u \in User, l \in Listing : rating[u][l] # "none" <=> delivery[u][l] = "rated"

\* First tap wins (bot.go:199-202): no later tap, retry or replay changes a
\* rating, and only the user's own data deletion takes it away.
FirstTapWins ==
    [][\A u \in User, l \in Listing :
        rating[u][l] # "none" =>
            rating'[u][l] = rating[u][l] \/ (delivery'[u][l] = "none" /\ rating'[u][l] = "none")]_vars

\* The tap that has just been handled or given up, with no crash in sight.
Consumed(u, l) == pc = "advance" /\ TapUser = u /\ TapListing = l

\* What the user is told is what the table says: the choice written on a card
\* is the one that is recorded, as long as the user's rows are there, and a tap
\* that was called saved is recorded when its update is done, unless it was
\* given up after its attempts, or the card grew too old between two of them
\* (telegram.md:48-50: never answer "saved" to a tap that is discarded).
ToldTruthful ==
    \A u \in User, l \in Listing :
        /\ note[u][l] # "none" /\ rating[u][l] # "none" => note[u][l] = rating[u][l]
        /\ Consumed(u, l) /\ TapLabel \in told[u][l] =>
              rating[u][l] # "none" \/ tries = MaxAttempts \/ reply = "expired"

\* A like that is recorded has its keyboard revoked and its contact asked for
\* when its update is done, unless a handler failed or died between the two
\* (telegram.md:39, README.md:23); and the contact is asked for once, however
\* often the update is retried, replayed or the button pressed (bot.go:200-201).
LikeGetsContact ==
    \A u \in User, l \in Listing :
        /\ Consumed(u, l) /\ rating[u][l] = "like" /\ <<u, l>> \notin stumbled =>
              spawned[u][l] = 1 /\ buttons[u][l] = "off"
        /\ spawned[u][l] <= 1
=============================================================================
