-------------------------------- MODULE Send ---------------------------------
(***************************************************************************)
(* The sending half of the Telegram client: Notifier of                    *)
(* src/internal/telegram/telegram.go (Notify, throttle, sendPhoto,         *)
(* sendMessage, post, do) and the calls of updates.go and menu.go that go  *)
(* out through postForm.  Every goroutine of the bot shares one Notifier.  *)
(*                                                                         *)
(* Telegram may take a request, reject it (400), answer with another       *)
(* error, ask to be left alone for a while (429), or leave it unanswered,  *)
(* having shown the message or not.  Times are relative to now, as in      *)
(* module Fetch.  How long a 429 asks for does not matter here, so its     *)
(* wait takes any number of ticks.  Dry runs, which print, are left out.   *)
(***************************************************************************)
EXTENDS Naturals

CONSTANTS
    Sender,     \* goroutines that send
    Runner,     \* those that send cards, with Notify; the others send replies
    MinDelay,   \* Notifier.minDelay
    NoOne

ASSUME SendAssumption ==
    /\ Runner \subseteq Sender
    /\ MinDelay \in Nat
    /\ NoOne \notin Sender

VARIABLES
    pc,      \* where each goroutine is
    photo,   \* photo[p]: Notify has the bytes of the picture
    mu,      \* holder of Notifier.mu
    ready,   \* time until minDelay has passed since lastSent; 0 when it has
    wait,    \* wait[p]: how long p still sleeps in throttle
    shown,   \* history: messages of p's last call that reached the chat
    answer   \* history: what p's last call returned

vars == <<pc, photo, mu, ready, wait, shown, answer>>

\* "image": fetching the picture.  "queue": at the mutex.  "sleep": waiting
\* with the mutex held.  "sendPhoto" and "sendMessage": a request is out.
\* "holdPhoto" and "holdMessage": waiting as a 429 asked.
Location == {"idle", "image", "queue", "sleep", "sendPhoto", "sendMessage",
             "holdPhoto", "holdMessage"}

TypeOK ==
    /\ pc \in [Sender -> Location]
    /\ photo \in [Sender -> BOOLEAN]
    /\ mu \in Sender \cup {NoOne}
    /\ ready \in 0..MinDelay
    /\ wait \in [Sender -> 0..MinDelay]
    /\ shown \in [Sender -> Nat]
    /\ answer \in [Sender -> {"none", "nil", "error"}]

Init ==
    /\ pc = [p \in Sender |-> "idle"]
    /\ photo = [p \in Sender |-> FALSE]
    /\ mu = NoOne
    /\ ready = 0
    /\ wait = [p \in Sender |-> 0]
    /\ shown = [p \in Sender |-> 0]
    /\ answer = [p \in Sender |-> "none"]

-----------------------------------------------------------------------------
Goes(p, to) == pc' = [pc EXCEPT ![p] = to]

\* A card whose listing has a picture that may be fetched, a card without, or
\* a reply.
Call(p) ==
    /\ pc[p] = "idle"
    /\ \/ p \in Runner /\ (Goes(p, "image") \/ Goes(p, "queue"))
       \/ p \notin Runner /\ Goes(p, "sendMessage")
    /\ shown' = [shown EXCEPT ![p] = 0]
    /\ answer' = [answer EXCEPT ![p] = "none"]
    /\ UNCHANGED <<photo, mu, ready, wait>>

\* A picture that does not come is no reason not to send the card.
FetchImage(p, got) ==
    /\ pc[p] = "image"
    /\ photo' = [photo EXCEPT ![p] = got]
    /\ Goes(p, "queue")
    /\ UNCHANGED <<mu, ready, wait, shown, answer>>

\* The caller returns, with n messages of this call in the chat.
Return(p, result, n) ==
    /\ Goes(p, "idle")
    /\ photo' = [photo EXCEPT ![p] = FALSE]
    /\ shown' = [shown EXCEPT ![p] = n]
    /\ answer' = [answer EXCEPT ![p] = result]

-----------------------------------------------------------------------------
(* throttle.                                                               *)

\* lastSent is now, and the card goes out.
Pass(p) ==
    /\ ready' = MinDelay
    /\ Goes(p, IF photo[p] THEN "sendPhoto" ELSE "sendMessage")
    /\ UNCHANGED <<photo, shown, answer>>

\* Nobody was sent anything for a while.
PassAtOnce(p) ==
    /\ pc[p] = "queue"
    /\ mu = NoOne
    /\ ready = 0
    /\ Pass(p)
    /\ UNCHANGED <<mu, wait>>

\* Faulty: the mutex is given back for the sleep.
LockedBriefly(p) == UNCHANGED mu

\* The mutex stays taken until throttle returns.
Locked(p) == mu' = p

Sleep(p) ==
    /\ pc[p] = "queue"
    /\ mu = NoOne
    /\ ready > 0
    /\ Locked(p)
    /\ wait' = [wait EXCEPT ![p] = ready]
    /\ Goes(p, "sleep")
    /\ UNCHANGED <<photo, ready, shown, answer>>

Wake(p) ==
    /\ pc[p] = "sleep"
    /\ wait[p] = 0
    /\ Pass(p)
    /\ mu' = NoOne
    /\ UNCHANGED wait

\* Faulty: the return path of a cancelled wait does not unlock.
CancelledLocked(p) ==
    /\ pc[p] = "sleep"
    /\ wait' = [wait EXCEPT ![p] = 0]
    /\ Return(p, "error", shown[p])
    /\ UNCHANGED <<mu, ready>>

\* The context is done before the wait is over; lastSent stays.
Cancelled(p) ==
    /\ pc[p] = "sleep"
    /\ mu' = NoOne
    /\ wait' = [wait EXCEPT ![p] = 0]
    /\ Return(p, "error", shown[p])
    /\ UNCHANGED ready

-----------------------------------------------------------------------------
(* post, of either request.                                                *)

Out(p) == pc[p] \in {"sendPhoto", "sendMessage"}

Accepted(p) ==
    /\ Out(p)
    /\ Return(p, "nil", shown[p] + 1)
    /\ UNCHANGED <<mu, ready, wait>>

\* A picture or caption the API refuses: the card goes out as text.  A text it
\* refuses is an error.
Rejected(p) ==
    /\ Out(p)
    /\ IF pc[p] = "sendPhoto"
       THEN Goes(p, "sendMessage") /\ UNCHANGED <<photo, shown, answer>>
       ELSE Return(p, "error", shown[p])
    /\ UNCHANGED <<mu, ready, wait>>

\* Another error of the API: it has shown nothing.
Refused(p) ==
    /\ Out(p)
    /\ Return(p, "error", shown[p])
    /\ UNCHANGED <<mu, ready, wait>>

\* Faulty: the picture is given up after any error.
UnansweredFallsBack(p) ==
    /\ Out(p)
    /\ \E n \in {shown[p], shown[p] + 1} :
          IF pc[p] = "sendPhoto"
          THEN /\ Goes(p, "sendMessage")
               /\ shown' = [shown EXCEPT ![p] = n]
               /\ UNCHANGED <<photo, answer>>
          ELSE Return(p, "error", n)
    /\ UNCHANGED <<mu, ready, wait>>

\* A transport error, a timeout, a cancelled context or an answer that does not
\* decode.  The message may be in the chat.
Unanswered(p) ==
    /\ Out(p)
    /\ \E n \in {shown[p], shown[p] + 1} : Return(p, "error", n)
    /\ UNCHANGED <<mu, ready, wait>>

\* 429: the request waits, and nothing was shown.
TooMany(p) ==
    /\ Out(p)
    /\ Goes(p, IF pc[p] = "sendPhoto" THEN "holdPhoto" ELSE "holdMessage")
    /\ UNCHANGED <<photo, mu, ready, wait, shown, answer>>

Holding(p) == pc[p] \in {"holdPhoto", "holdMessage"}

\* The same request goes out again, past the throttle, and its answer is read
\* like the first one's.
Again(p) ==
    /\ Holding(p)
    /\ Goes(p, IF pc[p] = "holdPhoto" THEN "sendPhoto" ELSE "sendMessage")
    /\ UNCHANGED <<photo, mu, ready, wait, shown, answer>>

HoldCancelled(p) ==
    /\ Holding(p)
    /\ Return(p, "error", shown[p])
    /\ UNCHANGED <<mu, ready, wait>>

-----------------------------------------------------------------------------
Sooner(t) == IF t > 0 THEN t - 1 ELSE 0

Tick ==
    /\ ready' = Sooner(ready)
    /\ wait' = [p \in Sender |-> Sooner(wait[p])]
    /\ UNCHANGED <<pc, photo, mu, shown, answer>>

Throttle(p) == PassAtOnce(p) \/ Sleep(p)

Post(p) ==
    \/ Accepted(p) \/ Rejected(p) \/ Refused(p) \/ Unanswered(p) \/ TooMany(p)
    \/ Again(p)

Next ==
    \/ \E p \in Sender :
          \/ Call(p)
          \/ \E got \in BOOLEAN : FetchImage(p, got)
          \/ Throttle(p) \/ Wake(p) \/ Cancelled(p)
          \/ Post(p) \/ HoldCancelled(p)
    \/ Tick

Spec == Init /\ [][Next]_vars

\* Time passes, a waiter gets the mutex, fetches and requests time out.
Fairness ==
    /\ WF_vars(Tick)
    /\ \A p \in Sender :
          /\ SF_vars(Throttle(p))
          /\ WF_vars(Wake(p))
          /\ WF_vars(Post(p) \/ \E got \in BOOLEAN : FetchImage(p, got))

FairSpec == Spec /\ Fairness

-----------------------------------------------------------------------------
\* p leaves throttle with a card to send.
Passes(p) == pc[p] \in {"queue", "sleep"} /\ pc'[p] \in {"sendPhoto", "sendMessage"}

\* Two cards, whichever goroutines send them and whichever waits were broken
\* off, leave throttle minDelay apart (telegram.go:219-235).
CardsSpaced == [][\A p \in Sender : Passes(p) => ready = 0]_vars

\* A success is a message the chat shows once, an error one it shows at most
\* once: a 429 after a 429 is no success (telegram.go:307-310), and no picture
\* that may have arrived is followed by a text (telegram.go:140-142).
Promise ==
    INSTANCE Alert WITH open <- [p \in Sender |-> pc[p] # "idle"]

KeepsAlert == Promise!AlertSpec

\* A call comes to an end once Telegram stops asking that caller to wait,
\* whatever it asks of the others: no wait that is broken off keeps the mutex,
\* which the goroutines behind it could not leave (a mutex does not look at a
\* context), and nobody waits for a 429 with the mutex held.
SendEnds ==
    \A p \in Sender :
        <>[][~TooMany(p)]_vars => ((pc[p] # "idle") ~> (pc[p] = "idle"))
=============================================================================
