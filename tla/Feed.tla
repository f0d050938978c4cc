-------------------------------- MODULE Feed --------------------------------
(***************************************************************************)
(* What the bot promises about the updates users send it, with no          *)
(* instances, leases, offsets or batches in it: they are taken in turn,    *)
(* each is tried until a handler succeeds or Limit attempts have failed,   *)
(* and only then is it passed for good.  The package comment of            *)
(* src/internal/chat/bot.go:3-7 and :30-33 state this contract.            *)
(***************************************************************************)
EXTENDS Naturals

CONSTANTS
    Last,    \* how many updates are sent
    Limit    \* attempts an update gets

VARIABLES
    sent,      \* updates sent so far: 1..sent
    served,    \* served[u]: how often a handler of u succeeded
    tries,     \* tries[u]: how often one failed, up to Limit
    givenUp,   \* updates nobody will try again
    passed     \* 1..passed will not be delivered to a new poller again

feedVars == <<sent, served, tries, givenUp, passed>>

FeedInit ==
    /\ sent = 0
    /\ served = [u \in 1..Last |-> 0]
    /\ tries = [u \in 1..Last |-> 0]
    /\ givenUp = {}
    /\ passed = 0

Over(u) == served[u] > 0 \/ u \in givenUp

\* All that was sent before is over.  An update that is over may have its turn
\* once more, but never ahead of another.
Turn(u) == u <= sent /\ \A v \in 1..u-1 : Over(v)

Send ==
    /\ sent < Last
    /\ sent' = sent + 1
    /\ UNCHANGED <<served, tries, givenUp, passed>>

Serve(u) ==
    /\ Turn(u)
    /\ served' = [served EXCEPT ![u] = served[u] + 1]
    /\ UNCHANGED <<sent, tries, givenUp, passed>>

TryAgain(u) ==
    /\ Turn(u)
    /\ tries' = [tries EXCEPT ![u] = IF tries[u] < Limit THEN tries[u] + 1 ELSE Limit]
    /\ UNCHANGED <<sent, served, givenUp, passed>>

\* Not an attempt earlier than Limit.
GiveUp(u) ==
    /\ Turn(u)
    /\ tries[u] + 1 >= Limit
    /\ tries' = [tries EXCEPT ![u] = Limit]
    /\ givenUp' = givenUp \cup {u}
    /\ UNCHANGED <<sent, served, passed>>

Pass(n) ==
    /\ n > passed
    /\ \A u \in 1..n : Over(u)
    /\ passed' = n
    /\ UNCHANGED <<sent, served, tries, givenUp>>

FeedNext ==
    \/ Send
    \/ \E u \in 1..Last : Serve(u) \/ TryAgain(u) \/ GiveUp(u) \/ Pass(u)

FeedSpec == FeedInit /\ [][FeedNext]_feedVars
=============================================================================
