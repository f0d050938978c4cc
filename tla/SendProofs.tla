----------------------------- MODULE SendProofs ------------------------------
(***************************************************************************)
(* Theorems about module Send, for any set of goroutines and any spacing.  *)
(***************************************************************************)
EXTENDS Send, TLAPS

\* Times count down and stay within the spacing.
LEMMA SoonerType == \A t \in 0..MinDelay : Sooner(t) \in 0..MinDelay /\ Sooner(t) <= t
<1> MinDelay \in Nat BY SendAssumption
<1> QED BY DEF Sooner

LEMMA TypeInit == Init => TypeOK
BY SendAssumption DEF Init, TypeOK, Location

LEMMA TypeStep == TypeOK /\ [Next]_vars => TypeOK'
<1> SUFFICES ASSUME TypeOK, [Next]_vars PROVE TypeOK'
    OBVIOUS
<1> MinDelay \in Nat /\ Runner \subseteq Sender
    BY SendAssumption
<1> USE DEF TypeOK, Location, Goes, Return
<1>1. ASSUME NEW p \in Sender, Call(p) PROVE TypeOK'
    BY <1>1 DEF Call
<1>2. ASSUME NEW p \in Sender, NEW got \in BOOLEAN, FetchImage(p, got) PROVE TypeOK'
    BY <1>2 DEF FetchImage
<1>3. ASSUME NEW p \in Sender, Throttle(p) PROVE TypeOK'
    BY <1>3 DEF Throttle, PassAtOnce, Pass, Sleep, Locked
<1>4. ASSUME NEW p \in Sender, Wake(p) PROVE TypeOK'
    BY <1>4 DEF Wake, Pass
<1>5. ASSUME NEW p \in Sender, Cancelled(p) PROVE TypeOK'
    BY <1>5 DEF Cancelled
<1>6. ASSUME NEW p \in Sender, Post(p) PROVE TypeOK'
    <2>1. CASE Accepted(p) BY <2>1 DEF Accepted, Out
    <2>2. CASE Rejected(p) BY <2>2 DEF Rejected, Out
    <2>3. CASE Refused(p) BY <2>3 DEF Refused, Out
    <2>4. CASE Unanswered(p) BY <2>4 DEF Unanswered, Out
    <2>5. CASE TooMany(p) BY <2>5 DEF TooMany, Out
    <2>6. CASE Again(p) BY <2>6 DEF Again, Holding
    <2> QED BY <1>6, <2>1, <2>2, <2>3, <2>4, <2>5, <2>6 DEF Post
<1>7. ASSUME NEW p \in Sender, HoldCancelled(p) PROVE TypeOK'
    BY <1>7 DEF HoldCancelled, Holding
<1>8. CASE Tick
    BY <1>8, SoonerType DEF Tick
<1>9. CASE UNCHANGED vars
    BY <1>9 DEF vars
<1> QED
    BY <1>1, <1>2, <1>3, <1>4, <1>5, <1>6, <1>7, <1>8, <1>9 DEF Next

\* Every variable keeps to its values.
THEOREM TypeCorrect == Spec => []TypeOK
BY TypeInit, TypeStep, PTL DEF Spec

-----------------------------------------------------------------------------
\* A goroutine that sleeps in throttle holds the mutex, and does not wake
\* before the spacing is over: nobody else could start it anew meanwhile.
SleeperHolds ==
    \A p \in Sender : pc[p] = "sleep" => mu = p /\ wait[p] >= ready

LEMMA SleeperInit == Init => SleeperHolds
BY DEF Init, SleeperHolds

LEMMA SleeperStep == TypeOK /\ SleeperHolds /\ [Next]_vars => SleeperHolds'
<1> SUFFICES ASSUME TypeOK, SleeperHolds, [Next]_vars PROVE SleeperHolds'
    OBVIOUS
<1> MinDelay \in Nat /\ NoOne \notin Sender
    BY SendAssumption
<1> USE DEF TypeOK, SleeperHolds, Goes, Return
<1>1. ASSUME NEW p \in Sender, Call(p) PROVE SleeperHolds'
    BY <1>1 DEF Call
<1>2. ASSUME NEW p \in Sender, NEW got \in BOOLEAN, FetchImage(p, got) PROVE SleeperHolds'
    BY <1>2 DEF FetchImage
<1>3. ASSUME NEW p \in Sender, Throttle(p) PROVE SleeperHolds'
    <2>1. CASE PassAtOnce(p) BY <2>1 DEF PassAtOnce, Pass
    <2>2. CASE Sleep(p) BY <2>2 DEF Sleep, Locked
    <2> QED BY <1>3, <2>1, <2>2 DEF Throttle
<1>4. ASSUME NEW p \in Sender, Wake(p) PROVE SleeperHolds'
    BY <1>4 DEF Wake, Pass
<1>5. ASSUME NEW p \in Sender, Cancelled(p) PROVE SleeperHolds'
    BY <1>5 DEF Cancelled
<1>6. ASSUME NEW p \in Sender, Post(p) PROVE SleeperHolds'
    <2>1. CASE Accepted(p) BY <2>1 DEF Accepted, Out
    <2>2. CASE Rejected(p) BY <2>2 DEF Rejected, Out
    <2>3. CASE Refused(p) BY <2>3 DEF Refused, Out
    <2>4. CASE Unanswered(p) BY <2>4 DEF Unanswered, Out
    <2>5. CASE TooMany(p) BY <2>5 DEF TooMany, Out
    <2>6. CASE Again(p) BY <2>6 DEF Again, Holding
    <2> QED BY <1>6, <2>1, <2>2, <2>3, <2>4, <2>5, <2>6 DEF Post
<1>7. ASSUME NEW p \in Sender, HoldCancelled(p) PROVE SleeperHolds'
    BY <1>7 DEF HoldCancelled, Holding
<1>8. CASE Tick
    BY <1>8 DEF Tick, Sooner
<1>9. CASE UNCHANGED vars
    BY <1>9 DEF vars
<1> QED
    BY <1>1, <1>2, <1>3, <1>4, <1>5, <1>6, <1>7, <1>8, <1>9 DEF Next

THEOREM SleeperHoldsAlways == Spec => []SleeperHolds
BY SleeperInit, SleeperStep, TypeCorrect, PTL DEF Spec

\* Cards leave throttle minDelay apart (telegram.go:219-235), for any number of
\* goroutines and any spacing.
THEOREM Spaced == Spec => CardsSpaced
<1>1. TypeOK /\ SleeperHolds /\ [Next]_vars => [\A p \in Sender : Passes(p) => ready = 0]_vars
    <2> SUFFICES ASSUME TypeOK, SleeperHolds, Next, NEW p \in Sender, Passes(p)
                 PROVE ready = 0
        OBVIOUS
    <2> MinDelay \in Nat
        BY SendAssumption
    <2> USE DEF TypeOK, Passes, Goes, Return
    <2>1. ASSUME NEW q \in Sender, Call(q) PROVE ready = 0
        BY <2>1 DEF Call
    <2>2. ASSUME NEW q \in Sender, NEW got \in BOOLEAN, FetchImage(q, got) PROVE ready = 0
        BY <2>2 DEF FetchImage
    <2>3. ASSUME NEW q \in Sender, Throttle(q) PROVE ready = 0
        BY <2>3 DEF Throttle, PassAtOnce, Sleep
    <2>4. ASSUME NEW q \in Sender, Wake(q) PROVE ready = 0
        BY <2>4 DEF Wake, SleeperHolds
    <2>5. ASSUME NEW q \in Sender, Cancelled(q) PROVE ready = 0
        BY <2>5 DEF Cancelled
    <2>6. ASSUME NEW q \in Sender, Post(q) \/ HoldCancelled(q) PROVE ready = 0
        BY <2>6 DEF Post, Accepted, Rejected, Refused, Unanswered, TooMany, Again,
                    HoldCancelled, Out, Holding
    <2>7. CASE Tick
        BY <2>7 DEF Tick
    <2> QED
        BY <2>1, <2>2, <2>3, <2>4, <2>5, <2>6, <2>7 DEF Next
<1> QED
    BY <1>1, TypeCorrect, SleeperHoldsAlways, PTL DEF Spec, CardsSpaced

-----------------------------------------------------------------------------
\* While a call is under way the chat shows nothing of it: every answer after
\* which it goes on (400 to a picture, 429) is one without a message.
NothingYet == \A p \in Sender : pc[p] # "idle" => shown[p] = 0

LEMMA NothingYetStep == TypeOK /\ NothingYet /\ [Next]_vars => NothingYet'
<1> SUFFICES ASSUME TypeOK, NothingYet, [Next]_vars PROVE NothingYet'
    OBVIOUS
<1> USE DEF TypeOK, NothingYet, Goes, Return
<1>1. ASSUME NEW p \in Sender, Call(p) PROVE NothingYet'
    BY <1>1 DEF Call
<1>2. ASSUME NEW p \in Sender, NEW got \in BOOLEAN, FetchImage(p, got) PROVE NothingYet'
    BY <1>2 DEF FetchImage
<1>3. ASSUME NEW p \in Sender, Throttle(p) \/ Wake(p) PROVE NothingYet'
    BY <1>3 DEF Throttle, PassAtOnce, Sleep, Wake, Pass
<1>4. ASSUME NEW p \in Sender, Cancelled(p) \/ HoldCancelled(p) PROVE NothingYet'
    BY <1>4 DEF Cancelled, HoldCancelled
<1>5. ASSUME NEW p \in Sender, Post(p) PROVE NothingYet'
    BY <1>5 DEF Post, Accepted, Rejected, Refused, Unanswered, TooMany, Again, Out, Holding
<1>6. CASE Tick
    BY <1>6 DEF Tick
<1>7. CASE UNCHANGED vars
    BY <1>7 DEF vars
<1> QED
    BY <1>1, <1>2, <1>3, <1>4, <1>5, <1>6, <1>7 DEF Next

\* Every step of the client is a step of Alert, or none.
LEMMA AlertStep ==
    TypeOK /\ NothingYet /\ [Next]_vars => [Promise!AlertNext]_(Promise!alertVars)
<1> SUFFICES ASSUME TypeOK, NothingYet, [Next]_vars
             PROVE Promise!AlertNext \/ UNCHANGED Promise!alertVars
    OBVIOUS
<1> USE DEF TypeOK, Promise!alertVars
<1>1. ASSUME NEW p \in Sender, Call(p) PROVE Promise!AlertNext
    <2>1. Promise!Begins(p)
        BY <1>1 DEF Call, Goes, Promise!Begins
    <2> QED BY <2>1 DEF Promise!AlertNext
<1>2. ASSUME NEW p \in Sender, NEW n \in {0, 1}, NEW r \in {"nil", "error"},
             pc[p] # "idle", Return(p, r, n), r = "nil" => n = 1
      PROVE Promise!AlertNext
    <2>1. Promise!Ends(p, r, n)
        BY <1>2 DEF Promise!Ends, Return, Goes
    <2>2. Promise!Delivered(p) \/ Promise!Failed(p)
        BY <1>2, <2>1 DEF Promise!Delivered, Promise!Failed
    <2> QED BY <2>2 DEF Promise!AlertNext
<1>3. ASSUME NEW p \in Sender, NEW to, to # "idle", pc[p] # "idle",
             Goes(p, to), UNCHANGED <<shown, answer>>
      PROVE UNCHANGED Promise!alertVars
    BY <1>3 DEF Goes
<1>4. ASSUME NEW p \in Sender, NEW got \in BOOLEAN, FetchImage(p, got)
      PROVE UNCHANGED Promise!alertVars
    BY <1>3, <1>4 DEF FetchImage
<1>5. ASSUME NEW p \in Sender, Throttle(p) \/ Wake(p) PROVE UNCHANGED Promise!alertVars
    BY <1>3, <1>5 DEF Throttle, PassAtOnce, Sleep, Wake, Pass
<1>6. ASSUME NEW p \in Sender, Return(p, "error", shown[p]), pc[p] # "idle"
      PROVE Promise!AlertNext
    BY <1>2, <1>6 DEF NothingYet
<1>7. ASSUME NEW p \in Sender, Cancelled(p) \/ HoldCancelled(p) PROVE Promise!AlertNext
    BY <1>6, <1>7 DEF Cancelled, HoldCancelled, Holding
<1>8. ASSUME NEW p \in Sender, Post(p)
      PROVE Promise!AlertNext \/ UNCHANGED Promise!alertVars
    <2>1. CASE Accepted(p)
        <3>1. pc[p] # "idle" /\ shown[p] = 0 /\ Return(p, "nil", 1)
            BY <2>1 DEF Accepted, Out, NothingYet
        <3> QED BY <1>2, <3>1
    <2>2. CASE Rejected(p)
        <3>1. CASE pc[p] = "sendPhoto"
            BY <1>3, <2>2, <3>1 DEF Rejected
        <3>2. CASE pc[p] # "sendPhoto"
            BY <1>6, <2>2, <3>2 DEF Rejected, Out
        <3> QED BY <3>1, <3>2
    <2>3. CASE Refused(p)
        BY <1>6, <2>3 DEF Refused, Out
    <2>4. CASE Unanswered(p)
        <3>1. pc[p] # "idle" /\ shown[p] = 0
            BY <2>4 DEF Unanswered, Out, NothingYet
        <3>2. PICK n \in {0, 1} : Return(p, "error", n)
            BY <2>4, <3>1 DEF Unanswered
        <3> QED BY <1>2, <3>1, <3>2
    <2>5. CASE TooMany(p)
        BY <1>3, <2>5 DEF TooMany, Out
    <2>6. CASE Again(p)
        BY <1>3, <2>6 DEF Again, Holding
    <2> QED BY <1>8, <2>1, <2>2, <2>3, <2>4, <2>5, <2>6 DEF Post
<1>9. CASE Tick \/ UNCHANGED vars
    BY <1>9 DEF Tick, vars
<1> QED
    BY <1>1, <1>4, <1>5, <1>7, <1>8, <1>9 DEF Next

\* The client implements Alert: a success is one message in the chat, an error
\* none or one (telegram.go:140-142 and :307-310).
THEOREM Implements == Spec => KeepsAlert
<1>1. Init => Promise!AlertInit /\ NothingYet
    BY DEF Init, Promise!AlertInit, NothingYet
<1> QED
    BY <1>1, TypeCorrect, NothingYetStep, AlertStep, PTL
       DEF Spec, KeepsAlert, Promise!AlertSpec
=============================================================================
