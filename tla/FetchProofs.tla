----------------------------- MODULE FetchProofs -----------------------------
(***************************************************************************)
(* Theorems about module Fetch, for any clients, attempts, spacing and     *)
(* hold-off.                                                               *)
(***************************************************************************)
EXTENDS Fetch, FiniteSetTheorems, TLAPS

\* A fetch that may still start an attempt has one left.
HasAttempts ==
    \A p \in Client :
        /\ pc[p] \in {"slot", "pace", "flare"} => attempt[p] = 0
        /\ pc[p] = "backoff" => attempt[p] < Attempts[p]

TypeInv == TypeOK /\ HasAttempts

LEMMA TypeInit == Init => TypeInv
<1> SUFFICES ASSUME Init PROVE TypeInv
    OBVIOUS
<1>1. MinGap \in Nat /\ Attempts \in [Client -> Nat \ {0}]
    BY FetchAssumption
<1>2. \A p \in Client : pc[p] = "idle" /\ attempt[p] = 0 /\ attempt[p] <= Attempts[p]
    BY <1>1 DEF Init
<1>3. last \in Int
    BY <1>1 DEF Init
<1>4. pc \in [Client -> Location] /\ wait \in [Client -> Nat] /\ attempt \in [Client -> Nat]
    BY DEF Init, Location
<1>5. HasAttempts
    BY <1>2 DEF HasAttempts
<1>6. slots \in Int /\ next \in Nat /\ cancels \in Nat /\ quiet \in Nat
    BY DEF Init
<1>7. flare \in BOOLEAN /\ hurried \in BOOLEAN
    BY DEF Init
<1> QED
    BY <1>2, <1>3, <1>4, <1>5, <1>6, <1>7 DEF TypeInv, TypeOK

LEMMA TypeStep == TypeInv /\ [Next]_vars => TypeInv'
<1> SUFFICES ASSUME TypeInv, [Next]_vars PROVE TypeInv'
    OBVIOUS
<1>0. MinGap \in Nat \ {0} /\ Hold \in Nat /\ Attempts \in [Client -> Nat \ {0}]
    BY FetchAssumption
<1> USE DEF TypeInv, TypeOK, HasAttempts, Location, gate, past
<1>1. ASSUME NEW p \in Client, Call(p) PROVE TypeInv'
    BY <1>0, <1>1 DEF Call
<1>2. ASSUME NEW p \in Client, Acquire(p) PROVE TypeInv'
    BY <1>0, <1>2 DEF Acquire, Reserve, Concurrency
<1>3. ASSUME NEW p \in Client, Start(p) \/ FallBack(p) \/ Retry(p) PROVE TypeInv'
    BY <1>0, <1>3 DEF Start, FallBack, Retry, Request
<1>4. ASSUME NEW p \in Client, BackOff(p) PROVE TypeInv'
    BY <1>0, <1>4 DEF BackOff
<1>5. ASSUME NEW p \in Client, Done(p) \/ Cancelled(p) PROVE TypeInv'
    BY <1>0, <1>5 DEF Done, Cancelled, Release
<1>6. ASSUME NEW p \in Client, Blocked(p) PROVE TypeInv'
    BY <1>0, <1>6 DEF Blocked, Cooldown, Release
<1>7. CASE Tick
    BY <1>0, <1>7 DEF Tick, Sooner
<1>8. CASE UNCHANGED vars
    BY <1>8 DEF vars
<1> QED
    BY <1>1, <1>2, <1>3, <1>4, <1>5, <1>6, <1>7, <1>8 DEF Next, FetchWith

\* Every variable keeps to its values, and a fetch to its attempts.
THEOREM TypeCorrect == Spec => []TypeOK
<1>1. TypeInv => TypeOK
    BY DEF TypeInv
<1> QED
    BY <1>1, TypeInit, TypeStep, PTL DEF Spec

-----------------------------------------------------------------------------
LEMMA HoldersAreFinite == IsFiniteSet(Holders) /\ Cardinality(Holders) \in Nat
BY FetchAssumption, FS_Subset, FS_CardinalityType DEF Holders

\* Who holds a slot, after one goroutine went from one place to another.
LEMMA HoldersMove ==
    ASSUME TypeOK, NEW p \in Client, NEW to \in Location, pc' = [pc EXCEPT ![p] = to]
    PROVE  /\ (to \in Holding <=> pc[p] \in Holding) =>
                 Cardinality(Holders') = Cardinality(Holders)
           /\ to \in Holding /\ pc[p] \notin Holding =>
                 Cardinality(Holders') = Cardinality(Holders) + 1
           /\ to \notin Holding /\ pc[p] \in Holding =>
                 Cardinality(Holders') = Cardinality(Holders) - 1
<1>1. IsFiniteSet(Holders) /\ Cardinality(Holders) \in Nat
    BY HoldersAreFinite
<1>2. CASE to \in Holding
    <2>1. Holders' = Holders \cup {p}
        BY <1>2 DEF Holders, TypeOK
    <2>2. p \in Holders <=> pc[p] \in Holding
        BY DEF Holders
    <2>3. Cardinality(Holders') = IF p \in Holders THEN Cardinality(Holders)
                                  ELSE Cardinality(Holders) + 1
        BY <1>1, <2>1, FS_AddElement
    <2> QED BY <1>1, <1>2, <2>2, <2>3
<1>3. CASE to \notin Holding
    <2>1. Holders' = Holders \ {p}
        BY <1>3 DEF Holders, TypeOK
    <2>2. p \in Holders <=> pc[p] \in Holding
        BY DEF Holders
    <2>3. Cardinality(Holders') = IF p \in Holders THEN Cardinality(Holders) - 1
                                  ELSE Cardinality(Holders)
        BY <1>1, <2>1, FS_RemoveElement
    <2> QED BY <1>1, <1>3, <2>2, <2>3
<1> QED
    BY <1>1, <1>2, <1>3

LEMMA SlotsStep == TypeOK /\ SlotsInUse /\ [Next]_vars => SlotsInUse'
<1> SUFFICES ASSUME TypeOK, SlotsInUse, [Next]_vars PROVE SlotsInUse'
    OBVIOUS
<1>0. slots \in Nat /\ slots = Cardinality(Holders) /\ slots <= Concurrency
      /\ Concurrency \in Nat
    BY HoldersAreFinite DEF SlotsInUse, Concurrency
<1>1. ASSUME NEW p \in Client, NEW to \in Location \ Holding, pc' = [pc EXCEPT ![p] = to],
             slots' = slots - (IF pc[p] \in Holding THEN 1 ELSE 0), UNCHANGED flare
      PROVE  SlotsInUse'
    <2>1. Cardinality(Holders') = Cardinality(Holders) - (IF pc[p] \in Holding THEN 1 ELSE 0)
        <3>1. to \in Location /\ to \notin Holding
            BY <1>1
        <3>2. CASE pc[p] \in Holding
            BY <1>1, <3>1, <3>2, HoldersMove
        <3>3. CASE pc[p] \notin Holding
            <4>1. Cardinality(Holders') = Cardinality(Holders)
                BY <1>1, <3>1, <3>3, HoldersMove
            <4> QED BY <3>3, <4>1, HoldersAreFinite
        <3> QED BY <3>2, <3>3
    <2>2. Concurrency' = Concurrency
        BY <1>1 DEF Concurrency
    <2> QED BY <1>0, <1>1, <2>1, <2>2 DEF SlotsInUse
<1>2. ASSUME NEW p \in Client, NEW to \in Holding, pc' = [pc EXCEPT ![p] = to],
             pc[p] \in Holding, UNCHANGED <<slots, flare>>
      PROVE  SlotsInUse'
    <2>1. to \in Location
        BY DEF Holding, Location
    <2>2. Cardinality(Holders') = Cardinality(Holders)
        BY <1>2, <2>1, HoldersMove, HoldersAreFinite
    <2>3. Concurrency' = Concurrency
        BY <1>2 DEF Concurrency
    <2> QED BY <1>0, <1>2, <2>2, <2>3 DEF SlotsInUse
<1>3. ASSUME NEW p \in Client, Call(p) PROVE SlotsInUse'
    <2>1. pc' = [pc EXCEPT ![p] = "slot"] /\ slots' = slots /\ pc[p] \notin Holding
          /\ UNCHANGED flare
        BY <1>3 DEF Call, gate, Holding
    <2>2. slots' = slots - (IF pc[p] \in Holding THEN 1 ELSE 0)
        BY <1>0, <2>1
    <2>3. "slot" \in Location \ Holding
        BY DEF Location, Holding
    <2> QED BY <1>1, <2>1, <2>2, <2>3
<1>4. ASSUME NEW p \in Client, Acquire(p) PROVE SlotsInUse'
    <2>1. pc' = [pc EXCEPT ![p] = "pace"] /\ pc[p] \notin Holding /\ slots' = slots + 1
          /\ slots < Concurrency /\ UNCHANGED flare
        BY <1>4 DEF Acquire, Holding
    <2>2. "pace" \in Location /\ "pace" \in Holding
        BY DEF Location, Holding
    <2>3. Cardinality(Holders') = Cardinality(Holders) + 1
        BY <2>1, <2>2, HoldersMove, HoldersAreFinite
    <2>4. Concurrency' = Concurrency
        BY <2>1 DEF Concurrency
    <2> QED BY <1>0, <2>1, <2>3, <2>4 DEF SlotsInUse
<1>5. ASSUME NEW p \in Client, Start(p) \/ FallBack(p) \/ Retry(p) \/ BackOff(p)
      PROVE  SlotsInUse'
    BY <1>2, <1>5 DEF Start, FallBack, Retry, BackOff, Request, gate, Holding
<1>6. ASSUME NEW p \in Client, Done(p) \/ Cancelled(p) \/ Blocked(p) PROVE SlotsInUse'
    BY <1>1, <1>6 DEF Done, Cancelled, Blocked, Release, Location, Holding
<1>7. CASE Tick \/ UNCHANGED vars
    BY <1>7 DEF Tick, vars, gate, SlotsInUse, Holders, Concurrency
<1> QED
    BY <1>3, <1>4, <1>5, <1>6, <1>7 DEF Next, FetchWith

\* No way out of a fetch keeps its slot, or gives back one it did not have
\* (gate.go:28-29), for any number of clients.
THEOREM SlotsAccounted == Spec => []SlotsInUse
<1>1. Init => SlotsInUse
    <2>1. Init => Holders = {}
        BY DEF Init, Holders, Holding
    <2> QED BY <2>1, FS_EmptySet DEF Init, SlotsInUse, Concurrency
<1> QED
    BY <1>1, TypeCorrect, SlotsStep, PTL DEF Spec

-----------------------------------------------------------------------------
\* The next start lies beyond every start handed out and beyond the hold-off,
\* unless a priority request has jumped ahead.
Ahead == hurried \/ (next >= last + MinGap /\ next >= quiet)

FarEnough == last >= -MinGap /\ Ahead

LEMMA AheadStep == TypeOK /\ FarEnough /\ [Next]_vars => FarEnough'
<1> SUFFICES ASSUME TypeOK, FarEnough, [Next]_vars PROVE FarEnough'
    OBVIOUS
<1>0. MinGap \in Nat \ {0} /\ Hold \in Nat
    BY FetchAssumption
<1> USE DEF TypeOK, FarEnough, Ahead
<1>1. ASSUME NEW p \in Client, Acquire(p) PROVE FarEnough'
    <2>1. next \in Nat /\ last \in Int /\ quiet \in Nat
        OBVIOUS
    <2>2. CASE p \in Urgent
        <3>1. next' = MinGap /\ last' = IF 0 > last THEN 0 ELSE last
            BY <1>0, <1>1, <2>2 DEF Acquire, Reserve
        <3>2. quiet' = quiet /\ (hurried' <=> (hurried \/ last > 0 \/ quiet > 0))
            BY <1>1, <2>2 DEF Acquire
        <3>3. last' >= -MinGap
            BY <1>0, <2>1, <3>1
        <3>4. ~(last > 0 \/ quiet > 0) => next' >= last' + MinGap /\ next' >= quiet'
            BY <1>0, <2>1, <3>1, <3>2
        <3> QED BY <3>2, <3>3, <3>4
    <2>3. CASE p \notin Urgent
        <3>1. next' = next + MinGap /\ last' = IF next > last THEN next ELSE last
            BY <1>0, <1>1, <2>3 DEF Acquire, Reserve
        <3>2. quiet' = quiet /\ hurried' = hurried
            BY <1>1, <2>3 DEF Acquire
        <3> QED BY <1>0, <2>1, <3>1, <3>2
    <2> QED BY <2>2, <2>3
<1>2. ASSUME NEW p \in Client, Blocked(p) PROVE FarEnough'
    BY <1>0, <1>2 DEF Blocked, Cooldown, Release
<1>3. CASE Tick
    BY <1>0, <1>3 DEF Tick, Sooner
<1>4. ASSUME NEW p \in Client,
             Call(p) \/ Start(p) \/ FallBack(p) \/ Retry(p) \/ BackOff(p) \/ Done(p)
                \/ Cancelled(p)
      PROVE FarEnough'
    BY <1>4 DEF Call, Start, FallBack, Retry, BackOff, Done, Cancelled, Request, Release,
                gate, past
<1>5. CASE UNCHANGED vars
    BY <1>5 DEF vars, gate, past
<1> QED
    BY <1>1, <1>2, <1>3, <1>4, <1>5 DEF Next, FetchWith

\* Starts are spaced and a challenge holds bulk requests off, but for what a
\* priority request does (gate.go:10-16 and :77-79), for any spacing and hold-off.
THEOREM Spaced == Spec => StartsSpaced
<1>1. Init => FarEnough
    BY FetchAssumption DEF Init, FarEnough, Ahead
<1>2. TypeOK /\ FarEnough /\ [Next]_vars
      => [\A p \in Client \ Urgent : HandedOut(p) =>
             hurried \/ (wait'[p] >= last + MinGap /\ wait'[p] >= quiet)]_vars
    <2> SUFFICES ASSUME TypeOK, FarEnough, Next, NEW p \in Client \ Urgent, HandedOut(p),
                        ~hurried
                 PROVE  wait'[p] >= last + MinGap /\ wait'[p] >= quiet
        OBVIOUS
    <2> USE DEF TypeOK, FarEnough, Ahead, HandedOut
    <2>1. ASSUME NEW q \in Client, Acquire(q)
          PROVE  wait'[p] >= last + MinGap /\ wait'[p] >= quiet
        BY <2>1 DEF Acquire, Reserve
    <2>2. ASSUME NEW q \in Client,
                 Call(q) \/ Start(q) \/ FallBack(q) \/ Retry(q) \/ BackOff(q) \/ Done(q)
                    \/ Blocked(q) \/ Cancelled(q)
          PROVE FALSE
        BY <2>2 DEF Call, Start, FallBack, Retry, BackOff, Done, Blocked, Cancelled,
                    Request, Release
    <2>3. CASE Tick
        BY <2>3 DEF Tick
    <2> QED BY <2>1, <2>2, <2>3 DEF Next, FetchWith
<1> QED
    BY <1>1, <1>2, TypeCorrect, AheadStep, PTL DEF Spec, StartsSpaced
=============================================================================
