---------------------------- MODULE DigestProofs ----------------------------
(***************************************************************************)
(* Proofs about Digest, for any users, listings, searches and goroutines.  *)
(***************************************************************************)
EXTENDS Digest, TLAPS

-----------------------------------------------------------------------------
\* The variables always have their types, a goroutine that is not idle works
\* for some user, and it holds an unrecorded card exactly when it is about to
\* call MarkDelivered.
LEMMA TypeInitially == Init => TypeOK
  BY DigestAssumption
  DEF Init, TypeOK, SearchState, Status, Stage, Location

LEMMA TypeStep == TypeOK /\ [Next]_vars => TypeOK'
<1> SUFFICES ASSUME TypeOK, [Next]_vars PROVE TypeOK'
  OBVIOUS
<1> USE DigestAssumption
    DEF TypeOK, SearchState, Status, Stage, Location, rows, runVars, history
<1>1. ASSUME NEW u \in User, CreateUser(u) PROVE TypeOK'
  BY <1>1 DEF CreateUser
<1>2. ASSUME NEW u \in User, DeleteUser(u) PROVE TypeOK'
  BY <1>2 DEF DeleteUser
<1>3. ASSUME NEW s \in Search, AddSearch(s) PROVE TypeOK'
  BY <1>3 DEF AddSearch
<1>4. ASSUME NEW s \in Search, MarkValid(s) PROVE TypeOK'
  BY <1>4 DEF MarkValid
<1>5. ASSUME NEW s \in Search, RemoveSearch(s) PROVE TypeOK'
  BY <1>5 DEF RemoveSearch
<1>6. ASSUME NEW p \in Proc, NEW u \in User, Call(p, u) PROVE TypeOK'
  BY <1>6 DEF Call
<1>7. ASSUME NEW p \in Proc, StartRun(p) PROVE TypeOK'
  BY <1>7 DEF StartRun
<1>8. ASSUME NEW p \in Proc, NEW s \in Search, NEW L \in SUBSET Listing, Fetch(p, s, L)
      PROVE TypeOK'
  BY <1>8 DEF Fetch
<1>9. ASSUME NEW p \in Proc, NEW s \in Search, NEW l \in Listing, Link(p, s, l)
      PROVE TypeOK'
  BY <1>9 DEF Link
<1>10. ASSUME NEW p \in Proc, NEW s \in Search, Baseline(p, s) PROVE TypeOK'
  BY <1>10 DEF Baseline
<1>11. ASSUME NEW p \in Proc, NEW s \in Search, IndexFails(p, s) PROVE TypeOK'
  BY <1>11 DEF IndexFails
<1>12. ASSUME NEW p \in Proc, ReadCandidates(p) PROVE TypeOK'
  BY <1>12 DEF ReadCandidates, Candidates, Undelivered, Linked
<1>13. ASSUME NEW p \in Proc, Return(p), UNCHANGED <<rows, history>>
       PROVE TypeOK'
  BY <1>13 DEF Return, Unwind
<1>14. ASSUME NEW p \in Proc, NEW l \in Listing, Notify(p, l) PROVE TypeOK'
  BY <1>14 DEF Notify
<1>15. ASSUME NEW p \in Proc, NEW l \in Listing, NotifyFails(p, l) PROVE TypeOK'
  BY <1>15 DEF NotifyFails
<1>16. ASSUME NEW p \in Proc, NEW l \in Listing, NotifyUnanswered(p, l) PROVE TypeOK'
  BY <1>16 DEF NotifyUnanswered
<1>17. ASSUME NEW p \in Proc, MarkDelivered(p) PROVE TypeOK'
  BY <1>17 DEF MarkDelivered
<1>18. ASSUME NEW p \in Proc, MarkFails(p) PROVE TypeOK'
  BY <1>18 DEF MarkFails, Return, Unwind
<1>19. CASE Crash
  BY <1>19 DEF Crash
<1>20. CASE UNCHANGED vars
  BY <1>20 DEF vars
<1>21. QED
  BY <1>1, <1>2, <1>3, <1>4, <1>5, <1>6, <1>7, <1>8, <1>9, <1>10, <1>11, <1>12,
     <1>13, <1>14, <1>15, <1>16, <1>17, <1>18, <1>19, <1>20
  DEF Next, Command, RunForUser, IndexSearch, SendUndelivered, NothingToFetch,
      NoneFetched, Cancelled, Finish

\* Runner.RunForUser and the commands keep the database and the goroutines in
\* the states the code names.
THEOREM TypeCorrect == Spec => []TypeOK
<1>1. QED
  BY TypeInitially, TypeStep, PTL DEF Spec

-----------------------------------------------------------------------------
\* The inductive invariant behind the promise to the user: the mutex is what
\* keeps a run's candidates fresh, and fresh candidates are what keeps the
\* cards accounted for.
IInv ==
    /\ TypeOK
    /\ HoldsMutex
    /\ CandidatesStayFresh
    /\ CardsAccounted

\* Two goroutines inside the run of one user are the same goroutine.
LEMMA OneRunPerUser ==
    ASSUME HoldsMutex, NEW p \in Proc, NEW q \in Proc,
           InRun(p), InRun(q), who[p] = who[q]
    PROVE  p = q
  BY DEF HoldsMutex

LEMMA MutexStep == TypeOK /\ HoldsMutex /\ [Next]_vars => HoldsMutex'
<1> SUFFICES ASSUME TypeOK, HoldsMutex, [Next]_vars PROVE HoldsMutex'
  OBVIOUS
<1> USE DigestAssumption DEF TypeOK, HoldsMutex, InRun, rows, runVars, history
<1>1. CASE Command \/ UNCHANGED vars
  BY <1>1 DEF Command, CreateUser, DeleteUser, AddSearch, MarkValid, RemoveSearch, vars
<1>2. ASSUME NEW p \in Proc, NEW u \in User, Call(p, u) PROVE HoldsMutex'
  BY <1>2 DEF Call
<1>3. ASSUME NEW p \in Proc, StartRun(p) PROVE HoldsMutex'
  BY <1>3 DEF StartRun, LockFree
<1>4. ASSUME NEW p \in Proc, IndexSearch(p) PROVE HoldsMutex'
  BY <1>4 DEF IndexSearch, Fetch, Link, Baseline, IndexFails
<1>5. ASSUME NEW p \in Proc, ReadCandidates(p) PROVE HoldsMutex'
  BY <1>5 DEF ReadCandidates
<1>6. ASSUME NEW p \in Proc, NEW l \in Listing,
             Notify(p, l) \/ NotifyFails(p, l) \/ NotifyUnanswered(p, l)
      PROVE  HoldsMutex'
  BY <1>6 DEF Notify, NotifyFails, NotifyUnanswered
<1>7. ASSUME NEW p \in Proc, MarkDelivered(p) PROVE HoldsMutex'
  BY <1>7 DEF MarkDelivered
<1>8. ASSUME NEW p \in Proc, InRun(p), Return(p) PROVE HoldsMutex'
  BY <1>8 DEF Return, Unwind
<1>9. ASSUME NEW p \in Proc, pc[p] = "want", LockFree(p), Return(p) PROVE HoldsMutex'
  BY <1>9 DEF LockFree, Return, Unwind
<1>10. CASE Crash
  BY <1>10 DEF Crash
<1>11. QED
  BY <1>1, <1>2, <1>3, <1>4, <1>5, <1>6, <1>7, <1>8, <1>9, <1>10
  DEF Next, RunForUser, SendUndelivered, NothingToFetch, NoneFetched, Cancelled,
      MarkFails, Finish

LEMMA FreshStep ==
    TypeOK /\ HoldsMutex /\ CandidatesStayFresh /\ [Next]_vars => CandidatesStayFresh'
<1> SUFFICES ASSUME TypeOK, HoldsMutex, CandidatesStayFresh, [Next]_vars
             PROVE  CandidatesStayFresh'
  OBVIOUS
<1> USE DigestAssumption DEF TypeOK, CandidatesStayFresh, rows, runVars, history
<1>1. CASE Command \/ UNCHANGED vars
  <2>1. ASSUME NEW u \in User, DeleteUser(u) PROVE CandidatesStayFresh'
    BY <2>1 DEF DeleteUser
  <2>2. ASSUME UNCHANGED <<delivery, pc, who, queue, cur>> PROVE CandidatesStayFresh'
    BY <2>2
  <2>3. QED
    BY <1>1, <2>1, <2>2 DEF Command, CreateUser, AddSearch, MarkValid, RemoveSearch, vars
<1>2. ASSUME NEW p \in Proc, NEW u \in User, Call(p, u) PROVE CandidatesStayFresh'
  BY <1>2 DEF Call
<1>3. ASSUME NEW p \in Proc, StartRun(p) PROVE CandidatesStayFresh'
  BY <1>3 DEF StartRun
<1>4. ASSUME NEW p \in Proc, NEW s \in Search,
             \/ \E L \in SUBSET Listing : Fetch(p, s, L)
             \/ \E l \in Listing : Link(p, s, l)
             \/ IndexFails(p, s)
      PROVE  CandidatesStayFresh'
  BY <1>4 DEF Fetch, Link, IndexFails
<1>5. ASSUME NEW p \in Proc, NEW s \in Search, Baseline(p, s)
      PROVE  CandidatesStayFresh'
  \* The mutex: nobody else is sending to the user whose rows are baselined.
  <2>1. \A q \in Proc : pc[q] \in {"send", "mark"} => who[q] # who[p]
    BY <1>5, OneRunPerUser DEF Baseline, InRun
  <2>2. QED
    BY <1>5, <2>1 DEF Baseline
<1>6. ASSUME NEW p \in Proc, ReadCandidates(p) PROVE CandidatesStayFresh'
  <2>1. PICK L \in Candidates(who[p]) : queue' = [queue EXCEPT ![p] = L]
    BY <1>6 DEF ReadCandidates
  <2>2. \A l \in L : delivery[who[p]][l] = "none"
    BY <2>1 DEF Candidates, Undelivered
  <2>3. QED
    BY <1>6, <2>1, <2>2 DEF ReadCandidates
<1>7. ASSUME NEW p \in Proc, NEW l \in Listing,
             Notify(p, l) \/ NotifyFails(p, l) \/ NotifyUnanswered(p, l)
      PROVE  CandidatesStayFresh'
  <2>1. /\ pc[p] = "send" /\ l \in queue[p]
        /\ UNCHANGED <<delivery, who>>
        /\ queue' = [queue EXCEPT ![p] = queue[p] \ {l}]
        /\ \/ pc' = [pc EXCEPT ![p] = "mark"] /\ cur' = [cur EXCEPT ![p] = l]
           \/ UNCHANGED <<pc, cur>>
    BY <1>7 DEF Notify, NotifyFails, NotifyUnanswered
  <2>2. ASSUME NEW q \in Proc, q # p
        PROVE  CandidatesStayFresh!(q)'
    BY <2>1, <2>2
  <2>3. CandidatesStayFresh!(p)'
    BY <2>1
  <2>4. QED
    BY <2>2, <2>3
<1>8. ASSUME NEW p \in Proc, MarkDelivered(p) PROVE CandidatesStayFresh'
  <2>1. \A q \in Proc \ {p} : pc[q] \in {"send", "mark"} => who[q] # who[p]
    BY <1>8, OneRunPerUser DEF MarkDelivered, InRun
  <2>2. /\ pc' = [pc EXCEPT ![p] = "send"]
        /\ UNCHANGED <<who, queue>>
        /\ cur' = [cur EXCEPT ![p] = NoListing]
        /\ delivery' = [delivery EXCEPT ![who[p]][cur[p]] = "sent"]
        /\ who[p] \in User /\ cur[p] \in Listing /\ cur[p] \notin queue[p]
    BY <1>8 DEF MarkDelivered
  <2>3. ASSUME NEW q \in Proc, q # p
        PROVE  CandidatesStayFresh!(q)'
    BY <2>1, <2>2, <2>3
  <2>4. CandidatesStayFresh!(p)'
    <3>1. /\ pc'[p] = "send" /\ who'[p] = who[p] /\ queue'[p] = queue[p]
          /\ \A l \in queue[p] : l \in Listing /\ delivery[who[p]][l] = "none"
      BY <1>8, <2>2 DEF MarkDelivered
    <3>2. \A l \in Listing : l # cur[p] => delivery'[who[p]][l] = delivery[who[p]][l]
      BY <2>2
    <3>3. QED
      BY <2>2, <3>1, <3>2
  <2>5. QED
    BY <2>3, <2>4
<1>9. ASSUME NEW p \in Proc, Return(p), UNCHANGED rows PROVE CandidatesStayFresh'
  BY <1>9 DEF Return, Unwind
<1>10. CASE Crash
  BY <1>10 DEF Crash
<1>11. QED
  BY <1>1, <1>2, <1>3, <1>4, <1>5, <1>6, <1>7, <1>8, <1>9, <1>10
  DEF Next, RunForUser, IndexSearch, SendUndelivered, NothingToFetch, NoneFetched,
      Cancelled, MarkFails, Finish

\* A step that touches neither the counters nor what is recorded or in flight.
LEMMA CardsFrame ==
    ASSUME CardsAccounted, UNCHANGED <<cards, lapses>>,
           \A u \in User, l \in Listing :
               (delivery'[u][l] = "sent") <=> (delivery[u][l] = "sent"),
           \A u \in User, l \in Listing : InFlight(u, l)' <=> InFlight(u, l)
    PROVE  CardsAccounted'
  BY DEF CardsAccounted

LEMMA CardsStep ==
    TypeOK /\ HoldsMutex /\ CandidatesStayFresh /\ CardsAccounted /\ [Next]_vars
        => CardsAccounted'
<1> SUFFICES ASSUME TypeOK, HoldsMutex, CandidatesStayFresh, CardsAccounted, [Next]_vars
             PROVE  CardsAccounted'
  OBVIOUS
<1> USE DigestAssumption DEF TypeOK, rows, runVars, history
<1>1. ASSUME UNCHANGED <<cards, lapses, delivery, pc, who, cur>> PROVE CardsAccounted'
  BY <1>1, CardsFrame DEF InFlight
<1>2. ASSUME NEW u \in User, DeleteUser(u) PROVE CardsAccounted'
  <2>1. \A v \in User, l \in Listing : InFlight(v, l)' <=> InFlight(v, l)
    BY <1>2 DEF DeleteUser, InFlight
  <2>2. QED
    BY <1>2, <2>1 DEF DeleteUser, CardsAccounted
<1>3. ASSUME NEW p \in Proc, pc[p] # "mark", pc'[p] # "mark",
             UNCHANGED <<cards, lapses, delivery>>,
             \A q \in Proc \ {p} : pc'[q] = pc[q] /\ who'[q] = who[q] /\ cur'[q] = cur[q]
      PROVE  CardsAccounted'
  BY <1>3, CardsFrame DEF InFlight
<1>4. ASSUME NEW p \in Proc, NEW s \in Search, Baseline(p, s) PROVE CardsAccounted'
  <2>1. \A u \in User, l \in Listing : InFlight(u, l)' <=> InFlight(u, l)
    BY <1>4 DEF Baseline, InFlight
  <2>2. who[p] \in User
    BY <1>4 DEF Baseline
  <2>3. \A u \in User, l \in Listing :
            (delivery'[u][l] = "sent") <=> (delivery[u][l] = "sent")
    BY <1>4, <2>2 DEF Baseline
  <2>4. QED
    BY <1>4, <2>1, <2>3, CardsFrame DEF Baseline
<1>5. ASSUME NEW p \in Proc, NEW l \in Listing, Notify(p, l) PROVE CardsAccounted'
  <2>1. PICK v \in User : v = who[p]
    BY <1>5 DEF Notify
  <2>2. \A q \in Proc \ {p} : pc[q] = "mark" => who[q] # v
    BY <1>5, <2>1, OneRunPerUser DEF Notify, InRun
  <2>3. \A k \in Listing : ~InFlight(v, k) /\ (InFlight(v, k)' <=> k = l)
    BY <1>5, <2>1, <2>2 DEF Notify, InFlight
  <2>4. \A u \in User \ {v}, k \in Listing : InFlight(u, k)' <=> InFlight(u, k)
    BY <1>5, <2>1 DEF Notify, InFlight
  <2>5. /\ UNCHANGED <<delivery, lapses>>
        /\ cards' = [cards EXCEPT ![v][l] = cards[v][l] + 1]
    BY <1>5, <2>1 DEF Notify
  <2>6. ASSUME NEW u \in User, NEW k \in Listing PROVE CardsAccounted!(u, k)'
    <3>1. CASE u = v /\ k = l
      BY <2>3, <2>5, <3>1 DEF CardsAccounted
    <3>2. CASE u = v /\ k # l
      BY <2>3, <2>5, <3>2 DEF CardsAccounted
    <3>3. CASE u # v
      BY <2>4, <2>5, <3>3 DEF CardsAccounted
    <3>4. QED
      BY <3>1, <3>2, <3>3
  <2>7. QED
    BY <2>6 DEF CardsAccounted
<1>6. ASSUME NEW p \in Proc, NEW l \in Listing, NotifyUnanswered(p, l) PROVE CardsAccounted'
  <2>1. PICK v \in User : v = who[p]
    BY <1>6 DEF NotifyUnanswered
  <2>2. \A u \in User, k \in Listing : InFlight(u, k)' <=> InFlight(u, k)
    BY <1>6 DEF NotifyUnanswered, InFlight
  <2>3. /\ UNCHANGED delivery
        /\ cards' = [cards EXCEPT ![v][l] = cards[v][l] + 1]
        /\ lapses' = [lapses EXCEPT ![v][l] = lapses[v][l] + 1]
    BY <1>6, <2>1 DEF NotifyUnanswered
  <2>4. ASSUME NEW u \in User, NEW k \in Listing PROVE CardsAccounted!(u, k)'
    <3>1. CASE u = v /\ k = l
      BY <2>2, <2>3, <3>1 DEF CardsAccounted
    <3>2. CASE u # v \/ k # l
      BY <2>2, <2>3, <3>2 DEF CardsAccounted
    <3>3. QED
      BY <3>1, <3>2
  <2>5. QED
    BY <2>4 DEF CardsAccounted
<1>7. ASSUME NEW p \in Proc, NEW v \in User, NEW l \in Listing,
             pc[p] = "mark", who[p] = v, cur[p] = l, pc'[p] # "mark",
             \A q \in Proc \ {p} : pc'[q] = pc[q] /\ who'[q] = who[q] /\ cur'[q] = cur[q]
      PROVE  /\ \A k \in Listing : (InFlight(v, k) <=> k = l) /\ ~InFlight(v, k)'
             /\ \A u \in User \ {v}, k \in Listing : InFlight(u, k)' <=> InFlight(u, k)
  <2>1. \A q \in Proc \ {p} : pc[q] = "mark" => who[q] # v
    BY <1>7, OneRunPerUser DEF InRun
  <2>2. QED
    BY <1>7, <2>1 DEF InFlight
<1>8. ASSUME NEW p \in Proc, MarkDelivered(p) PROVE CardsAccounted'
  <2>1. PICK v \in User, l \in Listing : v = who[p] /\ l = cur[p]
    BY <1>8 DEF MarkDelivered
  <2>2. delivery[v][l] = "none"
    BY <1>8, <2>1 DEF MarkDelivered, CandidatesStayFresh
  <2>3. /\ \A k \in Listing : (InFlight(v, k) <=> k = l) /\ ~InFlight(v, k)'
        /\ \A u \in User \ {v}, k \in Listing : InFlight(u, k)' <=> InFlight(u, k)
    BY <1>7, <1>8, <2>1 DEF MarkDelivered
  <2>4. /\ UNCHANGED <<cards, lapses>>
        /\ delivery' = [delivery EXCEPT ![v][l] = "sent"]
    BY <1>8, <2>1 DEF MarkDelivered
  <2>5. ASSUME NEW u \in User, NEW k \in Listing PROVE CardsAccounted!(u, k)'
    <3>1. CASE u = v /\ k = l
      <4>1. delivery'[v][l] = "sent" /\ InFlight(v, l) /\ ~InFlight(v, l)'
        BY <2>3, <2>4
      <4>2. cards[v][l] = lapses[v][l] + 0 + 1
        BY <2>2, <4>1 DEF CardsAccounted
      <4>3. cards'[v][l] = lapses'[v][l] + 1 + 0
        BY <2>4, <4>2
      <4>4. QED
        BY <3>1, <4>1, <4>3
    <3>2. CASE u = v /\ k # l
      BY <2>3, <2>4, <3>2 DEF CardsAccounted
    <3>3. CASE u # v
      BY <2>3, <2>4, <3>3 DEF CardsAccounted
    <3>4. QED
      BY <3>1, <3>2, <3>3
  <2>6. QED
    BY <2>5 DEF CardsAccounted
<1>9. ASSUME NEW p \in Proc, MarkFails(p) PROVE CardsAccounted'
  <2>1. PICK v \in User, l \in Listing : v = who[p] /\ l = cur[p]
    BY <1>9 DEF MarkFails
  <2>2. /\ \A k \in Listing : (InFlight(v, k) <=> k = l) /\ ~InFlight(v, k)'
        /\ \A u \in User \ {v}, k \in Listing : InFlight(u, k)' <=> InFlight(u, k)
    BY <1>7, <1>9, <2>1 DEF MarkFails, Return, Unwind
  <2>3. /\ UNCHANGED <<cards, delivery>>
        /\ lapses' = [lapses EXCEPT ![v][l] = lapses[v][l] + 1]
    BY <1>9, <2>1 DEF MarkFails
  <2>4. ASSUME NEW u \in User, NEW k \in Listing PROVE CardsAccounted!(u, k)'
    <3>1. CASE u = v /\ k = l
      BY <2>2, <2>3, <3>1 DEF CardsAccounted
    <3>2. CASE u = v /\ k # l
      BY <2>2, <2>3, <3>2 DEF CardsAccounted
    <3>3. CASE u # v
      BY <2>2, <2>3, <3>3 DEF CardsAccounted
    <3>4. QED
      BY <3>1, <3>2, <3>3
  <2>5. QED
    BY <2>4 DEF CardsAccounted
<1>10. CASE Crash
  <2>1. \A u \in User, l \in Listing : ~InFlight(u, l)'
    BY <1>10 DEF Crash, InFlight
  <2>2. QED
    BY <1>10, <2>1 DEF Crash, CardsAccounted
<1>11. ASSUME NEW p \in Proc, NEW u \in User, Call(p, u) PROVE CardsAccounted'
  BY <1>3, <1>11 DEF Call
<1>12. ASSUME NEW p \in Proc, StartRun(p) \/ ReadCandidates(p) PROVE CardsAccounted'
  BY <1>3, <1>12 DEF StartRun, ReadCandidates
<1>13. ASSUME NEW p \in Proc, pc[p] # "mark", Return(p), UNCHANGED <<rows, history>>
       PROVE  CardsAccounted'
  BY <1>3, <1>13 DEF Return, Unwind
<1>14. ASSUME NEW p \in Proc, IndexSearch(p) PROVE CardsAccounted'
  <2>1. ASSUME NEW s \in Search,
               \/ \E L \in SUBSET Listing : Fetch(p, s, L)
               \/ \E l \in Listing : Link(p, s, l)
               \/ IndexFails(p, s)
        PROVE  CardsAccounted'
    BY <1>1, <2>1 DEF Fetch, Link, IndexFails
  <2>2. QED
    BY <1>4, <1>14, <2>1 DEF IndexSearch
<1>15. ASSUME NEW p \in Proc, NEW l \in Listing, NotifyFails(p, l) PROVE CardsAccounted'
  BY <1>1, <1>15 DEF NotifyFails
<1>16. CASE Command \/ UNCHANGED vars
  BY <1>1, <1>2, <1>16
  DEF Command, CreateUser, AddSearch, MarkValid, RemoveSearch, vars
<1>17. QED
  BY <1>5, <1>6, <1>8, <1>9, <1>10, <1>11, <1>12, <1>13, <1>14, <1>15, <1>16
  DEF Next, RunForUser, SendUndelivered, NothingToFetch, NoneFetched, Cancelled, Finish

LEMMA IInvInitially == Init => IInv
  BY TypeInitially, DigestAssumption
  DEF Init, IInv, HoldsMutex, InRun, CandidatesStayFresh, CardsAccounted, InFlight

LEMMA IInvAlways == Spec => []IInv
<1>1. IInv /\ [Next]_vars => IInv'
  BY TypeStep, MutexStep, FreshStep, CardsStep DEF IInv
<1>2. QED
  BY IInvInitially, <1>1, PTL DEF Spec

\* What a run read as undelivered is still undelivered when it sends it, for
\* any number of callers, commands and failures.
THEOREM CandidatesFresh == Spec => []CandidatesStayFresh
<1>1. IInv => CandidatesStayFresh
  BY DEF IInv
<1>2. QED
  BY IInvAlways, <1>1, PTL

\* No second card of a listing without a lost record, and no record without
\* its card.
THEOREM CardsCorrect == Spec => []CardsAccounted
<1>1. IInv => CardsAccounted
  BY DEF IInv
<1>2. QED
  BY IInvAlways, <1>1, PTL

\* So a user gets a listing once, plus once for each record of it that was lost
\* or that they erased: a card in flight has no row yet.
THEOREM OncePlusLapses ==
    Spec => [](\A u \in User, l \in Listing : cards[u][l] <= 1 + lapses[u][l])
<1>1. IInv => \A u \in User, l \in Listing : cards[u][l] <= 1 + lapses[u][l]
  <2> SUFFICES ASSUME IInv, NEW u \in User, NEW l \in Listing
               PROVE  cards[u][l] <= 1 + lapses[u][l]
    OBVIOUS
  <2>1. InFlight(u, l) => delivery[u][l] = "none"
    BY DEF IInv, CandidatesStayFresh, InFlight
  <2>2. lapses[u][l] \in Nat
    BY DEF IInv, TypeOK
  <2>3. cards[u][l] = lapses[u][l] + (IF delivery[u][l] = "sent" THEN 1 ELSE 0)
                                   + (IF InFlight(u, l) THEN 1 ELSE 0)
    BY DEF IInv, CardsAccounted
  <2> QED
    BY <2>1, <2>2, <2>3
<1>2. QED
  BY IInvAlways, <1>1, PTL

-----------------------------------------------------------------------------
\* What a user may be shown comes from what their own searches found.
OwnFinds ==
    /\ \A s \in Search : sources[s] \subseteq found[Owner[s]]
    /\ \A p \in Proc : pc[p] \in {"send", "mark"} => queue[p] \subseteq found[who[p]]

LEMMA OwnFindsStep == TypeOK /\ OwnFinds /\ NoLeak /\ [Next]_vars => OwnFinds' /\ NoLeak'
<1> SUFFICES ASSUME TypeOK, OwnFinds, NoLeak, [Next]_vars PROVE OwnFinds' /\ NoLeak'
  OBVIOUS
<1> USE DigestAssumption DEF OwnFinds, NoLeak, rows, runVars, history
<1>0. /\ found \in [User -> SUBSET Listing] /\ sources \in [Search -> SUBSET Listing]
      /\ queue \in [Proc -> SUBSET Listing] /\ pc \in [Proc -> Location]
      /\ who \in [Proc -> User \cup {NoUser}]
      /\ cards \in [User -> [Listing -> Nat]]
  BY DEF TypeOK
<1>1. ASSUME UNCHANGED <<cards, found>>,
             \A s \in Search : sources'[s] \subseteq sources[s],
             \A p \in Proc : pc'[p] \in {"send", "mark"} =>
                 pc[p] \in {"send", "mark"} /\ who'[p] = who[p] /\ queue'[p] \subseteq queue[p]
      PROVE  OwnFinds' /\ NoLeak'
  BY <1>1
<1>2. CASE Command \/ UNCHANGED vars
  BY <1>0, <1>1, <1>2
  DEF Command, CreateUser, DeleteUser, AddSearch, MarkValid, RemoveSearch, vars
<1>3. ASSUME NEW p \in Proc,
             \/ \E u \in User : Call(p, u)
             \/ StartRun(p)
             \/ \E s \in Search : \/ \E L \in SUBSET Listing : Fetch(p, s, L)
                                  \/ Baseline(p, s) \/ IndexFails(p, s)
             \/ \E l \in Listing : NotifyFails(p, l)
      PROVE  OwnFinds' /\ NoLeak'
  BY <1>0, <1>1, <1>3 DEF Call, StartRun, Fetch, Baseline, IndexFails, NotifyFails
<1>4. ASSUME NEW p \in Proc, NEW s \in Search, NEW l \in Listing, Link(p, s, l)
      PROVE  OwnFinds' /\ NoLeak'
  <2>1. /\ sources' = [sources EXCEPT ![s] = sources[s] \cup {l}]
        /\ found' = [found EXCEPT ![Owner[s]] = found[Owner[s]] \cup {l}]
        /\ UNCHANGED <<cards, who, pc, queue>>
    BY <1>4 DEF Link
  <2>2. \A u \in User : found[u] \subseteq found'[u]
    BY <1>0, <2>1
  <2>3. l \in found'[Owner[s]]
    BY <1>0, <2>1
  <2>4. \A t \in Search : sources'[t] \subseteq found'[Owner[t]]
    BY <1>0, <2>1, <2>2, <2>3
  <2>5. \A q \in Proc : pc[q] \in {"send", "mark"} => who[q] \in User
    BY DEF TypeOK
  <2>6. QED
    BY <2>1, <2>2, <2>4, <2>5
<1>5. ASSUME NEW p \in Proc, ReadCandidates(p) PROVE OwnFinds' /\ NoLeak'
  <2>1. PICK L \in Candidates(who[p]) : queue' = [queue EXCEPT ![p] = L]
    BY <1>5 DEF ReadCandidates
  <2>2. L \subseteq found[who[p]]
    BY <2>1 DEF Candidates, Undelivered, Linked
  <2>3. UNCHANGED <<cards, found, sources, who>> /\ \A q \in Proc \ {p} : pc'[q] = pc[q]
    BY <1>0, <1>5 DEF ReadCandidates
  <2>4. QED
    BY <1>0, <2>1, <2>2, <2>3
<1>6. ASSUME NEW p \in Proc, NEW l \in Listing, Notify(p, l) \/ NotifyUnanswered(p, l)
      PROVE  OwnFinds' /\ NoLeak'
  <2>1. /\ pc[p] = "send" /\ l \in queue[p] /\ who[p] \in User
        /\ cards' = [cards EXCEPT ![who[p]][l] = cards[who[p]][l] + 1]
        /\ queue' = [queue EXCEPT ![p] = queue[p] \ {l}]
        /\ UNCHANGED <<sources, found, who>>
    BY <1>6 DEF Notify, NotifyUnanswered, TypeOK
  <2>2. \A q \in Proc : pc'[q] \in {"send", "mark"} => pc[q] \in {"send", "mark"}
    BY <1>0, <1>6 DEF Notify, NotifyUnanswered
  <2>3. l \in found[who[p]]
    BY <2>1
  <2>4. \A u \in User, k \in Listing :
            cards'[u][k] = cards[u][k] \/ (u = who[p] /\ k = l)
    BY <1>0, <2>1
  <2>5. NoLeak'
    <3>1. ASSUME NEW u \in User, NEW k \in Listing, cards'[u][k] > 0
          PROVE  k \in found[u]
      BY <2>3, <2>4, <3>1
    <3>2. QED
      BY <2>1, <3>1
  <2>6. OwnFinds'
    <3>1. \A q \in Proc : queue'[q] \subseteq queue[q]
      BY <1>0, <2>1
    <3>2. QED
      BY <2>1, <2>2, <3>1
  <2>7. QED
    BY <2>5, <2>6
<1>7. ASSUME NEW p \in Proc, MarkDelivered(p) PROVE OwnFinds' /\ NoLeak'
  BY <1>0, <1>1, <1>7 DEF MarkDelivered
<1>8. ASSUME NEW p \in Proc, Return(p), UNCHANGED <<rows, cards, found>>
      PROVE  OwnFinds' /\ NoLeak'
  BY <1>0, <1>1, <1>8 DEF Return, Unwind
<1>9. CASE Crash
  BY <1>0, <1>1, <1>9 DEF Crash
<1>10. QED
  BY <1>2, <1>3, <1>4, <1>5, <1>6, <1>7, <1>8, <1>9
  DEF Next, RunForUser, IndexSearch, SendUndelivered, NothingToFetch, NoneFetched,
      Cancelled, MarkFails, Finish

\* Nobody is shown what only another user's search found, whoever's rows the
\* shared listings table holds.
THEOREM LeaksNothing == Spec => []NoLeak
<1>1. Init => TypeOK /\ OwnFinds /\ NoLeak
  BY TypeInitially, DigestAssumption DEF Init, OwnFinds, NoLeak
<1>2. TypeOK /\ OwnFinds /\ NoLeak /\ [Next]_vars => (TypeOK /\ OwnFinds /\ NoLeak)'
  BY TypeStep, OwnFindsStep
<1>3. QED
  BY <1>1, <1>2, PTL DEF Spec

-----------------------------------------------------------------------------
(* The digest implements Inbox.                                            *)

\* The open card of a user is the one that is in flight.
OpenIsInFlight == \A u \in User, l \in Listing : InFlight(u, l) <=> OpenCard(u) = l

LEMMA OpenIs == TypeOK /\ HoldsMutex => OpenIsInFlight
<1> SUFFICES ASSUME TypeOK, HoldsMutex, NEW u \in User, NEW l \in Listing
             PROVE  InFlight(u, l) <=> OpenCard(u) = l
  BY DEF OpenIsInFlight
<1>1. l # NoListing
  BY DigestAssumption
<1>2. ASSUME NEW k \in Listing, InFlight(u, l), InFlight(u, k) PROVE k = l
  <2>1. PICK p \in Proc : pc[p] = "mark" /\ who[p] = u /\ cur[p] = l
    BY <1>2 DEF InFlight
  <2>2. PICK q \in Proc : pc[q] = "mark" /\ who[q] = u /\ cur[q] = k
    BY <1>2 DEF InFlight
  <2>3. p = q
    BY <2>1, <2>2, OneRunPerUser DEF InRun
  <2>4. QED
    BY <2>1, <2>2, <2>3
<1>3. QED
  BY <1>1, <1>2 DEF OpenCard

LEMMA OpenIsNext == TypeOK' /\ HoldsMutex' => OpenIsInFlight'
BY OpenIs, PTL

\* A step that leaves the cards in flight of a user alone leaves the open card.
LEMMA OpenFrame ==
    ASSUME OpenIsInFlight, OpenIsInFlight', NEW u \in User,
           \A l \in Listing : InFlight(u, l)' <=> InFlight(u, l)
    PROVE  OpenCard(u)' = OpenCard(u)
<1>1. CASE \E l \in Listing : InFlight(u, l)
  BY <1>1 DEF OpenIsInFlight
<1>2. CASE ~\E l \in Listing : InFlight(u, l)
  BY <1>2 DEF OpenCard
<1>3. QED
  BY <1>1, <1>2

LEMMA PromiseInit == Init => Promise!InboxInit
<1> SUFFICES ASSUME Init PROVE Promise!InboxInit
  OBVIOUS
<1>1. \A u \in User, l \in Listing : ~InFlight(u, l)
  BY DEF Init, InFlight
<1>2. \A u \in User : OpenCard(u) = NoListing
  BY <1>1 DEF OpenCard
<1>3. QED
  BY <1>2 DEF Promise!InboxInit, Init

LEMMA PromiseStep == IInv /\ IInv' /\ [Next]_vars => [Promise!InboxNext]_(Promise!ivars)
<1> SUFFICES ASSUME IInv, IInv', [Next]_vars PROVE [Promise!InboxNext]_(Promise!ivars)
  OBVIOUS
<1> DEFINE Open == [u \in User |-> OpenCard(u)]
<1>0. OpenIsInFlight /\ OpenIsInFlight'
  BY OpenIs, OpenIsNext DEF IInv
<1>1. /\ TypeOK /\ HoldsMutex /\ CandidatesStayFresh
      /\ pc \in [Proc -> Location] /\ who \in [Proc -> User \cup {NoUser}]
      /\ cur \in [Proc -> Listing \cup {NoListing}]
      /\ delivery \in [User -> [Listing -> Status]]
      /\ cards \in [User -> [Listing -> Nat]] /\ lapses \in [User -> [Listing -> Nat]]
  BY DEF IInv, TypeOK
\* Nothing the promise is about changes.
<1>2. ASSUME UNCHANGED <<delivery, cards, lapses>>,
             \A u \in User, l \in Listing : InFlight(u, l)' <=> InFlight(u, l)
      PROVE  UNCHANGED Promise!ivars
  <2>1. \A u \in User : OpenCard(u)' = OpenCard(u)
    BY <1>0, <1>2, OpenFrame
  <2>2. QED
    BY <1>2, <2>1 DEF Promise!ivars
<1>3. ASSUME UNCHANGED <<delivery, cards, lapses, pc, who, cur>>
      PROVE  UNCHANGED Promise!ivars
  BY <1>2, <1>3 DEF InFlight
<1>4. ASSUME NEW p \in Proc, pc[p] # "mark", pc'[p] # "mark",
             UNCHANGED <<delivery, cards, lapses>>,
             \A q \in Proc \ {p} : pc'[q] = pc[q] /\ who'[q] = who[q] /\ cur'[q] = cur[q]
      PROVE  UNCHANGED Promise!ivars
  BY <1>2, <1>4 DEF InFlight
\* The mutex: while a goroutine that is not recording works for a user, no card
\* of that user is open.
<1>5. ASSUME NEW p \in Proc, InRun(p), pc[p] # "mark" PROVE OpenCard(who[p]) = NoListing
  <2>1. ASSUME NEW l \in Listing, InFlight(who[p], l) PROVE FALSE
    BY <1>1, <1>5, <2>1, OneRunPerUser DEF InFlight, InRun
  <2>2. QED
    BY <2>1 DEF OpenCard
<1>6. ASSUME NEW u \in User, DeleteUser(u) PROVE Promise!Erase(u)
  <2>1. \A v \in User : OpenCard(v)' = OpenCard(v)
    BY <1>0, <1>6, OpenFrame DEF DeleteUser, InFlight, runVars
  <2>2. QED
    BY <1>6, <2>1 DEF DeleteUser, Promise!Erase
<1>7. ASSUME NEW p \in Proc, NEW s \in Search, Baseline(p, s)
      PROVE  Promise!Suppress(who[p], sources[s]) /\ who[p] \in User
  <2>1. who[p] \in User /\ sources[s] \subseteq Listing
    BY <1>7 DEF Baseline, IInv, TypeOK
  <2>2. OpenCard(who[p]) = NoListing
    BY <1>5, <1>7 DEF Baseline, InRun
  <2>3. \A v \in User : OpenCard(v)' = OpenCard(v)
    BY <1>0, <1>7, OpenFrame DEF Baseline, InFlight
  <2>4. QED
    BY <1>7, <2>1, <2>2, <2>3 DEF Baseline, Promise!Suppress, history
<1>8. ASSUME NEW p \in Proc, NEW l \in Listing, Notify(p, l)
      PROVE  Promise!Show(who[p], l) /\ who[p] \in User
  <2>1. /\ who[p] \in User /\ pc[p] = "send" /\ l \in queue[p]
        /\ who' = who /\ pc' = [pc EXCEPT ![p] = "mark"] /\ cur' = [cur EXCEPT ![p] = l]
    BY <1>8 DEF Notify, IInv, TypeOK
  <2>2. OpenCard(who[p]) = NoListing /\ delivery[who[p]][l] = "none"
    BY <1>1, <1>5, <2>1 DEF InRun, CandidatesStayFresh
  <2>3. InFlight(who[p], l)'
    BY <1>1, <2>1 DEF InFlight
  <2>4. OpenCard(who[p])' = l
    BY <1>0, <2>1, <2>3 DEF OpenIsInFlight
  <2>5. ASSUME NEW v \in User, v # who[p] PROVE OpenCard(v)' = OpenCard(v)
    <3>1. \A k \in Listing : InFlight(v, k)' <=> InFlight(v, k)
      BY <1>1, <2>1, <2>5 DEF InFlight
    <3>2. QED
      BY <1>0, <3>1, OpenFrame
  <2>6. Open' = [Open EXCEPT ![who[p]] = l]
    BY <2>1, <2>4, <2>5
  <2>7. UNCHANGED <<delivery, lapses>> /\ Promise!Add1(cards, who[p], l) = cards'
    BY <1>8 DEF Notify, rows, Promise!Add1
  <2>8. QED
    BY <2>1, <2>2, <2>6, <2>7 DEF Promise!Show
<1>9. ASSUME NEW p \in Proc, NEW l \in Listing, NotifyUnanswered(p, l)
      PROVE  Promise!ShowUnknown(who[p], l) /\ who[p] \in User
  <2>1. /\ who[p] \in User /\ pc[p] = "send" /\ l \in queue[p]
        /\ UNCHANGED <<delivery, who, pc, cur>>
        /\ Promise!Add1(cards, who[p], l) = cards'
        /\ Promise!Add1(lapses, who[p], l) = lapses'
    BY <1>9 DEF NotifyUnanswered, IInv, TypeOK, rows, Promise!Add1
  <2>2. OpenCard(who[p]) = NoListing /\ delivery[who[p]][l] = "none"
    BY <1>1, <1>5, <2>1 DEF InRun, CandidatesStayFresh
  <2>3. \A v \in User : OpenCard(v)' = OpenCard(v)
    BY <1>0, <2>1, OpenFrame DEF InFlight
  <2>4. QED
    BY <2>1, <2>2, <2>3 DEF Promise!ShowUnknown
\* A card that was in flight is so no longer.
<1>10. ASSUME NEW p \in Proc, NEW v \in User, v = who[p], pc[p] = "mark", pc'[p] # "mark",
              \A q \in Proc \ {p} : pc'[q] = pc[q] /\ who'[q] = who[q] /\ cur'[q] = cur[q]
       PROVE  /\ cur[p] \in Listing /\ OpenCard(v) = cur[p]
              /\ Open' = [Open EXCEPT ![v] = NoListing]
  <2>1. cur[p] \in Listing
    BY <1>10 DEF IInv, TypeOK
  <2>2. OpenCard(v) = cur[p]
    BY <1>0, <1>10, <2>1 DEF OpenIsInFlight, InFlight
  <2>3. \A q \in Proc \ {p} : pc[q] = "mark" => who[q] # v
    BY <1>1, <1>10, OneRunPerUser DEF InRun
  <2>4. OpenCard(v)' = NoListing
    <3>1. \A l \in Listing : ~InFlight(v, l)'
      BY <1>10, <2>3 DEF InFlight
    <3>2. QED
      BY <3>1 DEF OpenCard
  <2>5. ASSUME NEW w \in User, w # v PROVE OpenCard(w)' = OpenCard(w)
    <3>1. \A l \in Listing : InFlight(w, l)' <=> InFlight(w, l)
      BY <1>10, <2>5 DEF InFlight
    <3>2. QED
      BY <1>0, <3>1, OpenFrame
  <2>6. QED
    BY <2>1, <2>2, <2>4, <2>5
<1>11. ASSUME NEW p \in Proc, MarkDelivered(p) \/ MarkFails(p) PROVE Promise!InboxNext
  <2>1. PICK v \in User : v = who[p]
    BY <1>11 DEF MarkDelivered, MarkFails, IInv, TypeOK
  <2>2. /\ pc[p] = "mark" /\ pc'[p] # "mark"
        /\ \A q \in Proc \ {p} : pc'[q] = pc[q] /\ who'[q] = who[q] /\ cur'[q] = cur[q]
    BY <1>1, <1>11 DEF MarkDelivered, MarkFails, Return, Unwind
  <2>3. /\ cur[p] \in Listing /\ OpenCard(v) = cur[p]
        /\ Open' = [Open EXCEPT ![v] = NoListing]
    BY <1>10, <2>1, <2>2
  <2>4. CASE MarkDelivered(p)
    <3>1. /\ delivery' = [delivery EXCEPT ![v] = [delivery[v] EXCEPT ![OpenCard(v)] = "sent"]]
          /\ UNCHANGED <<cards, lapses>>
      BY <2>1, <2>3, <2>4 DEF MarkDelivered, history
    <3>2. Promise!Record(v)
      BY <2>3, <3>1 DEF Promise!Record
    <3>3. QED
      BY <3>2 DEF Promise!InboxNext
  <2>5. CASE MarkFails(p)
    <3>1. /\ lapses' = [lapses EXCEPT ![v][cur[p]] = lapses[v][cur[p]] + 1]
          /\ UNCHANGED <<delivery, cards>>
      BY <2>1, <2>5 DEF MarkFails, rows
    <3>2. lapses' = [u \in User |-> [l \in Listing |->
                        lapses[u][l] + IF u \in {v} /\ OpenCard(u) = l THEN 1 ELSE 0]]
      <4>1. lapses' \in [User -> [Listing -> Nat]]
        BY DEF IInv, TypeOK
      <4>2. ASSUME NEW u \in User, NEW l \in Listing
            PROVE  lapses'[u][l] =
                       lapses[u][l] + IF u \in {v} /\ OpenCard(u) = l THEN 1 ELSE 0
        BY <1>1, <2>3, <3>1
      <4>3. QED
        BY <4>1, <4>2
    <3>3. Open' = [u \in User |-> IF u \in {v} THEN NoListing ELSE OpenCard(u)]
      BY <2>3
    <3>4. Promise!Lose({v})
      BY <3>1, <3>2, <3>3 DEF Promise!Lose
    <3>5. QED
      BY <3>4 DEF Promise!InboxNext
  <2>6. QED
    BY <1>11, <2>4, <2>5
<1>12. CASE Crash
  <2>1. \A u \in User : OpenCard(u)' = NoListing
    BY <1>12 DEF Crash, OpenCard, InFlight
  <2>2. lapses' = [u \in User |-> [l \in Listing |->
                      lapses[u][l] + IF u \in User /\ OpenCard(u) = l THEN 1 ELSE 0]]
    BY <1>0, <1>12 DEF Crash, OpenIsInFlight
  <2>3. UNCHANGED <<delivery, cards>>
    BY <1>12 DEF Crash, rows
  <2>4. Promise!Lose(User)
    BY <2>1, <2>2, <2>3 DEF Promise!Lose
  <2>5. QED
    BY <2>4 DEF Promise!InboxNext
\* The steps the promise does not see.
<1>13. ASSUME \/ \E u \in User : CreateUser(u)
              \/ \E s \in Search : AddSearch(s) \/ MarkValid(s) \/ RemoveSearch(s)
              \/ UNCHANGED vars
       PROVE  UNCHANGED Promise!ivars
  BY <1>3, <1>13
  DEF CreateUser, AddSearch, MarkValid, RemoveSearch, runVars, history, vars
<1>14. ASSUME NEW p \in Proc, NEW s \in Search,
              \/ \E L \in SUBSET Listing : Fetch(p, s, L)
              \/ \E l \in Listing : Link(p, s, l)
              \/ IndexFails(p, s)
       PROVE  UNCHANGED Promise!ivars
  BY <1>3, <1>14 DEF Fetch, Link, IndexFails, rows, history
<1>15. ASSUME NEW p \in Proc,
              \/ \E u \in User : Call(p, u)
              \/ StartRun(p)
              \/ ReadCandidates(p)
              \/ \E l \in Listing : NotifyFails(p, l)
       PROVE  UNCHANGED Promise!ivars
  <2>1. /\ pc[p] # "mark" /\ pc'[p] # "mark"
        /\ UNCHANGED <<delivery, cards, lapses>>
        /\ \A q \in Proc \ {p} : pc'[q] = pc[q] /\ who'[q] = who[q] /\ cur'[q] = cur[q]
    BY <1>1, <1>15 DEF Call, StartRun, ReadCandidates, NotifyFails, rows, history
  <2>2. QED
    BY <1>4, <2>1
<1>16. ASSUME NEW p \in Proc, pc[p] # "mark", Return(p), UNCHANGED <<rows, history>>
       PROVE  UNCHANGED Promise!ivars
  <2>1. /\ pc'[p] # "mark" /\ UNCHANGED <<delivery, cards, lapses>>
        /\ \A q \in Proc \ {p} : pc'[q] = pc[q] /\ who'[q] = who[q] /\ cur'[q] = cur[q]
    BY <1>1, <1>16 DEF Return, Unwind, rows, history
  <2>2. QED
    BY <1>4, <1>16, <2>1
<1>17. ASSUME NEW p \in Proc, NothingToFetch(p) \/ NoneFetched(p) \/ Cancelled(p) \/ Finish(p)
       PROVE  UNCHANGED Promise!ivars
  <2>1. pc[p] # "mark" /\ Return(p) /\ UNCHANGED <<rows, history>>
    BY <1>17 DEF NothingToFetch, NoneFetched, Cancelled, Finish
  <2>2. QED
    BY <1>16, <2>1
<1>18. CASE \E u \in User : DeleteUser(u)
  BY <1>6, <1>18 DEF Promise!InboxNext
<1>19. ASSUME NEW p \in Proc, NEW s \in Search, Baseline(p, s) PROVE Promise!InboxNext
  <2>1. sources[s] \in SUBSET Listing
    BY <1>19 DEF Baseline, IInv, TypeOK
  <2>2. QED
    BY <1>7, <1>19, <2>1 DEF Promise!InboxNext
<1>20. ASSUME NEW p \in Proc, NEW l \in Listing, Notify(p, l) \/ NotifyUnanswered(p, l)
       PROVE  Promise!InboxNext
  BY <1>8, <1>9, <1>20 DEF Promise!InboxNext
<1>21. QED
  BY <1>11, <1>12, <1>13, <1>14, <1>15, <1>17, <1>18, <1>19, <1>20
  DEF Next, Command, RunForUser, IndexSearch, SendUndelivered

\* The runs of the digest, their failures and crashes included, keep what
\* Inbox promises to each user: a card is only shown while its delivery has no
\* row, one at a time, and is then recorded or its record lapses.
THEOREM Implements == Spec => KeepsPromise
<1>1. Init => Promise!InboxInit
  BY PromiseInit
<1>2. IInv /\ IInv' /\ [Next]_vars => [Promise!InboxNext]_(Promise!ivars)
  BY PromiseStep
<1>3. QED
  BY <1>1, <1>2, IInvAlways, PTL DEF Spec, KeepsPromise, Promise!InboxSpec
-----------------------------------------------------------------------------
(* The page a search starts with.                                          *)

\* Only the run of its user works on a search, which the validator has seen.
StageOfRun ==
    \A p \in Proc, s \in Search : stage[p][s] # "off" =>
        InRun(p) /\ who[p] = Owner[s] /\ search[s] \in {"valid", "deleted"}

FirstIndex(p, s) == fresh[p][s] /\ stage[p][s] \in {"fetch", "link", "baseline"}

\* The first index of a search that is not seeded yet: what its page lists is
\* linked, or about to be.
FirstUnderWay ==
    \A p \in Proc, s \in Search :
        /\ stage[p][s] = "baseline" => fresh[p][s]
        /\ search[s] = "valid" /\ FirstIndex(p, s) =>
              /\ ~seeded[s]
              /\ stage[p][s] = "link" => firstPage[s] \subseteq sources[s] \cup page[p][s]
              /\ stage[p][s] = "baseline" => firstPage[s] \subseteq sources[s] /\ sources[s] # {}

\* The page of a seeded search has rows in deliveries, and its sources keep a
\* later run from another first index.
PageRecorded ==
    \A s \in Search :
        /\ search[s] \in {"unused", "pending"} => ~seeded[s]
        /\ search[s] = "valid" /\ seeded[s] =>
              /\ sources[s] # {}
              /\ \A l \in firstPage[s] : delivery[Owner[s]][l] # "none"

SeedInv == StageOfRun /\ FirstUnderWay /\ PageRecorded

\* A step outside the indexing, which may end runs and remove searches.
LEMMA SeedFrame ==
    ASSUME SeedInv, UNCHANGED <<firstPage, seeded>>,
           \A p \in Proc, s \in Search :
              \/ /\ InRun(p) => InRun(p)' /\ who'[p] = who[p]
                 /\ stage'[p][s] = stage[p][s] /\ fresh'[p][s] = fresh[p][s]
                 /\ page'[p][s] = page[p][s]
              \/ stage'[p][s] = "off",
           \A s \in Search :
              \/ /\ search'[s] = search[s]
                 /\ search[s] = "valid" => sources'[s] = sources[s]
              \/ search[s] = "unused" /\ search'[s] = "pending"
              \/ search[s] = "pending" /\ search'[s] = "valid"
              \/ search'[s] = "deleted",
           \A s \in Search : search'[s] = "valid" =>
              \A l \in Listing : delivery[Owner[s]][l] # "none" =>
                                 delivery'[Owner[s]][l] # "none",
           firstPage \in [Search -> SUBSET Listing]
    PROVE  SeedInv'
<1>1. StageOfRun'
  BY DEF SeedInv, StageOfRun
<1>2. FirstUnderWay'
  BY DEF SeedInv, StageOfRun, FirstUnderWay, PageRecorded, FirstIndex
<1>3. PageRecorded'
  BY DEF SeedInv, PageRecorded
<1> QED
  BY <1>1, <1>2, <1>3 DEF SeedInv

LEMMA SeedStep == TypeOK /\ HoldsMutex /\ SeedInv /\ [Next]_vars => SeedInv'
<1> SUFFICES ASSUME TypeOK, HoldsMutex, SeedInv, [Next]_vars PROVE SeedInv'
  OBVIOUS
<1> USE DigestAssumption
<1>0. /\ sources \in [Search -> SUBSET Listing] /\ search \in [Search -> SearchState]
      /\ pc \in [Proc -> Location] /\ who \in [Proc -> User \cup {NoUser}]
      /\ stage \in [Proc -> [Search -> Stage]] /\ fresh \in [Proc -> [Search -> BOOLEAN]]
      /\ page \in [Proc -> [Search -> SUBSET Listing]]
      /\ firstPage \in [Search -> SUBSET Listing] /\ seeded \in [Search -> BOOLEAN]
      /\ delivery \in [User -> [Listing -> Status]]
      /\ \A p \in Proc : (pc[p] = "idle") <=> (who[p] = NoUser)
  BY DEF TypeOK
<1>1. ASSUME NEW u \in User, DeleteUser(u) PROVE SeedInv'
  BY <1>0, <1>1, SeedFrame DEF DeleteUser, runVars, InRun
<1>2. CASE (\E u \in User : CreateUser(u)) \/ UNCHANGED vars
  BY <1>0, <1>2, SeedFrame DEF CreateUser, vars, rows, runVars, history, InRun
<1>3. ASSUME NEW s \in Search, AddSearch(s) \/ MarkValid(s) \/ RemoveSearch(s) PROVE SeedInv'
  BY <1>0, <1>3, SeedFrame DEF AddSearch, MarkValid, RemoveSearch, runVars, history, InRun
<1>4. ASSUME NEW p \in Proc, NEW u \in User, Call(p, u) PROVE SeedInv'
  BY <1>0, <1>4, SeedFrame DEF Call, rows, history, InRun
<1>5. ASSUME NEW p \in Proc, Return(p), UNCHANGED <<rows, firstPage, seeded>> PROVE SeedInv'
  BY <1>0, <1>5, SeedFrame DEF Return, Unwind, rows, InRun
<1>6. ASSUME NEW p \in Proc, MarkFails(p) \/ NothingToFetch(p) \/ NoneFetched(p)
                               \/ Cancelled(p) \/ Finish(p)
      PROVE  SeedInv'
  BY <1>5, <1>6 DEF MarkFails, NothingToFetch, NoneFetched, Cancelled, Finish, history
<1>7. CASE Crash
  BY <1>0, <1>7, SeedFrame DEF Crash, rows, history
<1>8. ASSUME NEW p \in Proc, NEW l \in Listing,
             Notify(p, l) \/ NotifyFails(p, l) \/ NotifyUnanswered(p, l)
      PROVE  SeedInv'
  BY <1>0, <1>8, SeedFrame DEF Notify, NotifyFails, NotifyUnanswered, rows, history, InRun
<1>9. ASSUME NEW p \in Proc, MarkDelivered(p) PROVE SeedInv'
  <2>1. /\ UNCHANGED <<search, sources, who, stage, fresh, page, firstPage, seeded>>
        /\ \A q \in Proc : InRun(q) => InRun(q)'
    BY <1>0, <1>9 DEF MarkDelivered, history, InRun
  <2>2. \A u \in User, l \in Listing : delivery[u][l] # "none" => delivery'[u][l] # "none"
    BY <1>0, <1>9 DEF MarkDelivered
  <2>3. \A s \in Search : Owner[s] \in User
    OBVIOUS
  <2> QED
    BY <1>0, <2>1, <2>2, <2>3, SeedFrame
<1>10. ASSUME NEW p \in Proc, ReadCandidates(p) PROVE SeedInv'
  <2>1. /\ UNCHANGED <<search, sources, delivery, who, stage, fresh, page, firstPage, seeded>>
        /\ \A q \in Proc : InRun(q) => InRun(q)'
    BY <1>0, <1>10 DEF ReadCandidates, rows, history, InRun
  <2> QED
    BY <1>0, <2>1, SeedFrame
\* A run counts as the first of a search only while that has no sources.
<1>11. ASSUME NEW p \in Proc, StartRun(p) PROVE SeedInv'
  <2>1. /\ UNCHANGED <<search, sources, delivery, who, page, firstPage, seeded>>
        /\ who[p] \in User /\ pc' = [pc EXCEPT ![p] = "index"]
        /\ \A q \in Proc \ {p} : stage'[q] = stage[q] /\ fresh'[q] = fresh[q]
        /\ \A s \in Search :
              /\ stage'[p][s] \in {"fetch", "off"}
              /\ stage'[p][s] = "fetch" => Owner[s] = who[p] /\ search[s] = "valid"
              /\ fresh'[p][s] => sources[s] = {}
    BY <1>0, <1>11 DEF StartRun, ValidSearches, rows, history
  <2>2. StageOfRun'
    BY <1>0, <2>1 DEF SeedInv, StageOfRun, InRun
  <2>3. ASSUME NEW q \in Proc, NEW s \in Search PROVE FirstUnderWay!(q, s)'
    <3>1. CASE q # p
      BY <2>1, <3>1 DEF SeedInv, FirstUnderWay, FirstIndex
    <3>2. CASE q = p
      <4>1. seeded[s] /\ search[s] = "valid" => ~fresh'[p][s]
        BY <2>1 DEF SeedInv, PageRecorded
      <4> QED
        BY <2>1, <3>2, <4>1 DEF FirstIndex
    <3> QED
      BY <3>1, <3>2
  <2>4. PageRecorded'
    BY <2>1 DEF SeedInv, PageRecorded
  <2> QED
    BY <2>2, <2>3, <2>4 DEF SeedInv, FirstUnderWay
\* What the goroutine of one search does, which nobody else works on.
<1>12. ASSUME NEW p \in Proc, NEW s \in Search, stage[p][s] # "off",
              UNCHANGED <<search, pc, who, fresh>>,
              \A q \in Proc, t \in Search : q # p \/ t # s =>
                  stage'[q][t] = stage[q][t] /\ page'[q][t] = page[q][t],
              \A t \in Search \ {s} : /\ sources'[t] = sources[t]
                                      /\ firstPage'[t] = firstPage[t]
                                      /\ seeded'[t] = seeded[t],
              \A u \in User, l \in Listing :
                  delivery[u][l] # "none" => delivery'[u][l] # "none",
              FirstUnderWay!(p, s)',
              search[s] = "valid" /\ seeded'[s] =>
                  /\ sources'[s] # {}
                  /\ \A l \in firstPage'[s] : delivery'[Owner[s]][l] # "none"
       PROVE  SeedInv'
  <2>1. \A q \in Proc \ {p} : stage[q][s] = "off"
    BY <1>12 DEF SeedInv, StageOfRun, HoldsMutex
  <2>2. StageOfRun'
    BY <1>12 DEF SeedInv, StageOfRun, InRun
  <2>3. ASSUME NEW q \in Proc, NEW t \in Search PROVE FirstUnderWay!(q, t)'
    <3>1. CASE t # s
      BY <1>12, <3>1 DEF SeedInv, FirstUnderWay, FirstIndex
    <3>2. CASE t = s /\ q # p
      BY <1>12, <2>1, <3>2 DEF FirstIndex
    <3>3. CASE t = s /\ q = p
      BY <1>12, <3>3
    <3> QED
      BY <3>1, <3>2, <3>3
  <2>4. search[s] \in {"valid", "deleted"}
    BY <1>12 DEF SeedInv, StageOfRun
  <2>5. ASSUME NEW t \in Search PROVE PageRecorded!(t)'
    <3>1. CASE t = s
      BY <1>12, <2>4, <3>1
    <3>2. CASE t # s
      <4>1. Owner[t] \in User /\ firstPage[t] \subseteq Listing
        BY <1>0
      <4>2. PageRecorded!(t)
        BY DEF SeedInv, PageRecorded
      <4> QED
        BY <1>12, <3>2, <4>1, <4>2
    <3> QED
      BY <3>1, <3>2
  <2> QED
    BY <2>2, <2>3, <2>5 DEF SeedInv, FirstUnderWay, PageRecorded
<1>13. ASSUME NEW p \in Proc, NEW s \in Search, NEW L \in SUBSET Listing, Fetch(p, s, L)
       PROVE  SeedInv'
  <2>1. /\ stage[p][s] = "fetch" /\ stage'[p][s] \in {"ok", "link"}
        /\ UNCHANGED <<search, sources, delivery, pc, who, fresh, seeded>>
        /\ page'[p][s] = L
        /\ firstPage'[s] = IF fresh[p][s] /\ L # {} THEN L ELSE firstPage[s]
        /\ stage'[p][s] = "link" => L # {}
        /\ \A q \in Proc, t \in Search : q # p \/ t # s =>
              stage'[q][t] = stage[q][t] /\ page'[q][t] = page[q][t]
        /\ \A t \in Search \ {s} : firstPage'[t] = firstPage[t]
    BY <1>0, <1>13 DEF Fetch, rows
  <2>2. search[s] = "valid" /\ fresh[p][s] => ~seeded[s]
    BY <2>1 DEF SeedInv, FirstUnderWay, FirstIndex
  <2>3. FirstUnderWay!(p, s)'
    BY <2>1, <2>2 DEF FirstIndex
  <2>4. search[s] = "valid" /\ seeded[s] =>
            sources[s] # {} /\ \A l \in firstPage[s] : delivery[Owner[s]][l] # "none"
    BY DEF SeedInv, PageRecorded
  <2>5. search[s] = "valid" /\ seeded'[s] =>
            sources'[s] # {} /\ \A l \in firstPage'[s] : delivery'[Owner[s]][l] # "none"
    BY <2>1, <2>2, <2>4
  <2> QED
    BY <1>12, <2>1, <2>3, <2>5
<1>14. ASSUME NEW p \in Proc, NEW s \in Search, NEW l \in Listing, Link(p, s, l)
       PROVE  SeedInv'
  <2>1. /\ stage[p][s] = "link" /\ stage'[p][s] \in {"link", "baseline", "ok"}
        /\ UNCHANGED <<search, delivery, pc, who, fresh, firstPage, seeded>>
        /\ sources'[s] = sources[s] \cup {l} /\ page'[p][s] = page[p][s] \ {l}
        /\ stage'[p][s] # "link" => page[p][s] = {l}
        /\ stage'[p][s] = "baseline" => fresh[p][s]
        /\ \A q \in Proc, t \in Search : q # p \/ t # s =>
              stage'[q][t] = stage[q][t] /\ page'[q][t] = page[q][t]
        /\ \A t \in Search \ {s} : sources'[t] = sources[t]
    BY <1>0, <1>14 DEF Link
  <2>2. search[s] = "valid" /\ fresh[p][s] =>
            ~seeded[s] /\ firstPage[s] \subseteq sources[s] \cup page[p][s]
    BY <2>1 DEF SeedInv, FirstUnderWay, FirstIndex
  <2>3. FirstUnderWay!(p, s)'
    BY <2>1, <2>2 DEF FirstIndex
  <2>4. search[s] = "valid" /\ seeded'[s] =>
            sources'[s] # {} /\ \A k \in firstPage'[s] : delivery'[Owner[s]][k] # "none"
    BY <2>1 DEF SeedInv, PageRecorded
  <2> QED
    BY <1>12, <2>1, <2>3, <2>4
<1>15. ASSUME NEW p \in Proc, NEW s \in Search, Baseline(p, s) PROVE SeedInv'
  <2>1. /\ stage[p][s] = "baseline" /\ stage'[p][s] = "ok"
        /\ UNCHANGED <<search, sources, pc, who, fresh, page, firstPage>>
        /\ \A q \in Proc, t \in Search : q # p \/ t # s => stage'[q][t] = stage[q][t]
        /\ \A t \in Search \ {s} : seeded'[t] = seeded[t]
    BY <1>0, <1>15 DEF Baseline
  <2>2. search[s] = "valid" => firstPage[s] \subseteq sources[s] /\ sources[s] # {}
    BY <2>1 DEF SeedInv, FirstUnderWay, FirstIndex
  <2>3. who[p] = Owner[s] /\ who[p] \in User
    BY <1>0, <2>1 DEF SeedInv, StageOfRun
  <2>4. /\ \A u \in User, l \in Listing :
              delivery[u][l] # "none" => delivery'[u][l] # "none"
        /\ \A l \in sources[s] : delivery'[Owner[s]][l] # "none"
    BY <1>0, <1>15, <2>3 DEF Baseline
  <2>5. FirstUnderWay!(p, s)'
    BY <2>1 DEF FirstIndex
  <2>6. search[s] = "valid" =>
            sources'[s] # {} /\ \A l \in firstPage'[s] : delivery'[Owner[s]][l] # "none"
    BY <2>1, <2>2, <2>4
  <2> QED
    BY <1>12, <2>1, <2>4, <2>5, <2>6
<1>16. ASSUME NEW p \in Proc, NEW s \in Search, IndexFails(p, s) PROVE SeedInv'
  <2>1. /\ stage[p][s] # "off" /\ stage'[p][s] = "failed"
        /\ UNCHANGED <<search, sources, delivery, pc, who, fresh, firstPage, seeded>>
        /\ \A q \in Proc, t \in Search : q # p \/ t # s =>
              stage'[q][t] = stage[q][t] /\ page'[q][t] = page[q][t]
    BY <1>0, <1>16 DEF IndexFails, rows, history
  <2>2. FirstUnderWay!(p, s)'
    BY <2>1 DEF FirstIndex
  <2>3. search[s] = "valid" /\ seeded'[s] =>
            sources'[s] # {} /\ \A l \in firstPage'[s] : delivery'[Owner[s]][l] # "none"
    BY <2>1 DEF SeedInv, PageRecorded
  <2> QED
    BY <1>12, <2>1, <2>2, <2>3
<1> QED
  BY <1>1, <1>2, <1>3, <1>4, <1>6, <1>7, <1>8, <1>9, <1>10, <1>11, <1>13, <1>14, <1>15, <1>16
  DEF Next, Command, RunForUser, IndexSearch, SendUndelivered

\* A listing of a seeded search's first page is no candidate: cards only go out
\* for listings without a row.
LEMMA ShownHadNoRow ==
    ASSUME TypeOK, CandidatesStayFresh, [Next]_vars, NEW u \in User, NEW l \in Listing,
           delivery[u][l] # "none"
    PROVE  cards'[u][l] = cards[u][l]
<1> USE DEF rows, runVars, history
<1>1. ASSUME NEW p \in Proc, NEW k \in Listing, Notify(p, k) \/ NotifyUnanswered(p, k)
      PROVE  cards'[u][l] = cards[u][l]
  <2>1. delivery[who[p]][k] = "none" /\ cards' = [cards EXCEPT ![who[p]][k] = cards[who[p]][k] + 1]
    BY <1>1 DEF Notify, NotifyUnanswered, CandidatesStayFresh
  <2>2. u # who[p] \/ l # k
    BY <2>1
  <2> QED
    BY <2>1, <2>2 DEF TypeOK
<1>2. ASSUME NEW v \in User, CreateUser(v) \/ DeleteUser(v) PROVE UNCHANGED cards
  BY <1>2 DEF CreateUser, DeleteUser
<1>3. ASSUME NEW s \in Search, AddSearch(s) \/ MarkValid(s) \/ RemoveSearch(s)
      PROVE  UNCHANGED cards
  BY <1>3 DEF AddSearch, MarkValid, RemoveSearch
<1>4. ASSUME NEW p \in Proc, NEW s \in Search,
             \/ \E L \in SUBSET Listing : Fetch(p, s, L)
             \/ \E k \in Listing : Link(p, s, k)
             \/ Baseline(p, s) \/ IndexFails(p, s)
      PROVE  UNCHANGED cards
  BY <1>4 DEF Fetch, Link, Baseline, IndexFails
<1>5. ASSUME NEW p \in Proc,
             \/ \E v \in User : Call(p, v)
             \/ \E k \in Listing : NotifyFails(p, k)
             \/ StartRun(p) \/ NothingToFetch(p) \/ ReadCandidates(p) \/ NoneFetched(p)
             \/ Cancelled(p) \/ MarkDelivered(p) \/ MarkFails(p) \/ Finish(p)
      PROVE  UNCHANGED cards
  BY <1>5 DEF Call, NotifyFails, StartRun, NothingToFetch, ReadCandidates, NoneFetched,
              Cancelled, MarkDelivered, MarkFails, Finish
<1>6. CASE Crash \/ UNCHANGED vars
  BY <1>6 DEF Crash, vars
<1> QED
  BY <1>1, <1>2, <1>3, <1>4, <1>5, <1>6
  DEF Next, Command, RunForUser, IndexSearch, SendUndelivered

\* A page whose first index ran to its end is never sent (digest.go:201-203), by
\* whichever run, for any searches, listings and failures.
THEOREM StartsQuiet == Spec => StartNotReplayed
<1>1. Init => SeedInv
  BY DigestAssumption
  DEF Init, SeedInv, StageOfRun, FirstUnderWay, FirstIndex, PageRecorded
<1>2. IInv /\ SeedInv /\ [Next]_vars => SeedInv'
  BY SeedStep DEF IInv
<1>3. IInv /\ SeedInv /\ [Next]_vars =>
          \A s \in Search : \A l \in firstPage[s] :
              (seeded[s] /\ search[s] = "valid")
                  => cards'[Owner[s]][l] = cards[Owner[s]][l]
  <2> SUFFICES ASSUME IInv, SeedInv, [Next]_vars, NEW s \in Search, NEW l \in firstPage[s],
                      seeded[s], search[s] = "valid"
               PROVE  cards'[Owner[s]][l] = cards[Owner[s]][l]
    OBVIOUS
  <2>1. Owner[s] \in User /\ l \in Listing
    BY DigestAssumption DEF IInv, TypeOK
  <2>2. delivery[Owner[s]][l] # "none"
    BY DEF SeedInv, PageRecorded
  <2> QED
    BY <2>1, <2>2, ShownHadNoRow DEF IInv
<1> QED
  BY <1>1, <1>2, <1>3, IInvAlways, PTL DEF Spec, StartNotReplayed
=============================================================================
