----------------------------- MODULE PollerProofs -----------------------------
(***************************************************************************)
(* Theorems about module Poller, for any number of instances, updates and  *)
(* attempts, and any lease.                                                *)
(***************************************************************************)
EXTENDS Poller, TLAPS

LEMMA TypeInit == Init => TypeOK
<1> SUFFICES ASSUME Init PROVE TypeOK
    OBVIOUS
<1>1. MaxAttempts \in Nat \ {0} /\ LastUpdate \in Nat /\ Lease \in Nat
    BY PollerAssumption
<1>2. \A i \in Instance : /\ pc[i] = "down" /\ batch[i] = {}
                          /\ failures[i] = 0
    BY DEF Init
<1>3. pc \in [Instance -> Location] /\ batch \in [Instance -> SUBSET Update]
    BY DEF Init, Location
<1>4. handled \in [Update -> Nat] /\ failed \in [Update -> 0..MaxAttempts]
    BY <1>1 DEF Init
<1>5. /\ offset \in [Instance -> 0..LastUpdate]
      /\ failing \in [Instance -> 0..LastUpdate]
      /\ failures \in [Instance -> 0..MaxAttempts]
    BY <1>1 DEF Init
<1>6. overlap \in BOOLEAN /\ dead \subseteq Update /\ lapsed \subseteq Instance
    BY DEF Init
<1>7. /\ arrived \in 0..LastUpdate /\ forgotten \in 0..LastUpdate
      /\ stored \in 0..LastUpdate /\ lease \in 0..Lease /\ faults \in Nat
      /\ holder \in Instance \cup {NoOne}
    BY <1>1 DEF Init
<1> QED
    BY <1>1, <1>2, <1>3, <1>4, <1>5, <1>6, <1>7 DEF TypeOK

\* TypeOK in the parts that its proof takes one by one.
RowTyped ==
    /\ arrived \in 0..LastUpdate
    /\ forgotten \in 0..LastUpdate
    /\ stored \in 0..LastUpdate
    /\ holder \in Instance \cup {NoOne}
    /\ lease \in 0..Lease

PastTyped ==
    /\ handled \in [Update -> Nat]
    /\ failed \in [Update -> 0..MaxAttempts]
    /\ dead \subseteq Update
    /\ lapsed \subseteq Instance
    /\ overlap \in BOOLEAN
    /\ faults \in Nat

LocalTyped ==
    /\ pc \in [Instance -> Location]
    /\ offset \in [Instance -> 0..LastUpdate]
    /\ failing \in [Instance -> 0..LastUpdate]
    /\ failures \in [Instance -> 0..MaxAttempts]

BatchTyped ==
    /\ batch \in [Instance -> SUBSET Update]
    /\ \A i \in Instance : pc[i] \in {"handle", "advance"} <=> batch[i] # {}

CountTyped == \A i \in Instance : failures[i] < MaxAttempts \/ pc[i] = "advance"

LEMMA TypeParts == TypeOK <=> RowTyped /\ PastTyped /\ LocalTyped /\ BatchTyped /\ CountTyped
BY DEF TypeOK, RowTyped, PastTyped, LocalTyped, BatchTyped, CountTyped

LEMMA RowStep == TypeOK /\ [Next]_vars => RowTyped'
<1> SUFFICES ASSUME RowTyped, LocalTyped, [Next]_vars PROVE RowTyped'
    BY TypeParts
<1>0. LastUpdate \in Nat /\ Lease \in Nat \ {0}
    BY PollerAssumption
<1>1. \A i \in Instance : offset[i] \in 0..LastUpdate
    BY DEF LocalTyped
<1> USE <1>0 DEF RowTyped, server, row
<1>2. CASE Arrive \/ Tick
    BY <1>2 DEF Arrive, Tick
<1>3. ASSUME NEW i \in Instance,
             \/ Refused(i) \/ ReadOffset(i)
             \/ \E u \in Update : Handled(i, u) \/ Retry(i, u) \/ DeadLetter(i, u)
             \/ Crash(i)
      PROVE  RowTyped'
    BY <1>3 DEF Refused, ReadOffset, Handled, Retry, DeadLetter, Failed, Crash
<1>4. ASSUME NEW i \in Instance, AcquirePollLease(i) PROVE RowTyped'
    BY <1>4 DEF AcquirePollLease
<1>5. ASSUME NEW i \in Instance, GetUpdates(i) PROVE RowTyped'
    BY <1>1, <1>5 DEF GetUpdates
<1>6. ASSUME NEW i \in Instance, NEW u \in Update, AdvanceUpdateID(i, u) PROVE RowTyped'
    BY <1>6 DEF AdvanceUpdateID, Update
<1>7. ASSUME NEW i \in Instance, AdvanceFails(i) \/ Shutdown(i) PROVE RowTyped'
    BY <1>7 DEF AdvanceFails, Shutdown, ReleasePollLease
<1>8. CASE UNCHANGED vars
    BY <1>8 DEF vars
<1> QED
    BY <1>2, <1>3, <1>4, <1>5, <1>6, <1>7, <1>8 DEF Next, Run

LEMMA PastStep == TypeOK /\ [Next]_vars => PastTyped'
<1> SUFFICES ASSUME PastTyped, RowTyped, [Next]_vars PROVE PastTyped'
    BY TypeParts
<1>0. MaxAttempts \in Nat \ {0}
    BY PollerAssumption
<1> USE <1>0 DEF PastTyped, history
<1>1. CASE Arrive
    BY <1>1 DEF Arrive
<1>2. CASE Tick
    <2>1. lapsed' \subseteq Instance
        BY <1>2 DEF Tick, RowTyped
    <2> QED BY <1>2, <2>1 DEF Tick
<1>3. ASSUME NEW i \in Instance, AcquirePollLease(i) PROVE PastTyped'
    BY <1>3 DEF AcquirePollLease
<1>4. ASSUME NEW i \in Instance,
             \/ Refused(i) \/ ReadOffset(i) \/ GetUpdates(i) \/ Shutdown(i)
             \/ \E u \in Update : AdvanceUpdateID(i, u)
      PROVE  PastTyped'
    BY <1>4 DEF Refused, ReadOffset, GetUpdates, Shutdown, AdvanceUpdateID
<1>5. ASSUME NEW i \in Instance, NEW u \in Update, Handled(i, u) PROVE PastTyped'
    BY <1>5 DEF Handled
<1>6. ASSUME NEW i \in Instance, NEW u \in Update, Retry(i, u) \/ DeadLetter(i, u)
      PROVE  PastTyped'
    <2>1. failed' \in [Update -> 0..MaxAttempts]
        BY <1>6 DEF Retry, DeadLetter, Failed
    <2> QED BY <1>6, <2>1 DEF Retry, DeadLetter, Failed
<1>7. ASSUME NEW i \in Instance, AdvanceFails(i) \/ Crash(i) PROVE PastTyped'
    BY <1>7 DEF AdvanceFails, Crash
<1>8. CASE UNCHANGED vars
    BY <1>8 DEF vars
<1> QED
    BY <1>1, <1>2, <1>3, <1>4, <1>5, <1>6, <1>7, <1>8 DEF Next, Run

LEMMA LocalStep == TypeOK /\ [Next]_vars => LocalTyped' /\ CountTyped'
<1> SUFFICES ASSUME LocalTyped, CountTyped, RowTyped, BatchTyped, [Next]_vars
             PROVE  LocalTyped' /\ CountTyped'
    BY TypeParts
<1>0. MaxAttempts \in Nat \ {0} /\ LastUpdate \in Nat
    BY PollerAssumption
<1> USE <1>0 DEF LocalTyped, CountTyped, Location, local
<1>1. CASE Arrive \/ Tick
    BY <1>1 DEF Arrive, Tick
<1>2. ASSUME NEW i \in Instance, AcquirePollLease(i) \/ Refused(i)
      PROVE  LocalTyped' /\ CountTyped'
    BY <1>2 DEF AcquirePollLease, Refused
<1>3. ASSUME NEW i \in Instance, ReadOffset(i) PROVE LocalTyped' /\ CountTyped'
    BY <1>3 DEF ReadOffset, RowTyped
<1>4. ASSUME NEW i \in Instance, GetUpdates(i) PROVE LocalTyped' /\ CountTyped'
    BY <1>4 DEF GetUpdates
<1>5. ASSUME NEW i \in Instance, NEW u \in Update, Handled(i, u)
      PROVE  LocalTyped' /\ CountTyped'
    BY <1>5 DEF Handled
<1>6. ASSUME NEW i \in Instance, NEW u \in Update, Retry(i, u) \/ DeadLetter(i, u)
      PROVE  LocalTyped' /\ CountTyped'
    <2>1. Count(i, u) \in 1..MaxAttempts /\ u \in 0..LastUpdate
        BY <1>6 DEF Retry, DeadLetter, Failed, Count, Update
    <2>2. /\ failures' = [failures EXCEPT ![i] = Count(i, u)]
          /\ failing' = [failing EXCEPT ![i] = u]
          /\ offset' = offset
        BY <1>6 DEF Retry, DeadLetter, Failed
    <2>3. \/ pc' = [pc EXCEPT ![i] = "poll"] /\ Count(i, u) < MaxAttempts
          \/ pc' = [pc EXCEPT ![i] = "advance"]
        BY <1>6 DEF Retry, DeadLetter
    <2> QED BY <2>1, <2>2, <2>3
<1>7. ASSUME NEW i \in Instance, NEW u \in Update, AdvanceUpdateID(i, u)
      PROVE  LocalTyped' /\ CountTyped'
    BY <1>7 DEF AdvanceUpdateID, Update
<1>8. ASSUME NEW i \in Instance, AdvanceFails(i) \/ Shutdown(i) \/ Crash(i)
      PROVE  LocalTyped' /\ CountTyped'
    BY <1>8 DEF AdvanceFails, Shutdown, Crash, Leave
<1>9. CASE UNCHANGED vars
    BY <1>9 DEF vars
<1> QED
    BY <1>1, <1>2, <1>3, <1>4, <1>5, <1>6, <1>7, <1>8, <1>9 DEF Next, Run

LEMMA PartOfUpdates ==
    ASSUME NEW a \in 0..LastUpdate, NEW b \in 0..LastUpdate, NEW n \in a + 1 .. b
    PROVE  a + 1 .. n # {} /\ a + 1 .. n \subseteq Update
<1>1. LastUpdate \in Nat
    BY PollerAssumption
<1>2. a \in Nat /\ n \in Nat /\ n <= LastUpdate /\ a + 1 <= n
    BY <1>1
<1>3. a + 1 \in a + 1 .. n
    BY <1>2
<1>4. ASSUME NEW k \in a + 1 .. n PROVE k \in Update
    BY <1>1, <1>2 DEF Update
<1> QED
    BY <1>3, <1>4

LEMMA BeforeInPart ==
    ASSUME NEW a \in 0..LastUpdate, NEW b \in 0..LastUpdate, NEW n \in a + 1 .. b,
           NEW u \in a + 1 .. n, NEW v \in Update, v < u
    PROVE  v \in a + 1 .. n \/ v <= a
<1>1. LastUpdate \in Nat
    BY PollerAssumption
<1>2. a \in Nat /\ n \in Nat /\ v \in Nat
    BY <1>1 DEF Update
<1> QED
    BY <1>2

LEMMA BatchStep == TypeOK /\ [Next]_vars => BatchTyped'
<1> SUFFICES ASSUME BatchTyped, LocalTyped, RowTyped, RowTyped', [Next]_vars
             PROVE  BatchTyped'
    BY TypeParts, RowStep
<1> USE DEF BatchTyped, local
<1>0. pc \in [Instance -> Location]
    BY DEF LocalTyped
<1>1. CASE Arrive \/ Tick
    BY <1>1 DEF Arrive, Tick
<1>2. ASSUME NEW i \in Instance, AcquirePollLease(i) \/ Refused(i) \/ ReadOffset(i)
      PROVE  BatchTyped'
    BY <1>0, <1>2 DEF AcquirePollLease, Refused, ReadOffset
<1>3. ASSUME NEW i \in Instance, GetUpdates(i) PROVE BatchTyped'
    <2>1. PICK n \in forgotten' + 1 .. arrived :
                  batch' = [batch EXCEPT ![i] = forgotten' + 1 .. n]
        BY <1>3 DEF GetUpdates
    <2>2. forgotten' \in 0..LastUpdate /\ arrived \in 0..LastUpdate
        BY DEF RowTyped
    <2>3. forgotten' + 1 .. n # {} /\ forgotten' + 1 .. n \subseteq Update
        BY <2>2, PartOfUpdates
    <2>4. pc' = [pc EXCEPT ![i] = "handle"]
        BY <1>3 DEF GetUpdates
    <2> QED BY <1>0, <2>1, <2>3, <2>4
<1>4. ASSUME NEW i \in Instance, NEW u \in Update,
             Handled(i, u) \/ Retry(i, u) \/ DeadLetter(i, u)
      PROVE  BatchTyped'
    BY <1>0, <1>4 DEF Handled, Retry, DeadLetter, Failed, IsHead
<1>5. ASSUME NEW i \in Instance, NEW u \in Update, AdvanceUpdateID(i, u)
      PROVE  BatchTyped'
    BY <1>0, <1>5 DEF AdvanceUpdateID, IsHead
<1>6. ASSUME NEW i \in Instance, AdvanceFails(i) \/ Shutdown(i) \/ Crash(i)
      PROVE  BatchTyped'
    BY <1>0, <1>6 DEF AdvanceFails, Shutdown, Crash, Leave
<1>7. CASE UNCHANGED vars
    BY <1>7 DEF vars
<1> QED
    BY <1>1, <1>2, <1>3, <1>4, <1>5, <1>6, <1>7 DEF Next, Run

LEMMA TypeStep == TypeOK /\ [Next]_vars => TypeOK'
<1> SUFFICES ASSUME TypeOK, [Next]_vars PROVE TypeOK'
    OBVIOUS
<1>1. RowTyped' /\ PastTyped' /\ LocalTyped' /\ CountTyped' /\ BatchTyped'
    BY RowStep, PastStep, LocalStep, BatchStep
<1> QED
    BY <1>1 DEF TypeOK, RowTyped, PastTyped, LocalTyped, BatchTyped, CountTyped

\* Every variable of the poller keeps to its values, and the failures counted
\* to the attempts.
THEOREM TypeCorrect == Spec => []TypeOK
BY TypeInit, TypeStep, PTL DEF Spec

-----------------------------------------------------------------------------
(* Nothing is skipped.                                                     *)

LEMMA OneHead ==
    ASSUME NEW i \in Instance, NEW u \in Update, NEW v \in Update, IsHead(u, i), IsHead(v, i)
    PROVE  u = v
<1>1. u \in Nat /\ v \in Nat /\ u <= v /\ v <= u
    BY DEF IsHead, Update
<1> QED
    BY <1>1

LEMMA SettledStays ==
    ASSUME TypeOK, [Next]_vars, NEW u \in Update, Settled(u)
    PROVE  Settled(u)'
<1>1. handled[u] \in Nat /\ failed[u] \in 0..MaxAttempts /\ MaxAttempts \in Nat
    BY PollerAssumption DEF TypeOK
<1>2. handled \in [Update -> Nat] /\ failed \in [Update -> 0..MaxAttempts]
    BY DEF TypeOK
<1> USE <1>1, <1>2 DEF Settled, history
<1>3. CASE Arrive \/ Tick
    BY <1>3 DEF Arrive, Tick
<1>4. ASSUME NEW i \in Instance,
             \/ AcquirePollLease(i) \/ Refused(i) \/ ReadOffset(i) \/ GetUpdates(i)
             \/ \E v \in Update : AdvanceUpdateID(i, v)
             \/ AdvanceFails(i) \/ Shutdown(i) \/ Crash(i)
      PROVE  Settled(u)'
    BY <1>4 DEF AcquirePollLease, Refused, ReadOffset, GetUpdates, AdvanceUpdateID,
                AdvanceFails, Shutdown, Crash
<1>5. ASSUME NEW i \in Instance, NEW v \in Update, Handled(i, v) PROVE Settled(u)'
    BY <1>5 DEF Handled
<1>6. ASSUME NEW i \in Instance, NEW v \in Update, Retry(i, v) \/ DeadLetter(i, v)
      PROVE  Settled(u)'
    <2>1. failed'[u] >= failed[u] /\ failed'[u] \in 0..MaxAttempts
        BY <1>6 DEF Retry, DeadLetter, Failed
    <2>2. handled' = handled /\ (u \in dead => u \in dead')
        BY <1>6 DEF Retry, DeadLetter, Failed
    <2> QED BY <2>1, <2>2
<1>7. CASE UNCHANGED vars
    BY <1>7 DEF vars
<1> QED
    BY <1>3, <1>4, <1>5, <1>6, <1>7 DEF Next, Run

\* The failures an instance has counted did happen.
CountBacked == \A i \in Instance, u \in Update : failing[i] = u => failures[i] <= failed[u]

LEMMA CountStep == TypeOK /\ CountBacked /\ [Next]_vars => CountBacked'
<1> SUFFICES ASSUME TypeOK, CountBacked, [Next]_vars PROVE CountBacked'
    OBVIOUS
<1>1. /\ failing \in [Instance -> 0..LastUpdate]
      /\ failures \in [Instance -> 0..MaxAttempts]
      /\ failed \in [Update -> 0..MaxAttempts]
      /\ MaxAttempts \in Nat \ {0}
    BY PollerAssumption DEF TypeOK
<1> USE <1>1 DEF CountBacked, local, history
<1>2. CASE Arrive \/ Tick
    BY <1>2 DEF Arrive, Tick
<1>3. ASSUME NEW i \in Instance,
             \/ AcquirePollLease(i) \/ Refused(i) \/ ReadOffset(i) \/ GetUpdates(i)
             \/ \E v \in Update : Handled(i, v)
      PROVE  CountBacked'
    BY <1>3 DEF AcquirePollLease, Refused, ReadOffset, GetUpdates, Handled
<1>4. ASSUME NEW i \in Instance, NEW v \in Update, Retry(i, v) \/ DeadLetter(i, v)
      PROVE  CountBacked'
    <2>1. /\ failures' = [failures EXCEPT ![i] = Count(i, v)]
          /\ failing' = [failing EXCEPT ![i] = v]
          /\ failed' = [failed EXCEPT ![v] =
                  IF failed[v] < MaxAttempts THEN failed[v] + 1 ELSE failed[v]]
        BY <1>4 DEF Retry, DeadLetter, Failed
    <2>2. /\ failing[i] = v => failures[i] <= failed[v]
          /\ failures[i] \in Nat /\ failures[i] < MaxAttempts
        BY <1>4 DEF Retry, DeadLetter, Failed, TypeOK
    <2>3. Count(i, v) <= failed'[v]
        BY <2>1, <2>2 DEF Count
    <2>4. \A u \in Update : failed[u] <= failed'[u]
        BY <2>1
    <2>5. ASSUME NEW j \in Instance, NEW u \in Update, failing'[j] = u
          PROVE  failures'[j] <= failed'[u]
        <3>1. CASE j = i
            BY <2>1, <2>3, <2>5, <3>1
        <3>2. CASE j # i
            <4>1. failing[j] = u /\ failures'[j] = failures[j]
                BY <2>1, <2>5, <3>2
            <4>2. failures[j] \in Nat /\ failed[u] \in Nat /\ failed'[u] \in Nat
                BY <2>1
            <4> QED BY <2>4, <4>1, <4>2
        <3> QED BY <3>1, <3>2
    <2> QED BY <2>5
<1>5. ASSUME NEW i \in Instance,
             \/ \E v \in Update : AdvanceUpdateID(i, v)
             \/ AdvanceFails(i) \/ Shutdown(i) \/ Crash(i)
      PROVE  CountBacked'
    <2>1. /\ failures' = [failures EXCEPT ![i] = 0]
          /\ failing' = [failing EXCEPT ![i] = 0]
          /\ failed' = failed
        BY <1>5 DEF AdvanceUpdateID, AdvanceFails, Shutdown, Crash, Leave
    <2>2. 0 \notin Update
        BY DEF Update
    <2> QED BY <2>1, <2>2
<1>6. CASE UNCHANGED vars
    BY <1>6 DEF vars
<1> QED
    BY <1>2, <1>3, <1>4, <1>5, <1>6 DEF Next, Run

\* An update is given up when it has failed often enough.
LEMMA AttemptsUsed ==
    ASSUME TypeOK, CountBacked, NEW i \in Instance, NEW u \in Update, DeadLetter(i, u)
    PROVE  failed'[u] = MaxAttempts
<1>1. /\ failures[i] \in Nat /\ failures[i] < MaxAttempts
      /\ failed[u] \in 0..MaxAttempts /\ MaxAttempts \in Nat \ {0}
      /\ failed \in [Update -> 0..MaxAttempts]
      /\ failing[i] = u => failures[i] <= failed[u]
    BY PollerAssumption DEF TypeOK, DeadLetter, Failed, CountBacked
<1>2. Count(i, u) >= MaxAttempts
    BY DEF DeadLetter
<1>3. failed'[u] = IF failed[u] < MaxAttempts THEN failed[u] + 1 ELSE failed[u]
    BY <1>1 DEF DeadLetter, Failed
<1> QED
    BY <1>1, <1>2, <1>3 DEF Count

LEMMA DeadIsSettled ==
    ASSUME TypeOK, CountBacked, NEW i \in Instance, NEW u \in Update, DeadLetter(i, u)
    PROVE  Settled(u)'
BY AttemptsUsed DEF Settled, DeadLetter

\* What lies before the offset of an instance, and before an update of its
\* batch and out of it, is settled; so is the update it consumes next.
OffsetSettled == \A i \in Instance, u \in Update : u <= offset[i] => Settled(u)

BatchFollows ==
    \A i \in Instance, u, v \in Update :
        u \in batch[i] /\ v < u => v \in batch[i] \/ Settled(v)

HeadSettled ==
    \A i \in Instance, u \in Update : pc[i] = "advance" /\ IsHead(u, i) => Settled(u)

SkipInv ==
    /\ TypeOK
    /\ CountBacked
    /\ NoneSkipped
    /\ OffsetSettled
    /\ BatchFollows
    /\ HeadSettled

LEMMA SkipInit == Init => SkipInv
<1> SUFFICES ASSUME Init PROVE SkipInv
    OBVIOUS
<1>1. /\ stored = 0 /\ forgotten = 0
      /\ \A i \in Instance : offset[i] = 0 /\ batch[i] = {} /\ failing[i] = 0 /\ pc[i] = "down"
    BY DEF Init
<1>2. \A u \in Update : u \in Nat /\ ~(u <= 0) /\ u # 0
    BY DEF Update
<1> QED
    BY <1>1, <1>2, TypeInit
       DEF SkipInv, CountBacked, NoneSkipped, OffsetSettled, BatchFollows, HeadSettled

LEMMA SkipStep == SkipInv /\ [Next]_vars => SkipInv'
<1> SUFFICES ASSUME SkipInv, [Next]_vars PROVE SkipInv'
    OBVIOUS
<1>1. TypeOK /\ TypeOK' /\ CountBacked /\ CountBacked'
    BY TypeStep, CountStep DEF SkipInv
<1>2. NoneSkipped /\ OffsetSettled /\ BatchFollows /\ HeadSettled
    BY DEF SkipInv
<1>3. \A u \in Update : Settled(u) => Settled(u)'
    BY <1>1, SettledStays
<1>4. SUFFICES (NoneSkipped /\ OffsetSettled /\ BatchFollows /\ HeadSettled)'
    BY <1>1 DEF SkipInv
<1>5. /\ pc \in [Instance -> Location] /\ offset \in [Instance -> 0..LastUpdate]
      /\ batch \in [Instance -> SUBSET Update]
    BY <1>1 DEF TypeOK
<1>6. Update \subseteq Nat
    BY DEF Update
<1> DEFINE Goal == (NoneSkipped /\ OffsetSettled /\ BatchFollows /\ HeadSettled)'
<1> USE DEF NoneSkipped, OffsetSettled, BatchFollows, HeadSettled, server, row, local
\* Neither the offsets nor a batch move.
<1>7. ASSUME stored' = stored, forgotten' = forgotten, offset' = offset, batch' = batch,
             \A i \in Instance, u \in Update :
                 pc'[i] = "advance" /\ IsHead(u, i) => pc[i] = "advance" \/ Settled(u)'
      PROVE  Goal
    BY <1>2, <1>3, <1>7 DEF IsHead
\* One instance drops its batch and does not consume.
<1>8. ASSUME NEW i \in Instance, stored' = stored, forgotten' = forgotten,
             offset' = offset \/ offset' = [offset EXCEPT ![i] = 0],
             batch' = [batch EXCEPT ![i] = {}],
             NEW to \in Location \ {"advance"}, pc' = [pc EXCEPT ![i] = to]
      PROVE  Goal
    <2>1. \A j \in Instance : j # i => pc'[j] = pc[j] /\ batch'[j] = batch[j]
        BY <1>5, <1>8
    <2>2. pc'[i] # "advance" /\ batch'[i] = {}
        BY <1>5, <1>8
    <2>3. \A j \in Instance : offset'[j] = offset[j] \/ offset'[j] = 0
        BY <1>5, <1>8
    <2>4. NoneSkipped'
        BY <1>2, <1>3, <1>8
    <2>5. OffsetSettled'
        <3>1. \A u \in Update : ~(u <= 0)
            BY DEF Update
        <3> QED BY <1>2, <1>3, <2>3, <3>1
    <2>6. BatchFollows'
        BY <1>2, <1>3, <2>1, <2>2
    <2>7. HeadSettled'
        BY <1>2, <1>3, <2>1, <2>2 DEF IsHead
    <2> QED BY <2>4, <2>5, <2>6, <2>7
<1>9. CASE Arrive \/ Tick
    BY <1>7, <1>9 DEF Arrive, Tick
<1>10. ASSUME NEW i \in Instance, AcquirePollLease(i) \/ Refused(i) PROVE Goal
    <2>1. \A j \in Instance : pc'[j] = "advance" => pc[j] = "advance"
        BY <1>5, <1>10 DEF AcquirePollLease, Refused
    <2> QED BY <1>7, <1>10, <2>1 DEF AcquirePollLease, Refused
<1>11. ASSUME NEW i \in Instance, ReadOffset(i) PROVE Goal
    <2>1. \A j \in Instance : pc'[j] = "advance" => pc[j] = "advance"
        BY <1>5, <1>11 DEF ReadOffset
    <2>2. /\ offset' = [offset EXCEPT ![i] = stored] /\ batch' = batch
          /\ stored' = stored /\ forgotten' = forgotten
        BY <1>11 DEF ReadOffset
    <2>3. OffsetSettled'
        BY <1>2, <1>3, <1>5, <2>2
    <2> QED BY <1>2, <1>3, <2>1, <2>2, <2>3 DEF IsHead
<1>12. ASSUME NEW i \in Instance, GetUpdates(i) PROVE Goal
    <2>1. PICK n \in forgotten' + 1 .. arrived :
                  batch' = [batch EXCEPT ![i] = forgotten' + 1 .. n]
        BY <1>12 DEF GetUpdates
    <2>2. /\ forgotten' = IF offset[i] > forgotten THEN offset[i] ELSE forgotten
          /\ pc' = [pc EXCEPT ![i] = "handle"]
          /\ stored' = stored /\ offset' = offset
        BY <1>12 DEF GetUpdates
    <2>3. /\ offset[i] \in 0..LastUpdate /\ forgotten \in 0..LastUpdate
          /\ arrived \in 0..LastUpdate /\ forgotten' \in 0..LastUpdate
        BY <1>1 DEF TypeOK
    <2>4. \A u \in Update : u <= forgotten' => Settled(u)
        BY <1>2, <2>2, <2>3
    <2>5. NoneSkipped' /\ OffsetSettled'
        BY <1>2, <1>3, <2>2, <2>4
    <2>6. ASSUME NEW j \in Instance, NEW u \in Update, NEW v \in Update,
                 u \in batch'[j], v < u
          PROVE  v \in batch'[j] \/ Settled(v)
        <3>1. CASE j # i
            BY <1>2, <1>5, <2>1, <2>6, <3>1
        <3>2. CASE j = i
            <4>1. batch'[j] = forgotten' + 1 .. n
                BY <1>5, <2>1, <3>2
            <4>2. u \in forgotten' + 1 .. n
                BY <2>6, <4>1
            <4>3. v \in forgotten' + 1 .. n \/ v <= forgotten'
                BY <2>3, <2>6, <4>2, BeforeInPart
            <4> QED BY <2>4, <4>1, <4>3
        <3> QED BY <3>1, <3>2
    <2>7. BatchFollows'
        BY <1>3, <2>6
    <2>8. HeadSettled'
        BY <1>2, <1>3, <1>5, <2>1, <2>2 DEF IsHead
    <2> QED BY <2>5, <2>7, <2>8
<1>13. ASSUME NEW i \in Instance, NEW u \in Update, Handled(i, u) PROVE Goal
    <2>1. Settled(u)'
        <3>1. handled \in [Update -> Nat] /\ handled' = [handled EXCEPT ![u] = handled[u] + 1]
            BY <1>1, <1>13 DEF Handled, TypeOK
        <3>2. handled'[u] > 0
            BY <3>1
        <3> QED BY <3>2 DEF Settled
    <2>2. \A v \in Update : IsHead(v, i) => v = u
        BY <1>13, OneHead DEF Handled
    <2>3. \A j \in Instance, v \in Update :
              pc'[j] = "advance" /\ IsHead(v, j) => pc[j] = "advance" \/ Settled(v)'
        BY <1>5, <1>13, <2>1, <2>2 DEF Handled
    <2> QED BY <1>7, <1>13, <2>3 DEF Handled
<1>14. ASSUME NEW i \in Instance, NEW u \in Update, Retry(i, u) PROVE Goal
    <2>1. "poll" \in Location \ {"advance"}
        BY DEF Location
    <2> QED BY <1>8, <1>14, <2>1 DEF Retry, Failed
<1>15. ASSUME NEW i \in Instance, NEW u \in Update, DeadLetter(i, u) PROVE Goal
    <2>1. Settled(u)'
        BY <1>1, <1>15, DeadIsSettled
    <2>2. \A v \in Update : IsHead(v, i) => v = u
        BY <1>15, OneHead DEF DeadLetter, Failed
    <2>3. \A j \in Instance, v \in Update :
              pc'[j] = "advance" /\ IsHead(v, j) => pc[j] = "advance" \/ Settled(v)'
        BY <1>5, <1>15, <2>1, <2>2 DEF DeadLetter
    <2> QED BY <1>7, <1>15, <2>3 DEF DeadLetter, Failed
<1>16. ASSUME NEW i \in Instance, NEW u \in Update, AdvanceUpdateID(i, u) PROVE Goal
    <2>1. /\ pc[i] = "advance" /\ IsHead(u, i)
          /\ stored' = IF u > stored THEN u ELSE stored
          /\ offset' = [offset EXCEPT ![i] = u]
          /\ batch' = [batch EXCEPT ![i] = batch[i] \ {u}]
          /\ pc' = [pc EXCEPT ![i] = IF batch[i] = {u} THEN "poll" ELSE "handle"]
          /\ forgotten' = forgotten
        BY <1>16 DEF AdvanceUpdateID
    <2>2. stored \in Nat /\ forgotten \in Nat
        BY <1>1 DEF TypeOK
    <2>3. \A v \in Update : v <= u => Settled(v)
        BY <1>2, <1>6, <2>1 DEF IsHead
    <2>4. NoneSkipped'
        BY <1>2, <1>3, <2>1, <2>3
    <2>5. OffsetSettled'
        BY <1>2, <1>3, <1>5, <2>1, <2>3
    <2>6. ASSUME NEW j \in Instance, NEW w \in Update, NEW v \in Update,
                 w \in batch'[j], v < w
          PROVE  v \in batch'[j] \/ Settled(v)
        <3>1. CASE j # i
            BY <1>2, <1>5, <2>1, <2>6, <3>1
        <3>2. CASE j = i
            <4>1. batch'[i] = batch[i] \ {u}
                BY <1>5, <2>1
            <4>2. v \in batch[i] \/ Settled(v)
                BY <1>2, <2>6, <3>2, <4>1
            <4>3. Settled(u)
                BY <1>2, <2>1
            <4> QED BY <3>2, <4>1, <4>2, <4>3
        <3> QED BY <3>1, <3>2
    <2>7. BatchFollows'
        BY <1>3, <2>6
    <2>8. HeadSettled'
        <3>1. pc'[i] # "advance"
            BY <1>5, <2>1
        <3>2. \A j \in Instance : j # i => pc'[j] = pc[j] /\ batch'[j] = batch[j]
            BY <1>5, <2>1
        <3> QED BY <1>2, <1>3, <3>1, <3>2 DEF IsHead
    <2> QED BY <2>4, <2>5, <2>7, <2>8
<1>17. ASSUME NEW i \in Instance, AdvanceFails(i) \/ Shutdown(i) \/ Crash(i) PROVE Goal
    <2>1. PICK to \in {"down", "refused"} : Leave(i, to)
        BY <1>17 DEF AdvanceFails, Shutdown, Crash
    <2>2. to \in Location \ {"advance"}
        BY DEF Location
    <2>3. stored' = stored /\ forgotten' = forgotten
        BY <1>17 DEF AdvanceFails, Shutdown, Crash
    <2> QED BY <1>8, <2>1, <2>2, <2>3 DEF Leave
<1>18. CASE UNCHANGED vars
    BY <1>7, <1>18 DEF vars
<1> QED
    BY <1>9, <1>10, <1>11, <1>12, <1>13, <1>14, <1>15, <1>16, <1>17, <1>18
       DEF Next, Run

\* No crash, retry or second poller makes the row or Telegram drop an update
\* that was neither handled nor given up after its attempts.
THEOREM SkipsNone == Spec => []NoneSkipped
<1>1. SkipInv => NoneSkipped
    BY DEF SkipInv
<1> QED
    BY <1>1, SkipInit, SkipStep, PTL DEF Spec

\* An update is handled only when all those before it are settled.
THEOREM HandlesInOrder == Spec => InOrder
<1>1. ASSUME SkipInv, [Next]_vars, NEW u \in Update, handled'[u] > handled[u],
             NEW v \in 1..u-1
      PROVE  Settled(v)
    <2>0. handled \in [Update -> Nat]
        BY <1>1 DEF SkipInv, TypeOK
    <2>1. v \in Update /\ v < u
        BY <1>1, PollerAssumption DEF Update
    <2>2. PICK i \in Instance : Handled(i, u)
        <3>1. handled' # handled
            BY <1>1, <2>0
        <3>2. PICK i \in Instance, w \in Update : Handled(i, w)
            BY <1>1, <3>1 DEF Next, Run, vars, history, Arrive, Tick, AcquirePollLease,
               Refused, ReadOffset, GetUpdates, Retry, DeadLetter, Failed,
               AdvanceUpdateID, AdvanceFails, Shutdown, Crash
        <3>3. u = w
            BY <1>1, <2>0, <3>2 DEF Handled
        <3> QED BY <3>2, <3>3
    <2>3. u \in batch[i] /\ v \notin batch[i]
        BY <2>1, <2>2 DEF Handled, IsHead, Update
    <2> QED BY <1>1, <2>1, <2>3 DEF SkipInv, BatchFollows
<1>2. SkipInv /\ [Next]_vars =>
        (\A u \in Update : handled'[u] > handled[u] => \A v \in 1..u-1 : Settled(v))
    BY <1>1
<1> QED
    BY <1>2, SkipInit, SkipStep, PTL DEF Spec, InOrder

-----------------------------------------------------------------------------
(* The promise of Feed.                                                    *)

Passed == IF stored > forgotten THEN stored ELSE forgotten

\* What an instance has in hand was sent.
BatchSent == \A i \in Instance, u \in Update : u \in batch[i] => u <= arrived

LEMMA SentStep == TypeOK /\ BatchSent /\ [Next]_vars => BatchSent'
<1> SUFFICES ASSUME TypeOK, BatchSent, [Next]_vars PROVE BatchSent'
    OBVIOUS
<1>1. /\ batch \in [Instance -> SUBSET Update] /\ arrived \in 0..LastUpdate
      /\ forgotten \in 0..LastUpdate /\ \A i \in Instance : offset[i] \in 0..LastUpdate
    BY DEF TypeOK
<1> USE <1>1 DEF BatchSent, server, row, local, history
\* The batches shrink.
<1>2. ASSUME arrived' = arrived \/ arrived' = arrived + 1,
             \A i \in Instance : batch'[i] \subseteq batch[i]
      PROVE  BatchSent'
    BY <1>2 DEF Update
<1>3. CASE Arrive \/ Tick \/ UNCHANGED vars
    BY <1>2, <1>3 DEF Arrive, Tick, vars
<1>4. ASSUME NEW i \in Instance, GetUpdates(i) PROVE BatchSent'
    <2>1. PICK n \in forgotten' + 1 .. arrived :
                  batch' = [batch EXCEPT ![i] = forgotten' + 1 .. n]
        BY <1>4 DEF GetUpdates
    <2>2. forgotten' \in Nat /\ arrived' = arrived
        BY <1>4 DEF GetUpdates
    <2>3. ASSUME NEW j \in Instance, NEW u \in Update, u \in batch'[j] PROVE u <= arrived'
        <3>1. CASE j # i
            BY <2>1, <2>2, <2>3, <3>1
        <3>2. CASE j = i
            <4>1. u \in forgotten' + 1 .. n /\ n <= arrived
                BY <2>1, <2>2, <2>3, <3>2
            <4> QED
                BY <2>1, <2>2, <4>1 DEF Update
        <3> QED
            BY <3>1, <3>2
    <2> QED
        BY <2>3
<1>5. ASSUME NEW i \in Instance,
             \/ AcquirePollLease(i) \/ Refused(i) \/ ReadOffset(i)
             \/ \E u \in Update : \/ Handled(i, u) \/ Retry(i, u) \/ DeadLetter(i, u)
                                  \/ AdvanceUpdateID(i, u)
             \/ AdvanceFails(i) \/ Shutdown(i) \/ Crash(i)
      PROVE  BatchSent'
    <2>1. arrived' = arrived /\ \A j \in Instance : batch'[j] \subseteq batch[j]
        BY <1>5 DEF AcquirePollLease, Refused, ReadOffset, Handled, Retry, DeadLetter,
                    Failed, AdvanceUpdateID, AdvanceFails, Shutdown, Crash, Leave
    <2> QED
        BY <1>2, <2>1
<1> QED
    BY <1>3, <1>4, <1>5 DEF Next, Run

\* The update an instance handles next is next in Feed.
LEMMA HeadHasTurn ==
    ASSUME SkipInv, BatchSent, NEW i \in Instance, NEW u \in Update, IsHead(u, i)
    PROVE  Queue!Turn(u)
<1>1. u <= arrived
    BY DEF IsHead, BatchSent
<1>2. ASSUME NEW v \in 1..u-1 PROVE Queue!Over(v)
    <2>1. v \in Update /\ v < u
        BY PollerAssumption DEF Update
    <2>2. v \notin batch[i]
        BY <2>1 DEF IsHead, Update
    <2>3. Settled(v)
        BY <2>1, <2>2 DEF IsHead, SkipInv, BatchFollows
    <2> QED
        BY <2>3 DEF Settled, Queue!Over
<1> QED
    BY <1>1, <1>2 DEF Queue!Turn

\* A step of the row or of Telegram only: what it passes is over.
LEMMA PassesOver ==
    ASSUME SkipInv, SkipInv', UNCHANGED <<arrived, handled, failed, dead>>, Passed' >= Passed
    PROVE  [Queue!FeedNext]_(Queue!feedVars)
<1>1. Passed \in 0..LastUpdate /\ Passed' \in 0..LastUpdate
    BY DEF SkipInv, TypeOK, Passed
<1>2. CASE Passed' = Passed
    BY <1>2 DEF Queue!feedVars, Passed
<1>3. CASE Passed' > Passed
    <2>1. Passed' \in 1..LastUpdate
        BY <1>1, <1>3, PollerAssumption
    <2>2. ASSUME NEW u \in 1..Passed' PROVE Queue!Over(u)
        <3>1. u \in Update /\ u <= Passed'
            BY <1>1, PollerAssumption DEF Update
        <3>2. stored' \in 0..LastUpdate /\ forgotten' \in 0..LastUpdate
            BY DEF SkipInv, TypeOK
        <3>3. u <= stored' \/ u <= forgotten'
            BY <3>1, <3>2 DEF Passed
        <3>4. Settled(u)'
            BY <3>1, <3>3 DEF SkipInv, NoneSkipped
        <3> QED
            BY <3>4 DEF Settled, Queue!Over
    <2>3. Queue!Pass(Passed')
        BY <1>3, <2>2 DEF Queue!Pass, Passed
    <2> QED
        BY <2>1, <2>3 DEF Queue!FeedNext
<1> QED
    BY <1>1, <1>2, <1>3

LEMMA FeedStep ==
    ASSUME SkipInv, SkipInv', BatchSent, [Next]_vars
    PROVE  [Queue!FeedNext]_(Queue!feedVars)
<1> USE DEF server, row, local, history
<1>1. /\ stored \in 0..LastUpdate /\ forgotten \in 0..LastUpdate
      /\ \A i \in Instance : offset[i] \in 0..LastUpdate
      /\ handled \in [Update -> Nat] /\ failed \in [Update -> 0..MaxAttempts]
      /\ arrived \in 0..LastUpdate /\ MaxAttempts \in Nat \ {0}
    BY PollerAssumption DEF SkipInv, TypeOK
<1>2. CASE Arrive
    BY <1>2 DEF Arrive, Queue!Send, Queue!FeedNext
<1>3. ASSUME UNCHANGED <<arrived, stored, forgotten, handled, failed, dead>>
      PROVE  UNCHANGED Queue!feedVars
    BY <1>3 DEF Queue!feedVars
<1>4. CASE Tick \/ UNCHANGED vars
    BY <1>3, <1>4 DEF Tick, vars
<1>5. ASSUME NEW i \in Instance,
             \/ AcquirePollLease(i) \/ Refused(i) \/ ReadOffset(i)
             \/ AdvanceFails(i) \/ Shutdown(i) \/ Crash(i)
      PROVE  UNCHANGED Queue!feedVars
    BY <1>3, <1>5 DEF AcquirePollLease, Refused, ReadOffset, AdvanceFails, Shutdown, Crash
<1>6. ASSUME NEW i \in Instance, GetUpdates(i) PROVE [Queue!FeedNext]_(Queue!feedVars)
    <2>1. UNCHANGED <<arrived, stored, handled, failed, dead>> /\ forgotten' >= forgotten
        BY <1>1, <1>6 DEF GetUpdates
    <2>2. forgotten' \in Nat
        BY <1>1, <1>6 DEF GetUpdates
    <2>3. Passed' >= Passed
        BY <1>1, <2>1, <2>2 DEF Passed
    <2> QED
        BY <2>1, <2>3, PassesOver
<1>7. ASSUME NEW i \in Instance, NEW u \in Update, AdvanceUpdateID(i, u)
      PROVE  [Queue!FeedNext]_(Queue!feedVars)
    <2>1. UNCHANGED <<arrived, forgotten, handled, failed, dead>>
        BY <1>7 DEF AdvanceUpdateID
    <2>2. stored' \in Nat /\ stored' >= stored
        BY <1>1, <1>7 DEF AdvanceUpdateID, Update
    <2>3. Passed' >= Passed
        BY <1>1, <2>1, <2>2 DEF Passed
    <2> QED
        BY <2>1, <2>3, PassesOver
<1>8. ASSUME NEW i \in Instance, NEW u \in Update, Handled(i, u) PROVE Queue!FeedNext
    <2>1. Queue!Turn(u)
        BY <1>8, HeadHasTurn DEF Handled
    <2>2. Queue!Serve(u)
        BY <1>8, <2>1 DEF Handled, Queue!Serve
    <2> QED
        BY <2>2 DEF Queue!FeedNext, Update
<1>9. ASSUME NEW i \in Instance, NEW u \in Update, Retry(i, u) PROVE Queue!FeedNext
    <2>1. Queue!Turn(u)
        BY <1>9, HeadHasTurn DEF Retry, Failed
    <2>2. (IF failed[u] < MaxAttempts THEN failed[u] + 1 ELSE failed[u])
            = (IF failed[u] < MaxAttempts THEN failed[u] + 1 ELSE MaxAttempts)
        BY <1>1
    <2>3. Queue!TryAgain(u)
        BY <1>9, <2>1, <2>2 DEF Retry, Failed, Queue!TryAgain
    <2> QED
        BY <2>3 DEF Queue!FeedNext, Update
<1>10. ASSUME NEW i \in Instance, NEW u \in Update, DeadLetter(i, u) PROVE Queue!FeedNext
    <2>1. Queue!Turn(u)
        BY <1>10, HeadHasTurn DEF DeadLetter, Failed
    <2>2. failed'[u] = MaxAttempts
        BY <1>10, AttemptsUsed DEF SkipInv
    <2> DEFINE n == IF failed[u] < MaxAttempts THEN failed[u] + 1 ELSE failed[u]
    <2>3. failed' = [failed EXCEPT ![u] = n]
        BY <1>10 DEF DeadLetter, Failed
    <2>4. n = MaxAttempts
        BY <1>1, <2>2, <2>3
    <2>5. failed[u] + 1 >= MaxAttempts
        BY <1>1, <2>4
    <2>6. Queue!GiveUp(u)
        BY <1>10, <2>1, <2>3, <2>4, <2>5 DEF DeadLetter, Failed, Queue!GiveUp
    <2> QED
        BY <2>6 DEF Queue!FeedNext, Update
<1> QED
    BY <1>2, <1>4, <1>5, <1>6, <1>7, <1>8, <1>9, <1>10 DEF Next, Run

\* Whatever instances poll, crash, lose the lease or fail to write the offset,
\* the users' updates are taken in turn, none is given up an attempt too early,
\* and none is passed before it is over.
THEOREM Implements == Spec => KeepsFeed
<1>1. Init => Queue!FeedInit /\ BatchSent
    BY DEF Init, Queue!FeedInit, BatchSent, Update
<1>2. SkipInv /\ BatchSent /\ [Next]_vars => SkipInv' /\ BatchSent'
    BY SkipStep, SentStep DEF SkipInv
<1>3. SkipInv /\ SkipInv' /\ BatchSent /\ [Next]_vars => [Queue!FeedNext]_(Queue!feedVars)
    BY FeedStep
<1> QED
    BY <1>1, <1>2, <1>3, SkipInit, PTL DEF Spec, KeepsFeed, Queue!FeedSpec

-----------------------------------------------------------------------------
(* Nothing is handled twice under one lease.                               *)

\* An instance that polls under a lease that has not run out holds it.
LeaseHeld == \A i \in Instance : IsPolling(i) /\ i \notin lapsed => holder = i /\ lease > 0

\* Without faults, and when nobody was let in beside another:
Undisturbed == faults = 0 /\ ~overlap

\* one instance polls, at the offset of the row, with updates behind it,
SolePoller ==
    /\ \A i, j \in Instance : IsPolling(i) /\ IsPolling(j) => i = j
    /\ \A i \in Instance :
          /\ pc[i] \in {"poll", "handle", "advance"} => offset[i] = stored
          /\ \A v \in batch[i] : v > stored

\* and an update was handled once when it is consumed, or about to be.
HandledOnce ==
    \A u \in Update :
        /\ handled[u] <= 1
        /\ handled[u] > 0 =>
              u <= stored \/ \E i \in Instance : pc[i] = "advance" /\ IsHead(u, i)

LeaseInv ==
    /\ TypeOK
    /\ LeaseHeld
    /\ Undisturbed => SolePoller /\ HandledOnce

LEMMA LeaseInit == Init => LeaseInv
<1> SUFFICES ASSUME Init PROVE LeaseInv
    OBVIOUS
<1>1. \A i \in Instance : pc[i] = "down" /\ batch[i] = {}
    BY DEF Init
<1>2. \A u \in Update : handled[u] = 0
    BY DEF Init
<1> QED
    BY <1>1, <1>2, TypeInit
       DEF LeaseInv, LeaseHeld, SolePoller, HandledOnce, IsPolling, Polling

LEMMA LeaseHeldStep == TypeOK /\ LeaseHeld /\ [Next]_vars => LeaseHeld'
<1> SUFFICES ASSUME TypeOK, LeaseHeld, [Next]_vars PROVE LeaseHeld'
    OBVIOUS
<1>1. /\ pc \in [Instance -> Location] /\ lease \in Nat
      /\ holder \in Instance \cup {NoOne} /\ NoOne \notin Instance
      /\ Lease \in Nat \ {0}
    BY PollerAssumption DEF TypeOK
<1> USE DEF LeaseHeld, IsPolling, Polling, row, local, history
<1>2. CASE Arrive
    BY <1>2 DEF Arrive
<1>3. CASE Tick
    BY <1>1, <1>3 DEF Tick
<1>4. ASSUME NEW i \in Instance, AcquirePollLease(i) PROVE LeaseHeld'
    <2>1. holder' = i /\ lease' > 0 /\ lapsed' = lapsed \ {i}
        BY <1>1, <1>4 DEF AcquirePollLease
    <2>2. \A j \in Instance : j # i => pc'[j] = pc[j]
        BY <1>1, <1>4 DEF AcquirePollLease
    <2>3. ASSUME NEW j \in Instance, j # i, IsPolling(j), j \notin lapsed PROVE FALSE
        BY <1>1, <1>4, <2>3 DEF AcquirePollLease, LeaseFree
    <2> QED BY <2>1, <2>2, <2>3
<1>5. ASSUME NEW i \in Instance,
             \/ Refused(i) \/ ReadOffset(i) \/ GetUpdates(i)
             \/ \E u \in Update : \/ Handled(i, u) \/ Retry(i, u) \/ DeadLetter(i, u)
                                  \/ AdvanceUpdateID(i, u)
      PROVE  LeaseHeld'
    <2>1. holder' = holder /\ lease' = lease /\ lapsed' = lapsed
        BY <1>5 DEF Refused, ReadOffset, GetUpdates, Handled, Retry, DeadLetter,
                    Failed, AdvanceUpdateID
    <2>2. \A j \in Instance : pc'[j] \in Polling => pc[j] \in Polling
        BY <1>1, <1>5 DEF Refused, ReadOffset, GetUpdates, Handled, Retry,
                          DeadLetter, Failed, AdvanceUpdateID
    <2> QED BY <2>1, <2>2
<1>6. ASSUME NEW i \in Instance, AdvanceFails(i) \/ Shutdown(i) \/ Crash(i)
      PROVE  LeaseHeld'
    <2>1. pc'[i] \notin Polling /\ \A j \in Instance : j # i => pc'[j] = pc[j]
        BY <1>1, <1>6 DEF AdvanceFails, Shutdown, Crash, Leave
    <2>2. lapsed' = lapsed /\ ((holder' = holder /\ lease' = lease) \/ holder = i)
        BY <1>6 DEF AdvanceFails, Shutdown, Crash, ReleasePollLease
    <2> QED BY <2>1, <2>2
<1>7. CASE UNCHANGED vars
    BY <1>7 DEF vars
<1> QED
    BY <1>2, <1>3, <1>4, <1>5, <1>6, <1>7 DEF Next, Run

LEMMA SoleStep ==
    TypeOK /\ TypeOK' /\ SolePoller /\ HandledOnce /\ Undisturbed' /\ [Next]_vars
        => SolePoller' /\ HandledOnce'
<1> SUFFICES ASSUME TypeOK, TypeOK', SolePoller, HandledOnce, Undisturbed', [Next]_vars
             PROVE  SolePoller' /\ HandledOnce'
    OBVIOUS
<1>1. /\ pc \in [Instance -> Location] /\ offset \in [Instance -> 0..LastUpdate]
      /\ batch \in [Instance -> SUBSET Update] /\ handled \in [Update -> Nat]
      /\ \A i \in Instance : pc[i] \in {"handle", "advance"} <=> batch[i] # {}
    BY DEF TypeOK
<1>2. stored \in Nat /\ stored' \in Nat /\ forgotten \in Nat /\ forgotten' \in Nat
    BY DEF TypeOK
<1>3. Update \subseteq Nat
    BY DEF Update
<1> USE DEF SolePoller, HandledOnce, IsPolling, Polling, server, row, local, history
<1> DEFINE Goal == SolePoller' /\ HandledOnce'
\* Nothing is handled or consumed, and who is about to consume stays.
<1>4. ASSUME stored' = stored, handled' = handled,
             \A i \in Instance : /\ pc'[i] \in Polling => pc[i] \in Polling
                                 /\ pc[i] = "advance" => pc'[i] = "advance" /\ batch'[i] = batch[i]
                                 /\ pc'[i] \in {"poll", "handle", "advance"} => offset'[i] = stored
                                 /\ \A v \in batch'[i] : v > stored
      PROVE  Goal
    BY <1>4 DEF IsHead
<1>5. CASE Arrive \/ Tick
    BY <1>4, <1>5 DEF Arrive, Tick
<1>6. ASSUME NEW i \in Instance, AcquirePollLease(i) PROVE Goal
    <2>1. \A j \in Instance : pc[j] \notin Polling
        BY <1>6 DEF AcquirePollLease, Undisturbed
    <2>2. \A j \in Instance : j # i => pc'[j] = pc[j]
        BY <1>1, <1>6 DEF AcquirePollLease
    <2>3. pc'[i] = "start" /\ batch' = batch /\ stored' = stored /\ handled' = handled
        BY <1>1, <1>6 DEF AcquirePollLease
    <2>4. SolePoller'
        BY <2>1, <2>2, <2>3
    <2>5. HandledOnce'
        BY <2>1, <2>3
    <2> QED BY <2>4, <2>5
<1>7. ASSUME NEW i \in Instance, Refused(i) \/ ReadOffset(i) PROVE Goal
    BY <1>1, <1>4, <1>7 DEF Refused, ReadOffset
<1>8. ASSUME NEW i \in Instance, GetUpdates(i) PROVE Goal
    <2>1. PICK n \in forgotten' + 1 .. arrived :
                  batch' = [batch EXCEPT ![i] = forgotten' + 1 .. n]
        BY <1>8 DEF GetUpdates
    <2>2. /\ forgotten' = IF offset[i] > forgotten THEN offset[i] ELSE forgotten
          /\ pc[i] = "poll" /\ pc' = [pc EXCEPT ![i] = "handle"]
          /\ stored' = stored /\ offset' = offset /\ handled' = handled
        BY <1>8 DEF GetUpdates
    <2>3. offset[i] = stored /\ forgotten' >= stored
        BY <1>2, <2>2
    <2>4. forgotten' \in 0..LastUpdate /\ arrived \in 0..LastUpdate
        BY DEF TypeOK
    <2>5. \A v \in forgotten' + 1 .. n : v > stored
        BY <1>2, <2>1, <2>3, <2>4, PartOfUpdates
    <2> QED BY <1>1, <1>4, <2>1, <2>2, <2>5
<1>9. ASSUME NEW i \in Instance, NEW u \in Update, Handled(i, u) PROVE Goal
    <2>1. /\ pc[i] = "handle" /\ IsHead(u, i) /\ u > stored /\ u \in Nat
          /\ handled' = [handled EXCEPT ![u] = handled[u] + 1]
          /\ pc' = [pc EXCEPT ![i] = "advance"]
          /\ stored' = stored /\ offset' = offset /\ batch' = batch
        BY <1>3, <1>9 DEF Handled, IsHead
    <2>2. ASSUME NEW v \in Update, NEW j \in Instance, pc[j] = "advance" PROVE FALSE
        BY <2>1, <2>2
    <2>3. \A v \in Update : handled[v] > 0 => v <= stored
        BY <2>2
    <2>4. handled[u] \in Nat /\ ~(handled[u] > 0)
        BY <1>1, <1>2, <2>1, <2>3
    <2>5. handled'[u] = 1 /\ \A v \in Update : v # u => handled'[v] = handled[v]
        BY <1>1, <2>1, <2>4
    <2>6. pc'[i] = "advance" /\ IsHead(u, i)'
        BY <1>1, <2>1 DEF IsHead
    <2>7. HandledOnce'
        BY <2>1, <2>3, <2>5, <2>6
    <2>8. \A j \in Instance : j # i => pc'[j] = pc[j]
        BY <1>1, <2>1
    <2>9. SolePoller'
        BY <2>1, <2>6, <2>8
    <2> QED BY <2>7, <2>9
<1>10. ASSUME NEW i \in Instance, NEW u \in Update, Retry(i, u) PROVE Goal
    BY <1>1, <1>4, <1>10 DEF Retry, Failed
<1>11. ASSUME NEW i \in Instance, NEW u \in Update, DeadLetter(i, u) PROVE Goal
    BY <1>1, <1>4, <1>11 DEF DeadLetter, Failed
<1>12. ASSUME NEW i \in Instance, NEW u \in Update, AdvanceUpdateID(i, u) PROVE Goal
    <2>1. /\ pc[i] = "advance" /\ IsHead(u, i) /\ u > stored /\ u \in Nat
          /\ stored' = u
          /\ offset' = [offset EXCEPT ![i] = u]
          /\ batch' = [batch EXCEPT ![i] = batch[i] \ {u}]
          /\ pc' = [pc EXCEPT ![i] = IF batch[i] = {u} THEN "poll" ELSE "handle"]
          /\ handled' = handled
        BY <1>3, <1>12 DEF AdvanceUpdateID, IsHead
    <2>2. \A j \in Instance : j # i => /\ pc[j] \notin Polling /\ batch[j] = {}
                                       /\ pc'[j] = pc[j] /\ batch'[j] = batch[j]
        BY <1>1, <2>1
    <2>3. pc'[i] \in {"poll", "handle"} /\ offset'[i] = u /\ batch'[i] = batch[i] \ {u}
        BY <1>1, <2>1
    <2>4. \A v \in batch'[i] : v > u
        BY <1>1, <1>3, <2>1, <2>3 DEF IsHead
    <2>5. SolePoller'
        BY <2>1, <2>2, <2>3, <2>4
    <2>6. ASSUME NEW v \in Update, handled[v] > 0 PROVE v <= u
        <3>1. CASE v <= stored
            BY <1>2, <1>3, <2>1, <3>1
        <3>2. CASE \E j \in Instance : pc[j] = "advance" /\ IsHead(v, j)
            BY <1>3, <2>1, <2>2, <3>2, OneHead
        <3> QED BY <2>6, <3>1, <3>2
    <2> QED BY <2>1, <2>5, <2>6
<1>13. ASSUME NEW i \in Instance, Shutdown(i) PROVE Goal
    BY <1>1, <1>4, <1>13 DEF Shutdown, Leave
<1>14. ASSUME NEW i \in Instance, AdvanceFails(i) \/ Crash(i) PROVE Goal
    <2>1. faults' = faults + 1 /\ faults \in Nat
        BY <1>14 DEF AdvanceFails, Crash, TypeOK
    <2> QED BY <2>1 DEF Undisturbed
<1>15. CASE UNCHANGED vars
    BY <1>4, <1>15 DEF vars
<1> QED
    BY <1>5, <1>6, <1>7, <1>8, <1>9, <1>10, <1>11, <1>12, <1>13, <1>14, <1>15
       DEF Next, Run

LEMMA Disturbed == TypeOK /\ [Next]_vars /\ Undisturbed' => Undisturbed
<1> SUFFICES ASSUME TypeOK, [Next]_vars, Undisturbed' PROVE Undisturbed
    OBVIOUS
<1>1. faults \in Nat
    BY DEF TypeOK
<1>2. faults' = faults \/ faults' = faults + 1
    BY DEF Next, Run, vars, history, Arrive, Tick, AcquirePollLease,
       Refused, ReadOffset, GetUpdates, Handled, Retry, DeadLetter, Failed,
       AdvanceUpdateID, AdvanceFails, Shutdown, Crash
<1>3. (\E i \in Instance : AcquirePollLease(i)) \/ overlap' = overlap
    <2>1. CASE Arrive \/ Tick \/ UNCHANGED vars
        BY <2>1, Zenon DEF Arrive, Tick, history, vars
    <2>2. ASSUME NEW i \in Instance, Refused(i) \/ ReadOffset(i) \/ GetUpdates(i)
          PROVE  overlap' = overlap
        BY <2>2, Zenon DEF Refused, ReadOffset, GetUpdates, history
    <2>3. ASSUME NEW i \in Instance, NEW u \in Update,
                 Handled(i, u) \/ Retry(i, u) \/ DeadLetter(i, u)
          PROVE  overlap' = overlap
        BY <2>3, Zenon DEF Handled, Retry, DeadLetter, Failed
    <2>4. ASSUME NEW i \in Instance, NEW u \in Update, AdvanceUpdateID(i, u)
          PROVE  overlap' = overlap
        BY <2>4, Zenon DEF AdvanceUpdateID, history
    <2>5. ASSUME NEW i \in Instance, AdvanceFails(i) \/ Shutdown(i) \/ Crash(i)
          PROVE  overlap' = overlap
        BY <2>5, Zenon DEF AdvanceFails, Shutdown, Crash, history
    <2> QED
        BY <2>1, <2>2, <2>3, <2>4, <2>5, Zenon DEF Next, Run
<1>4. overlap => overlap'
    BY <1>3, Zenon DEF AcquirePollLease
<1>5. faults' = 0 /\ ~overlap'
    BY DEF Undisturbed
<1>6. faults = 0
    BY <1>1, <1>2, <1>5
<1> QED
    BY <1>4, <1>5, <1>6, Zenon DEF Undisturbed

LEMMA LeaseStep == LeaseInv /\ [Next]_vars => LeaseInv'
BY TypeStep, LeaseHeldStep, SoleStep, Disturbed DEF LeaseInv

\* Replays come from faults and overlaps alone, and an overlap from a lease
\* that ran out under an instance that went on polling.
THEOREM HandlesOncePerLease == Spec => []OncePerLease
<1>1. LeaseInv => OncePerLease
    <2> SUFFICES ASSUME LeaseInv PROVE OncePerLease
        OBVIOUS
    <2>1. ASSUME NEW u \in Update, handled[u] > 1 PROVE faults > 0 \/ overlap
        <3>1. handled[u] \in Nat /\ faults \in Nat /\ overlap \in BOOLEAN
            BY DEF LeaseInv, TypeOK
        <3>2. ~Undisturbed
            BY <2>1, <3>1 DEF LeaseInv, HandledOnce
        <3> QED BY <3>1, <3>2 DEF Undisturbed
    <2>2. ASSUME NEW i \in Instance, NEW j \in Instance, i # j, IsPolling(i), IsPolling(j)
          PROVE  i \in lapsed \/ j \in lapsed
        BY <2>2 DEF LeaseInv, LeaseHeld
    <2> QED BY <2>1, <2>2 DEF OncePerLease
<1> QED
    BY <1>1, LeaseInit, LeaseStep, PTL DEF Spec
=============================================================================
