------------------------------ MODULE JobProofs ------------------------------
(***************************************************************************)
(* Theorems about the two jobs main starts on a timer, the deep validator  *)
(* (module Validator) and the daily delivery (module Daily).               *)
(***************************************************************************)
EXTENDS Validator, Daily, FiniteSetTheorems, TLAPS

(* Validator: for any number of searches, attempts, batch sizes and failures. *)

Undecided == {"pending", "retrying"}

\* What is true of a row, read or not, whatever becomes of the pass.  A row has
\* fewer attempts than it may have and than it had outages, except that a row
\* being written has one outage that is not counted yet.
RowInv ==
    \A s \in Search :
        /\ status[s] \in Undecided => attempts[s] < MaxAttempts /\ attempts[s] <= outages[s]
        /\ status[s] = "unused" => attempts[s] = 0
        /\ told[s] > 0 => status[s] \notin Undecided \cup {"unused"}

\* A pass is alone: the rows it has not looked at, and the one at hand, are as it
\* read them, or gone.
PassInv ==
    \A s \in Search :
        /\ s \in batch \/ (pc = "write" /\ s \in cur) =>
              /\ told[s] = 0
              /\ \/ status[s] = "gone"
                 \/ status[s] \in Undecided /\ seen[s] = attempts[s]
        /\ pc = "write" /\ s \in cur /\ outcome = "retrying" /\ status[s] # "gone" =>
              attempts[s] < outages[s]
        /\ s \in cur => s \notin batch
        /\ pc = "write" => outcome # "none"
        /\ pc = "notify" /\ s \in cur =>
              told[s] = 0 /\ status[s] \notin Undecided \cup {"unused"}

Types ==
    /\ status \in [Search -> Status]
    /\ attempts \in [Search -> 0..MaxAttempts]
    /\ next \in [Search -> {"null", "later", "due"}]
    /\ batch \subseteq Search
    /\ seen \in [Search -> 0..MaxAttempts]
    /\ pc \in Location
    /\ cur \subseteq Search
    /\ outcome \in Outcome
    /\ outages \in [Search -> 0..MaxAttempts]
    /\ told \in [Search -> Nat]
    /\ faults \in 0..MaxFaults

\* The row at hand is one row.
AtHand ==
    /\ pc \in {"idle", "loop"} => cur = {} /\ outcome = "none"
    /\ pc \notin {"idle", "loop"} => \E s \in Search : cur = {s}

Inv == Types /\ AtHand /\ RowInv /\ PassInv /\ InvalidOnlyAfterAttempts /\ OneVerdict

LEMMA InvInit == Init => Inv
BY ValidatorAssumption
   DEF Init, Inv, Types, AtHand, RowInv, PassInv, InvalidOnlyAfterAttempts, OneVerdict,
       Status, Location, Outcome, Undecided

LEMMA InvStep == Inv /\ [Next]_vars => Inv'
<1> SUFFICES ASSUME Inv, [Next]_vars PROVE Inv'
    OBVIOUS
<1>0. MaxAttempts \in Nat \ {0} /\ MaxFaults \in Nat
    BY ValidatorAssumption
<1> USE DEF Inv, Types, AtHand, RowInv, PassInv, InvalidOnlyAfterAttempts, OneVerdict,
            Status, Location, Outcome, Undecided, HasRow
<1>1. ASSUME NEW s \in Search, Add(s) PROVE Inv'
    BY <1>0, <1>1 DEF Add, pass
<1>2. ASSUME NEW s \in Search, Remove(s) PROVE Inv'
    BY <1>0, <1>2 DEF Remove, pass
<1>3. ASSUME NEW s \in Search, Due(s) PROVE Inv'
    BY <1>0, <1>3 DEF Due, pass
<1>4. CASE BeginPass
    <2>1. batch' \subseteq Overdue
        BY <1>4 DEF BeginPass, PendingValidations
    <2> QED BY <1>0, <1>4, <2>1 DEF BeginPass, Overdue, table
<1>5. ASSUME NEW s \in Search, NEW o \in Outcome \ {"none"}, Check(s, o) PROVE Inv'
    BY <1>0, <1>5 DEF Check, IsNext, table
<1>6. ASSUME NEW s \in Search, CheckFails(s) PROVE Inv'
    BY <1>0, <1>6 DEF CheckFails, IsNext, table
<1>7. ASSUME NEW s \in Search, Write(s) PROVE Inv'
    <2>0. cur = {s} /\ pc = "write" /\ s \notin batch /\ outcome # "none"
          /\ Verdict(s) \in {"valid", "valid_empty", "retrying", "invalid"}
          /\ (Verdict(s) = "retrying" => outcome = "retrying" /\ ~Last(s))
          /\ (Verdict(s) = "invalid" => outcome = "retrying" /\ Last(s))
        BY <1>7 DEF Write, Verdict
    <2>1. UNCHANGED <<batch, outages, told, faults>>
        BY <1>7 DEF Write
    <2>2. CASE ~HasRow(s)
        <3>1. status[s] = "gone" /\ UNCHANGED table
            BY <1>7, <2>0, <2>2 DEF Write
        <3>2. CASE Verdict(s) = "retrying"
            BY <1>0, <1>7, <2>0, <2>1, <3>1, <3>2 DEF Write, Continue, table
        <3>3. CASE Verdict(s) # "retrying"
            BY <1>0, <1>7, <2>0, <2>1, <3>1, <3>3 DEF Write, table
        <3> QED BY <3>2, <3>3
    <2>3. CASE HasRow(s)
        <3>1. /\ status[s] \in Undecided /\ seen[s] = attempts[s]
              /\ attempts[s] < MaxAttempts /\ attempts[s] <= outages[s]
              /\ outcome = "retrying" => attempts[s] < outages[s]
            BY <2>0, <2>3
        <3>2. /\ status' = [status EXCEPT ![s] = Verdict(s)]
              /\ attempts' = [attempts EXCEPT ![s] = Counted(s)]
              /\ next' \in [Search -> {"null", "later", "due"}]
              /\ Counted(s) \in 0..MaxAttempts /\ Counted(s) <= attempts[s] + 1
            BY <1>0, <1>7, <2>3, <3>1 DEF Write, Counted
        <3>3. told[s] = 0
            BY <3>1
        <3>4. CASE Verdict(s) = "retrying"
            <4>1. attempts[s] + 1 < MaxAttempts
                BY <1>0, <2>0, <3>1, <3>4 DEF Last
            <4> QED BY <1>0, <1>7, <2>0, <2>1, <3>1, <3>2, <3>4, <4>1 DEF Write, Continue
        <3>5. CASE Verdict(s) # "retrying"
            <4>1. Verdict(s) = "invalid" => outages[s] = MaxAttempts
                BY <1>0, <2>0, <3>1 DEF Last
            <4> QED BY <1>0, <1>7, <2>0, <2>1, <3>1, <3>2, <3>3, <3>5, <4>1 DEF Write
        <3> QED BY <3>4, <3>5
    <2> QED BY <2>2, <2>3
<1>8. ASSUME NEW s \in Search, Notify(s) PROVE Inv'
    BY <1>0, <1>8 DEF Notify, Continue, table
<1>9. CASE WriteFails \/ EndPass \/ Restart
    BY <1>0, <1>9 DEF WriteFails, EndPass, Restart, Stops, table
<1>10. CASE UNCHANGED vars
    BY <1>10 DEF vars, table, pass
<1> QED
    BY <1>1, <1>2, <1>3, <1>4, <1>5, <1>6, <1>7, <1>8, <1>9, <1>10 DEF Next, RunOnce

\* A search is given up only after all its attempts were outages
\* (validator.go:36-37), for any number of attempts and whatever passes are cut
\* short.
THEOREM GivesUpLast == Spec => []InvalidOnlyAfterAttempts
<1>1. Inv => InvalidOnlyAfterAttempts
    BY DEF Inv
<1> QED
    BY <1>1, InvInit, InvStep, PTL DEF Spec

\* Its owner is sent one verdict (validator.go:91-114): the message is lost with
\* a pass that is cut short, and never sent by another.
THEOREM TellsOnce == Spec => []OneVerdict
<1>1. Inv => OneVerdict
    BY DEF Inv
<1> QED
    BY <1>1, InvInit, InvStep, PTL DEF Spec

-----------------------------------------------------------------------------
\* The batch is never larger than it may be.
BatchFits == IsFiniteSet(batch) /\ Cardinality(batch) <= BatchSize

LEMMA BatchStep == Inv /\ BatchFits /\ [Next]_vars => BatchFits'
<1> SUFFICES ASSUME Inv, BatchFits, [Next]_vars PROVE BatchFits'
    OBVIOUS
<1>0. IsFiniteSet(Search) /\ BatchSize \in Nat \ {0}
    BY ValidatorAssumption
<1>1. ASSUME batch' \subseteq batch PROVE BatchFits'
    <2>1. IsFiniteSet(batch') /\ Cardinality(batch') <= Cardinality(batch)
        BY <1>1, FS_Subset DEF BatchFits
    <2>2. Cardinality(batch) \in Nat /\ Cardinality(batch') \in Nat
        BY <2>1, FS_CardinalityType DEF BatchFits
    <2> QED BY <1>0, <2>1, <2>2 DEF BatchFits
<1>2. CASE BeginPass
    <2>1. batch' \subseteq Search
          /\ (Cardinality(batch') = BatchSize \/ Cardinality(batch') < BatchSize)
        BY <1>2 DEF BeginPass, PendingValidations, Overdue
    <2>2. IsFiniteSet(batch')
        BY <1>0, <2>1, FS_Subset
    <2>3. Cardinality(batch') \in Nat
        BY <2>2, FS_CardinalityType
    <2> QED BY <1>0, <2>1, <2>2, <2>3 DEF BatchFits
<1>3. CASE ~BeginPass
    <2>1. batch' \subseteq batch
        BY <1>3 DEF Next, RunOnce, Add, Remove, Due, Check, CheckFails, Write, Notify,
                    WriteFails, EndPass, Restart, Stops, pass, vars
    <2> QED BY <1>1, <2>1
<1> QED
    BY <1>2, <1>3

\* Every variable keeps to its values, and a batch to its size.
THEOREM TypeCorrect == Spec => []TypeOK
<1>1. Init => BatchFits
    BY FS_EmptySet, ValidatorAssumption DEF Init, BatchFits
<1>2. Inv /\ BatchFits => TypeOK
    BY FS_Singleton DEF Inv, Types, AtHand, BatchFits, TypeOK
<1> QED
    BY <1>1, <1>2, InvInit, InvStep, BatchStep, PTL DEF Spec

-----------------------------------------------------------------------------
(* Daily: for any users and days.                                          *)

LEMMA JobTypeStep == DailyTypeOK /\ [DailyNext]_dailyVars => DailyTypeOK'
<1> SUFFICES ASSUME DailyTypeOK, [DailyNext]_dailyVars PROVE DailyTypeOK'
  OBVIOUS
<1> USE DEF DailyTypeOK, Row, users, cycle
<1>0. \A u \in User, d \in Day : <<u, d>> # NoRun
  BY DEF NoRun
<1>1. ASSUME NEW u \in User, Onboard(u) \/ SetStopped(u) \/ SetActive(u)
      PROVE  DailyTypeOK'
  <2>1. CASE Onboard(u)
    BY <2>1 DEF Onboard
  <2>2. CASE SetStopped(u)
    BY <2>2 DEF SetStopped
  <2>3. CASE SetActive(u)
    BY <2>3 DEF SetActive
  <2> QED
    BY <1>1, <2>1, <2>2, <2>3
<1>2. ASSUME NEW u \in User, DeleteUser(u) PROVE DailyTypeOK'
  BY <1>2 DEF DeleteUser
<1>3. CASE NextDay
  BY <1>3, DailyAssumption DEF NextDay, Day
<1>4. CASE Fire
  BY <1>4 DEF Fire, ListActiveUsers
<1>5. ASSUME NEW u \in User, EnsureDigest(u) \/ EnsureFails(u) PROVE DailyTypeOK'
  <2>1. CASE EnsureDigest(u)
    BY <2>1 DEF EnsureDigest
  <2>2. CASE EnsureFails(u)
    BY <2>2 DEF EnsureFails
  <2> QED
    BY <1>5, <2>1, <2>2
<1>6. CASE ReadPending
  BY <1>6, DailyAssumption DEF ReadPending, PendingDigests, Day
<1>7. ASSUME NEW u \in User, NEW d \in Day, StartDigest(u, d) \/ StartFails(u, d)
      PROVE  DailyTypeOK'
  <2>1. CASE StartDigest(u, d)
    BY <1>0, <2>1 DEF StartDigest
  <2>2. CASE StartFails(u, d)
    BY <2>2 DEF StartFails
  <2> QED
    BY <1>7, <2>1, <2>2
<1>8. ASSUME NEW result \in {"done", "error"}, phase = "run", FinishDigest(result),
             clean' \in BOOLEAN
      PROVE  DailyTypeOK'
  <2>1. PICK u \in User, d \in Day : run = <<u, d>>
    BY <1>8
  <2> QED
    BY <1>0, <1>8, <2>1 DEF FinishDigest
<1>9. CASE RunSucceeds \/ RunErrors
  BY <1>8, <1>9 DEF RunSucceeds, RunErrors
<1>10. CASE FinishFails
  BY <1>10 DEF FinishFails
<1>11. CASE CycleDone
  BY <1>11 DEF CycleDone, Over
<1>12. CASE Interrupted
  BY <1>12 DEF Interrupted, Over
<1>13. CASE UNCHANGED dailyVars
  BY <1>13 DEF dailyVars
<1> QED
  BY <1>1, <1>2, <1>3, <1>4, <1>5, <1>6, <1>7, <1>9, <1>10, <1>11, <1>12, <1>13
     DEF DailyNext, RunDaily

\* While nothing has failed, each unfinished row of the cycle's day or an
\* earlier one is still to be run or is being run: new rows for those days are
\* only made before PendingDigests, and a row leaves the list only to be run.
NothingDropped ==
    clean /\ phase \in {"next", "run"} =>
        \A u \in User, d \in 1..date :
            Unfinished(u, d) => <<u, d>> \in todo \/ run = <<u, d>>

JobInv == DailyTypeOK /\ NothingDropped

LEMMA DroppedStep ==
    DailyTypeOK /\ NothingDropped /\ [DailyNext]_dailyVars
        => NothingDropped'
<1> SUFFICES ASSUME DailyTypeOK, NothingDropped, [DailyNext]_dailyVars
             PROVE  NothingDropped'
  OBVIOUS
<1> USE DEF NothingDropped, Unfinished, users, cycle
<1>0. /\ date \in Day /\ \A d \in 1..date : d \in Day
      /\ digests \in [User -> [Day -> Row]]
      /\ todo \subseteq User \X Day
  BY DailyAssumption DEF DailyTypeOK, Day
<1>1. ASSUME NEW u \in User, Onboard(u) \/ SetStopped(u) \/ SetActive(u)
      PROVE  NothingDropped'
  BY <1>1 DEF Onboard, SetStopped, SetActive
<1>2. ASSUME NEW u \in User, DeleteUser(u) PROVE NothingDropped'
  BY <1>0, <1>2 DEF DeleteUser
<1>3. CASE NextDay \/ Fire \/ CycleDone \/ Interrupted \/ UNCHANGED dailyVars
  BY <1>3 DEF NextDay, Fire, CycleDone, Interrupted, Over, dailyVars
<1>4. ASSUME NEW u \in User, EnsureDigest(u) \/ EnsureFails(u) PROVE NothingDropped'
  BY <1>4 DEF EnsureDigest, EnsureFails
<1>5. CASE ReadPending
  BY <1>0, <1>5 DEF ReadPending, PendingDigests
<1>6. ASSUME NEW u \in User, NEW d \in Day, StartDigest(u, d) PROVE NothingDropped'
  <2> SUFFICES ASSUME clean, NEW v \in User, NEW e \in 1..date, Unfinished(v, e)'
               PROVE  <<v, e>> \in todo' \/ run' = <<v, e>>
    BY <1>6 DEF StartDigest
  <2>1. CASE v = u /\ e = d
    BY <1>6, <2>1 DEF StartDigest
  <2>2. CASE ~(v = u /\ e = d)
    <3>1. /\ digests'[v][e] = digests[v][e] /\ todo' = todo \ {<<u, d>>}
          /\ run = NoRun /\ phase = "next"
      BY <1>0, <1>6, <2>2 DEF StartDigest, DailyTypeOK
    <3>2. <<v, e>> \in todo
      BY <3>1 DEF NoRun
    <3> QED
      BY <2>2, <3>1, <3>2
  <2> QED
    BY <2>1, <2>2
<1>7. CASE RunSucceeds
  <2>1. PICK u \in User, d \in Day : run = <<u, d>>
    BY <1>7 DEF RunSucceeds, DailyTypeOK
  <2>2. /\ UNCHANGED <<date, todo, clean>> /\ phase = "run"
        /\ digests'[u][d] \in {"none", "done"}
        /\ \A v \in User, e \in Day : v # u \/ e # d => digests'[v][e] = digests[v][e]
    BY <1>0, <1>7, <2>1 DEF RunSucceeds, FinishDigest
  <2> QED
    BY <1>0, <2>1, <2>2
<1>8. CASE \/ RunErrors \/ FinishFails
           \/ \E u \in User, d \in Day : StartFails(u, d)
  BY <1>8 DEF RunErrors, FinishFails, StartFails
<1> QED
  BY <1>1, <1>2, <1>3, <1>4, <1>5, <1>6, <1>7, <1>8 DEF DailyNext, RunDaily

LEMMA JobInitially == DailyInit => JobInv
BY DailyAssumption
   DEF DailyInit, JobInv, DailyTypeOK, Day, Row, NoRun,
       NothingDropped

\* The job's variables have their types; a user who is gone has no digests row,
\* whatever the cycle under way still lists (ON DELETE CASCADE).
THEOREM JobTypeCorrect == DailySpec => []DailyTypeOK
<1>1. DailyTypeOK /\ [DailyNext]_dailyVars => DailyTypeOK'
  BY JobTypeStep
<1>2. DailyInit => DailyTypeOK
  BY JobInitially DEF JobInv
<1> QED
  BY <1>1, <1>2, PTL DEF DailySpec

\* A cycle in which nothing failed ends with every run of its day and the days
\* before done (digest.go:307-313), for any users and days, and whatever users,
\* operator and earlier interruptions did to the rows.
THEOREM NothingForgotten == DailySpec => NothingLeftBehind
<1>1. JobInv /\ [DailyNext]_dailyVars =>
         ((phase # "off" /\ phase' = "off" /\ clean')
            => \A u \in User, d \in 1..date : ~Unfinished(u, d)')
  <2> SUFFICES ASSUME JobInv, [DailyNext]_dailyVars, phase # "off", phase' = "off", clean'
               PROVE  \A u \in User, d \in 1..date : ~Unfinished(u, d)'
    OBVIOUS
  <2>1. CycleDone
    BY DEF DailyNext, RunDaily, Onboard, SetStopped, SetActive,
           DeleteUser, NextDay, Fire, EnsureDigest, EnsureFails,
           ReadPending, StartDigest, StartFails, RunSucceeds,
           RunErrors, FinishDigest, FinishFails, Interrupted,
           cycle, dailyVars
  <2>2. clean /\ phase = "next" /\ todo = {} /\ UNCHANGED <<digests, date>>
    BY <2>1 DEF CycleDone, Over
  <2>3. \A u \in User, d \in 1..date : Unfinished(u, d) => run = <<u, d>>
    BY <2>2 DEF JobInv, NothingDropped
  <2>4. run = NoRun
    BY <2>2 DEF JobInv, DailyTypeOK
  <2>5. \A u \in User, d \in 1..date : ~Unfinished(u, d)
    BY <2>3, <2>4 DEF NoRun
  <2> QED
    BY <2>2, <2>5 DEF Unfinished
<1>2. JobInv /\ [DailyNext]_dailyVars => JobInv'
  BY JobTypeStep, DroppedStep DEF JobInv
<1>3. DailyInit => JobInv
  BY JobInitially
<1> QED
  BY <1>1, <1>2, <1>3, PTL DEF DailySpec, NothingLeftBehind
=============================================================================
