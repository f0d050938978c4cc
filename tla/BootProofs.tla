----------------------------- MODULE BootProofs ------------------------------
(***************************************************************************)
(* Theorems about module Boot, for any number of processes, migrations,    *)
(* seeds and failures, and before them about module Model, which Boot      *)
(* extends, for any features and any bounds on ratings and generations.    *)
(***************************************************************************)
EXTENDS Boot, TLAPS

-----------------------------------------------------------------------------
(* The preference model, module Model, by itself.                          *)

LEMMA ModelTypeInit == ModelInit => ModelTypeOK
<1>1. Nothing \in Counts /\ 0 \in 0..MaxVersion
    <2>1. 0 \in 0..MaxRatings /\ 0 \in 0..MaxVersion
        BY ModelAssumption
    <2> QED BY <2>1 DEF Nothing, Counts
<1>2. ModelInit => held \in [Process -> [version : 0..MaxVersion, counts : Counts]]
    BY <1>1 DEF ModelInit
<1>3. ModelInit => rows \in [Version -> Counts]
    BY <1>1 DEF ModelInit
<1> QED
    BY <1>1, <1>2, <1>3 DEF ModelInit, ModelTypeOK, Phase

\* A bucket of the new generation holds the new count or an old one.
LEMMA CommitsType ==
    ASSUME ModelTypeOK, NEW p \in Process, Commits(p)
    PROVE  /\ rows' \in [Version -> Counts]
           /\ version' \in 0..MaxVersion
           /\ whole' \in Counts
<1> USE DEF ModelTypeOK, Counts
<1>1. 0 \in 0..MaxRatings
    BY ModelAssumption
<1>2. rows' \in [Version -> Counts]
    BY <1>1 DEF Commits
<1> QED
    BY <1>2 DEF Commits

LEMMA ModelTypeStep == ModelTypeOK /\ [ModelNext]_modelVars => ModelTypeOK'
<1> SUFFICES ASSUME ModelTypeOK, [ModelNext]_modelVars PROVE ModelTypeOK'
    OBVIOUS
<1>0. Nothing \in Counts /\ 0 \in 0..MaxVersion
    BY ModelAssumption DEF Nothing, Counts
<1> USE DEF ModelTypeOK, Phase
<1>1. ASSUME NEW p \in Process, TrainingSamples(p) PROVE ModelTypeOK'
    BY <1>1 DEF TrainingSamples
<1>2. ASSUME NEW p \in Process, ModelVersion(p) PROVE ModelTypeOK'
    BY <1>0, <1>2, ModelAssumption DEF ModelVersion, Ends
<1>3. ASSUME NEW p \in Process, ReplaceWeights(p) PROVE ModelTypeOK'
    <2>1. CASE user BY <1>0, <1>3, <2>1, CommitsType DEF ReplaceWeights, Ends
    <2>2. CASE ~user BY <1>0, <1>3, <2>2 DEF ReplaceWeights, Ends
    <2> QED BY <2>1, <2>2
<1>4. ASSUME NEW p \in Process, StatementFails(p) PROVE ModelTypeOK'
    <2>1. CASE Commits(p) BY <1>0, <1>4, <2>1, CommitsType DEF StatementFails, Ends
    <2>2. CASE UNCHANGED <<rows, version, whole>>
        BY <1>0, <1>4, <2>2 DEF StatementFails, Ends
    <2> QED BY <1>4, <2>1, <2>2 DEF StatementFails
<1>5. ASSUME NEW p \in Process, Load(p) PROVE ModelTypeOK'
    BY <1>0, <1>5 DEF Load, ActiveVersion, ActiveRows, Ends
<1>6. ASSUME NEW b \in Bucket, Rate(b) PROVE ModelTypeOK'
    BY <1>6, ModelAssumption DEF Rate, Counts
<1>7. CASE Register \/ Erase
    BY <1>0, <1>7 DEF Register, Erase
<1>8. CASE UNCHANGED modelVars
    BY <1>8 DEF modelVars
<1> QED
    BY <1>1, <1>2, <1>3, <1>4, <1>5, <1>6, <1>7, <1>8 DEF ModelNext, Retrain

\* Every variable keeps to its values.
THEOREM ModelTypeCorrect == ModelSpec => []ModelTypeOK
BY ModelTypeInit, ModelTypeStep, PTL DEF ModelSpec

-----------------------------------------------------------------------------
\* As long as no two trainings cross, there is at most one; it writes a version
\* above the active one, which an erasure can only set back; and the rows are
\* those of the active generation.
OneTraining ==
    \A p, q \in Process : Training(p) /\ Training(q) => p = q

AheadOfActive ==
    \A p \in Process : at[p] = "replace" => held[p].version \in Version
                                            /\ held[p].version > version

RowsOfActive ==
    \A v \in Version : rows[v] = IF v = version THEN whole ELSE Nothing

LoadsAVersion ==
    \A p \in Process : at[p] = "rows" => held[p].version \in Version

Uncrossed == ~crossed => OneTraining /\ AheadOfActive /\ RowsOfActive

ModelInv == LoadsAVersion /\ Uncrossed

LEMMA ModelInvInit == ModelInit => ModelInv
BY DEF ModelInit, ModelInv, LoadsAVersion, Uncrossed, OneTraining, AheadOfActive,
       RowsOfActive, Training, Version

\* A commit replaces every generation there was with what was trained, whether
\* the process goes on or not.
LEMMA CommitKeepsRows ==
    ASSUME ModelTypeOK, NEW p \in Process, at[p] = "replace",
           AheadOfActive, RowsOfActive, Commits(p)
    PROVE  RowsOfActive'
<1> DEFINE new == held[p].version
<1>1. new \in Version /\ new > version
    BY DEF AheadOfActive
<1>2. rows[new] = Nothing
    BY <1>1 DEF RowsOfActive, ModelTypeOK
<1>3. held[p].counts \in [Bucket -> 0..MaxRatings]
    BY DEF ModelTypeOK, Counts
<1>4. rows'[new] = held[p].counts
    <2>1. rows'[new] = [b \in Bucket |-> IF held[p].counts[b] > 0
                                         THEN held[p].counts[b] ELSE rows[new][b]]
        BY <1>1 DEF Commits
    <2>2. \A b \in Bucket : rows[new][b] = 0
        BY <1>2 DEF Nothing
    <2>3. \A b \in Bucket : held[p].counts[b] \in 0..MaxRatings
        BY <1>3
    <2>4. \A b \in Bucket : (IF held[p].counts[b] > 0 THEN held[p].counts[b]
                             ELSE rows[new][b]) = held[p].counts[b]
        BY <2>2, <2>3, ModelAssumption
    <2> QED BY <1>3, <2>1, <2>4
<1>5. \A v \in Version : v # new => rows'[v] = Nothing
    BY DEF Commits, Nothing
<1> QED
    BY <1>1, <1>4, <1>5 DEF RowsOfActive, Commits, Nothing

LEMMA ModelInvStep == ModelTypeOK /\ ModelInv /\ [ModelNext]_modelVars => ModelInv'
<1> SUFFICES ASSUME ModelTypeOK, ModelInv, [ModelNext]_modelVars PROVE ModelInv'
    OBVIOUS
<1> USE DEF ModelTypeOK, ModelInv, LoadsAVersion, Uncrossed, OneTraining, AheadOfActive,
            Training, Version
<1>1. ASSUME NEW p \in Process, TrainingSamples(p) PROVE ModelInv'
    BY <1>1 DEF TrainingSamples, RowsOfActive, Nothing
<1>2. ASSUME NEW p \in Process, ModelVersion(p) PROVE ModelInv'
    <2>1. ASSUME user PROVE ModelInv'
        <3>1. version + 1 \in Version /\ version + 1 > version
            BY <1>2, ModelAssumption DEF ModelVersion
        <3>2. held'[p].version = version + 1 /\ at' = [at EXCEPT ![p] = "replace"]
            BY <1>2, <2>1 DEF ModelVersion
        <3>3. \A q \in Process : q # p => held'[q] = held[q] /\ at'[q] = at[q]
            BY <1>2, <2>1 DEF ModelVersion
        <3>4. UNCHANGED <<rows, version, whole, crossed>> /\ at[p] = "samples"
            BY <1>2 DEF ModelVersion
        <3>5. LoadsAVersion'
            BY <3>2, <3>3
        <3>6. ~crossed => OneTraining' /\ AheadOfActive'
            BY <3>1, <3>2, <3>3, <3>4
        <3>7. ~crossed => RowsOfActive'
            BY <3>4 DEF RowsOfActive, Nothing
        <3> QED BY <3>4, <3>5, <3>6, <3>7
    <2>2. ASSUME ~user PROVE ModelInv'
        BY <1>2, <2>2 DEF ModelVersion, Ends, RowsOfActive, Nothing
    <2> QED BY <2>1, <2>2
<1>3. ASSUME NEW p \in Process, at[p] = "replace", Commits(p), Ends(p), UNCHANGED crossed
      PROVE ModelInv'
    <2>1. LoadsAVersion'
        BY <1>3 DEF Ends
    <2>2. ASSUME ~crossed PROVE OneTraining' /\ AheadOfActive' /\ RowsOfActive'
        <3>1. \A q \in Process : ~Training(q)'
            BY <1>3, <2>2 DEF Ends
        <3>2. RowsOfActive'
            BY <1>3, <2>2, CommitKeepsRows
        <3> QED BY <3>1, <3>2
    <2> QED BY <1>3, <2>1, <2>2
<1>4. ASSUME NEW p \in Process, Ends(p), UNCHANGED <<rows, version, whole, crossed>>
      PROVE ModelInv'
    BY <1>4 DEF Ends, RowsOfActive, Nothing
<1>5. ASSUME NEW p \in Process, ReplaceWeights(p) \/ StatementFails(p) PROVE ModelInv'
    BY <1>3, <1>4, <1>5 DEF ReplaceWeights, StatementFails
<1>6. ASSUME NEW p \in Process, ActiveVersion(p) PROVE ModelInv'
    BY <1>6, ModelAssumption DEF ActiveVersion, RowsOfActive, Nothing
<1>7. ASSUME NEW p \in Process, ActiveRows(p) PROVE ModelInv'
    BY <1>4, <1>7 DEF ActiveRows
<1>8. CASE (\E b \in Bucket : Rate(b)) \/ Register \/ UNCHANGED modelVars
    BY <1>8 DEF Rate, Register, modelVars, RowsOfActive, Nothing
<1>9. CASE Erase
    BY <1>9, ModelAssumption DEF Erase, RowsOfActive, Nothing
<1> QED
    BY <1>1, <1>2, <1>5, <1>6, <1>7, <1>8, <1>9 DEF ModelNext, Retrain, Load

\* A load gets a generation whole, or none of it (weights.go:71-73), for any
\* number of processes.
THEOREM WholeLoads == ModelSpec => []LoadsWhole
<1>1. ModelInv => LoadsWhole
    BY DEF ModelInv, LoadsAVersion, Uncrossed, RowsOfActive, LoadsWhole
<1> QED
    BY <1>1, ModelInvInit, ModelInvStep, ModelTypeCorrect, PTL DEF ModelSpec

-----------------------------------------------------------------------------
(* The start-up that uses it.                                              *)

\* What a process does to the model is a step of module Model.
LEMMA StepOfModel == [Next]_vars => [ModelNext]_modelVars
<1> SUFFICES ASSUME [Next]_vars PROVE ModelNext \/ UNCHANGED modelVars
    OBVIOUS
<1>1. ASSUME NEW p \in Process, Boots(p) PROVE ModelNext \/ UNCHANGED modelVars
    BY <1>1 DEF Boots, Open, Lock, AppliedVersions, Apply, Migrated, BootstrapApplied,
                SeedUser, SeedSearch, SeedRefused, Seeded, MarkBootstrapApplied,
                ListActiveUsers, RetrainUser, Trained, ModelNext, Retrain
<1>2. ASSUME NEW p \in Process, Start(p) \/ LoadModel(p) \/ Shutdown(p)
      PROVE ModelNext \/ UNCHANGED modelVars
    BY <1>2 DEF Start, LoadModel, Shutdown, ModelNext
<1>3. ASSUME NEW p \in Process, Dies(p) \/ ModelFails(p)
      PROVE ModelNext \/ UNCHANGED modelVars
    BY <1>3 DEF Dies, Lost, ModelFails, ModelNext
<1>4. CASE \/ \E r \in Search : RemoveSearch(r) \/ AddSearch(r)
          \/ EraseUser \/ UserActs
    BY <1>4 DEF RemoveSearch, AddSearch, EraseUser, UserActs, ModelNext
<1>5. CASE UNCHANGED vars
    BY <1>5 DEF vars
<1> QED
    BY <1>1, <1>2, <1>3, <1>4, <1>5, BootAssumption DEF Next

\* A start-up and all that goes wrong in it use the model as module Model says.
THEOREM UsesModel == Spec => ModelSpec
<1>1. Init => ModelInit
    BY DEF Init
<1> QED
    BY <1>1, StepOfModel, PTL DEF Spec, ModelSpec

\* Whatever processes start, stop or die, a load gets a generation whole or none
\* of it (weights.go:71-73).
THEOREM LoadsWholeHere == Spec => []LoadsWhole
BY UsesModel, WholeLoads, PTL

-----------------------------------------------------------------------------
LEMMA TypeInit == Init => TypeOK
<1> SUFFICES ASSUME Init PROVE TypeOK
    OBVIOUS
<1>1. ModelTypeOK
    BY ModelTypeInit DEF Init
<1>2. \A p \in Process : at[p] = "idle"
    BY DEF Init, ModelInit
<1>3. pc \in [Process -> Location] /\ found \in [Process -> SUBSET Migration]
      /\ left \in [Process -> SUBSET Entry]
    BY DEF Init, Location
<1>4. \A p \in Process : pc[p] = "down" /\ left[p] = {} /\ lock # p
    BY BootAssumption DEF Init
<1>5. boots \in 0..MaxBoots /\ faults \in 0..MaxFaults
    BY BootAssumption DEF Init
<1> QED
    BY <1>1, <1>2, <1>3, <1>4, <1>5 DEF Init, TypeOK, RowsOK, Migrating, Training

\* No step breaks the constraints of the table, whoever inserts.
LEMMA RowsStep == TypeOK /\ [Next]_vars => RowsOK'
<1> SUFFICES ASSUME TypeOK, [Next]_vars PROVE RowsOK'
    OBVIOUS
<1>0. RowsOK /\ \A p \in Process : left[p] \subseteq Entry
    BY DEF TypeOK
<1> USE DEF RowsOK
<1>1. ASSUME UNCHANGED searches, user' = user \/ user' = TRUE PROVE RowsOK'
    BY <1>0, <1>1
<1>2. ASSUME NEW p \in Process, NEW s \in left[p], Seedable(s), searches' = Inserted(s),
             UNCHANGED user
      PROVE RowsOK'
    <2>1. s \in Search
        BY <1>0, <1>2 DEF Seedable, Search, Entry
    <2>2. CASE s[1] \in Listed
        BY <1>0, <1>1, <1>2, <2>2 DEF Inserted
    <2>3. CASE s[1] \notin Listed
        <3>1. \A r \in searches : r[1] # s[1] /\ r[2] # s[2]
            BY <1>2, <2>3 DEF Listed, Seedable, LabelTaken
        <3>2. searches' = searches \cup {s} /\ user
            BY <1>2, <2>3 DEF Inserted, Seedable
        <3> QED BY <1>0, <1>2, <2>1, <3>1, <3>2
    <2> QED BY <2>2, <2>3
<1>3. ASSUME NEW p \in Process, Boots(p) PROVE RowsOK'
    <2>1. CASE SeedSearch(p)
        BY <1>2, <2>1 DEF SeedSearch, modelVars
    <2>2. CASE RetrainUser(p) \/ ListActiveUsers(p)
        BY <1>1, <2>2 DEF RetrainUser, ListActiveUsers, TrainingSamples, ModelVersion,
                          ReplaceWeights, bootVars, modelVars
    <2>3. CASE SeedUser(p)
        BY <1>1, <2>3 DEF SeedUser, Register, modelVars
    <2>4. CASE \/ Open(p) \/ Lock(p) \/ AppliedVersions(p) \/ Apply(p) \/ Migrated(p)
               \/ BootstrapApplied(p) \/ SeedRefused(p) \/ Seeded(p)
               \/ MarkBootstrapApplied(p) \/ Trained(p)
        BY <1>1, <2>4 DEF Open, Lock, AppliedVersions, Apply, Migrated, BootstrapApplied,
                          SeedRefused, Seeded, MarkBootstrapApplied, Trained, modelVars
    <2> QED BY <1>3, <2>1, <2>2, <2>3, <2>4 DEF Boots
<1>4. ASSUME NEW p \in Process, Start(p) \/ Shutdown(p) \/ LoadModel(p) \/ ModelFails(p)
      PROVE RowsOK'
    BY <1>1, <1>4 DEF Start, Shutdown, LoadModel, Load, ActiveVersion, ActiveRows, ModelFails,
                      StatementFails, bootVars, modelVars
<1>5. ASSUME NEW p \in Process, Dies(p) PROVE RowsOK'
    <2>1. CASE UNCHANGED searches /\ (UNCHANGED user \/ Register)
        BY <1>1, <2>1 DEF Register
    <2>2. CASE /\ UNCHANGED user
               /\ \E s \in left[p] : Seedable(s) /\ searches' = Inserted(s)
        BY <1>2, <2>2
    <2> QED BY <1>5, <2>1, <2>2 DEF Dies, Lost, StatementFails, modelVars
<1>6. ASSUME NEW r \in Search, RemoveSearch(r) PROVE RowsOK'
    BY <1>0, <1>6 DEF RemoveSearch, Takes, modelVars
<1>7. ASSUME NEW r \in Own, AddSearch(r) PROVE RowsOK'
    <2>1. /\ searches' = {q \in searches : q[1] # r[1]} \cup {r}
          /\ user /\ user' = user /\ r \in Search
          /\ \A q \in searches : q[2] = r[2] => q[1] = r[1]
        BY <1>7, BootAssumption DEF AddSearch, LabelTaken, modelVars
    <2> QED BY <1>0, <2>1
<1>8. CASE EraseUser
    BY <1>0, <1>8 DEF EraseUser, Takes
<1>9. CASE UserActs \/ UNCHANGED vars
    BY <1>1, <1>9 DEF UserActs, Register, Rate, bootVars, vars, modelVars
<1> QED
    BY <1>3, <1>4, <1>5, <1>6, <1>7, <1>8, <1>9 DEF Next

\* The step of one process leaves the others where they were.
LEMMA TypeStep == TypeOK /\ [Next]_vars => TypeOK'
<1> SUFFICES ASSUME TypeOK, [Next]_vars PROVE TypeOK'
    OBVIOUS
<1>0. ModelTypeOK' /\ RowsOK'
    BY StepOfModel, ModelTypeStep, RowsStep DEF TypeOK
<1>c. \A p \in Process : env[p].seeds \subseteq Entry
    BY BootAssumption DEF TypeOK
<1>a. NoOne \notin Process /\ MaxBoots \in Nat /\ MaxFaults \in Nat
    BY BootAssumption
<1>b. ModelTypeOK => at \in [Process -> Phase]
    BY DEF ModelTypeOK
<1> USE DEF TypeOK, Location, Starting, Migrating, Seeding, Training, Goes
<1> USE DEF gone
<1>1. ASSUME NEW p \in Process, Start(p) PROVE TypeOK'
    BY <1>0, <1>a, <1>b, <1>1 DEF Start, modelVars
<1>2. ASSUME NEW p \in Process, Open(p) PROVE TypeOK'
    BY <1>0, <1>a, <1>b, <1>2 DEF Open, modelVars
<1>3. ASSUME NEW p \in Process, Lock(p) PROVE TypeOK'
    BY <1>0, <1>a, <1>b, <1>3 DEF Lock, LockFree, modelVars
<1>4. ASSUME NEW p \in Process, AppliedVersions(p) PROVE TypeOK'
    BY <1>0, <1>a, <1>b, <1>4 DEF AppliedVersions, modelVars
<1>5. ASSUME NEW p \in Process, Apply(p) PROVE TypeOK'
    BY <1>0, <1>a, <1>b, <1>5 DEF Apply, Due, Pending, modelVars
<1>6. ASSUME NEW p \in Process, Migrated(p) PROVE TypeOK'
    BY <1>0, <1>a, <1>b, <1>6 DEF Migrated, Unlock, modelVars
<1>7. ASSUME NEW p \in Process, BootstrapApplied(p) PROVE TypeOK'
    BY <1>0, <1>a, <1>b, <1>7 DEF BootstrapApplied, Joins, modelVars
<1>8. ASSUME NEW p \in Process, SeedUser(p) PROVE TypeOK'
    BY <1>0, <1>a, <1>b, <1>c, <1>8 DEF SeedUser, Register, modelVars
<1>9. ASSUME NEW p \in Process, SeedSearch(p) PROVE TypeOK'
    BY <1>0, <1>a, <1>b, <1>9 DEF SeedSearch, modelVars
<1>10. ASSUME NEW p \in Process, SeedRefused(p) \/ Seeded(p) PROVE TypeOK'
    BY <1>0, <1>a, <1>b, <1>10 DEF SeedRefused, Seeded, modelVars
<1>11. ASSUME NEW p \in Process, MarkBootstrapApplied(p) PROVE TypeOK'
    BY <1>0, <1>a, <1>b, <1>11 DEF MarkBootstrapApplied, modelVars
<1>12. ASSUME NEW p \in Process, ListActiveUsers(p) PROVE TypeOK'
    BY <1>0, <1>a, <1>b, <1>12 DEF ListActiveUsers, TrainingSamples, modelVars
<1>13. ASSUME NEW p \in Process, RetrainUser(p) PROVE TypeOK'
    <2>1. at'[p] # "rows" /\ pc[p] = "retrain" /\ \A q \in Process : q # p => at'[q] = at[q]
        BY <1>b, <1>13 DEF RetrainUser, ModelVersion, ReplaceWeights, Ends
    <2> QED BY <1>0, <1>a, <1>13, <2>1 DEF RetrainUser, bootVars
<1>14. ASSUME NEW p \in Process, Trained(p) \/ Shutdown(p) PROVE TypeOK'
    BY <1>0, <1>a, <1>b, <1>14 DEF Trained, Shutdown, modelVars
<1>15. ASSUME NEW p \in Process, LoadModel(p) PROVE TypeOK'
    BY <1>0, <1>a, <1>b, <1>15 DEF LoadModel, Load, ActiveVersion, ActiveRows, Ends, bootVars
<1>16. ASSUME NEW p \in Process, Dies(p) PROVE TypeOK'
    <2>1. applied' \subseteq Migration /\ applied \subseteq applied'
          /\ marker' \in BOOLEAN
        BY <1>16 DEF Dies, Lost, Due
    <2>2. at'[p] = "idle" /\ \A q \in Process : q # p => at'[q] = at[q]
        <3>1. CASE UNCHANGED modelVars /\ at[p] = "idle"
            BY <3>1 DEF modelVars
        <3>2. CASE StatementFails(p)
            BY <1>b, <3>2 DEF StatementFails, Ends
        <3>3. CASE Lost(p)
            <4>1. pc[p] # "retrain" /\ pc[p] # "serving" /\ UNCHANGED at
                BY <3>3 DEF Lost, Register, modelVars
            <4> QED BY <1>b, <4>1 DEF Phase
        <3> QED BY <1>16, <3>1, <3>2, <3>3 DEF Dies
    <2> QED BY <1>0, <1>a, <1>b, <1>16, <2>1, <2>2 DEF Dies, Down
<1>17. ASSUME NEW p \in Process, ModelFails(p) PROVE TypeOK'
    BY <1>0, <1>a, <1>b, <1>17 DEF ModelFails, StatementFails, Ends
<1>18. ASSUME NEW r \in Search, RemoveSearch(r) \/ (r \in Own /\ AddSearch(r))
      PROVE TypeOK'
    <2>1. r[1] \in Url
        BY DEF Search
    <2>2. UNCHANGED <<env, pc, lock, applied, found, left, marker, boots, faults, together, at>>
        BY <1>18 DEF RemoveSearch, AddSearch, modelVars
    <2>3. (late \subseteq removed /\ removed \subseteq Url)'
        BY <1>18, <2>1 DEF RemoveSearch, AddSearch, Takes
    <2> QED BY <1>0, <2>2, <2>3
<1>19. CASE EraseUser
    <2>1. \A r \in searches : r[1] \in Url
        BY DEF RowsOK, Search
    <2>2. UNCHANGED <<env, pc, lock, applied, found, left, marker, boots, faults, together, at>>
        BY <1>19 DEF EraseUser, Erase
    <2>3. (late \subseteq removed /\ removed \subseteq Url)'
        BY <1>19, <2>1 DEF EraseUser, Takes
    <2> QED BY <1>0, <2>2, <2>3
<1>20. CASE UserActs
    BY <1>0, <1>a, <1>b, <1>20 DEF UserActs, Register, Rate, bootVars
<1>21. CASE UNCHANGED vars
    BY <1>0, <1>a, <1>b, <1>21 DEF vars, bootVars, modelVars
<1> QED
    BY <1>1, <1>2, <1>3, <1>4, <1>5, <1>6, <1>7, <1>8, <1>9, <1>10, <1>11, <1>12, <1>13,
       <1>14, <1>15, <1>16, <1>17, <1>18, <1>19, <1>20, <1>21, BootAssumption DEF Next, Boots

\* Every variable keeps to its values, and the advisory lock to the one process
\* that migrates.
THEOREM TypeCorrect == Spec => []TypeOK
BY TypeInit, TypeStep, PTL DEF Spec

-----------------------------------------------------------------------------
\* What a process has read under the lock stays true as long as it migrates:
\* only it can apply a migration.
KnowsApplied == \A p \in Process : pc[p] = "apply" => applied \subseteq found[p]

LEMMA KnowsStep == TypeOK /\ KnowsApplied /\ [Next]_vars => KnowsApplied'
<1> SUFFICES ASSUME TypeOK, KnowsApplied, [Next]_vars PROVE KnowsApplied'
    OBVIOUS
<1>0. /\ pc \in [Process -> Location] /\ found \in [Process -> SUBSET Migration]
      /\ \A p, q \in Process : pc[p] = "apply" /\ pc[q] = "apply" => p = q
    BY DEF TypeOK, Migrating
<1> USE DEF KnowsApplied, Goes
<1>1. ASSUME NEW p \in Process, Boots(p) PROVE KnowsApplied'
    <2>1. CASE Apply(p)
        BY <1>0, <2>1 DEF Apply
    <2>2. CASE AppliedVersions(p)
        BY <1>0, <2>2 DEF AppliedVersions
    <2>3. CASE Migrated(p)
        BY <1>0, <2>3 DEF Migrated
    <2>4. CASE Open(p) \/ Lock(p) \/ BootstrapApplied(p) \/ SeedUser(p) \/ SeedSearch(p)
               \/ SeedRefused(p) \/ Seeded(p) \/ MarkBootstrapApplied(p) \/ ListActiveUsers(p) \/ Trained(p)
        BY <1>0, <2>4 DEF Open, Lock, BootstrapApplied, SeedUser, SeedSearch, SeedRefused,
                          Seeded, MarkBootstrapApplied, ListActiveUsers, Trained
    <2>5. CASE RetrainUser(p)
        BY <2>5 DEF RetrainUser, bootVars
    <2> QED BY <1>1, <2>1, <2>2, <2>3, <2>4, <2>5 DEF Boots
<1>2. ASSUME NEW p \in Process, Start(p) \/ Shutdown(p) PROVE KnowsApplied'
    BY <1>0, <1>2 DEF Start, Shutdown
<1>3. ASSUME NEW p \in Process, Dies(p) PROVE KnowsApplied'
    <2>1. UNCHANGED applied \/ pc[p] = "apply"
        BY <1>3 DEF Dies, Lost
    <2> QED BY <1>0, <1>3, <2>1 DEF Dies, Down
<1>4. ASSUME NEW p \in Process, LoadModel(p) \/ ModelFails(p) PROVE KnowsApplied'
    BY <1>4 DEF LoadModel, ModelFails, bootVars
<1>5. CASE \/ \E r \in Search : RemoveSearch(r) \/ AddSearch(r)
          \/ EraseUser \/ UserActs \/ UNCHANGED vars
    BY <1>5 DEF RemoveSearch, AddSearch, EraseUser, UserActs, bootVars, vars
<1> QED
    BY <1>1, <1>2, <1>3, <1>4, <1>5, BootAssumption DEF Next

\* No start-up ends because of what another instance migrated or seeded, nor
\* because of what an earlier one left half done: only by a fault, or when the
\* data refuses a seed (db.go:29-31, migrate.go:18-19, seed.go:97-125), for any
\* number of instances, environments, migrations and searches of the user.
THEOREM FatalByFault == Spec => FatalOnlyByFault
<1>1. Init => KnowsApplied
    BY DEF Init, KnowsApplied
<1>2. TypeOK /\ KnowsApplied /\ [Next]_vars
      => [\A p \in Process : pc[p] \in Starting /\ pc'[p] = "down"
                             => faults' > faults \/ Refusable(p)]_vars
    <2> SUFFICES ASSUME TypeOK, KnowsApplied, Next, NEW p \in Process,
                        pc[p] \in Starting, pc'[p] = "down"
                 PROVE  faults' > faults \/ Refusable(p)
        OBVIOUS
    <2>0. pc \in [Process -> Location] /\ faults \in Nat
        BY BootAssumption DEF TypeOK
    <2> USE DEF Goes, Starting, Migrating, Seeding
    <2>1. ASSUME NEW q \in Process, Apply(q) PROVE FALSE
        BY <2>0, <2>1 DEF Apply, Due, Pending, KnowsApplied
    <2>2. ASSUME NEW q \in Process, SeedRefused(q) PROVE Refusable(p)
        <3>1. q = p
            BY <2>0, <2>2 DEF SeedRefused
        <3>2. \A s \in left[p] : s[1] \in Url \/ s[1] = NoUrl
            BY BootAssumption DEF TypeOK, Entry
        <3> QED BY <2>2, <3>1, <3>2 DEF SeedRefused, Seedable, Refusable
    <2>3. ASSUME NEW q \in Process, Boots(q), ~Apply(q), ~SeedRefused(q) PROVE FALSE
        BY <2>0, <2>3 DEF Boots, Open, Lock, AppliedVersions, Migrated, BootstrapApplied,
                          SeedUser, SeedSearch, Seeded, MarkBootstrapApplied,
                          ListActiveUsers, RetrainUser, Trained, bootVars
    <2>4. ASSUME NEW q \in Process, Start(q) \/ Shutdown(q) \/ LoadModel(q) PROVE FALSE
        BY <2>0, <2>4 DEF Start, Shutdown, LoadModel, bootVars
    <2>5. ASSUME NEW q \in Process, Dies(q) \/ ModelFails(q) PROVE faults' > faults
        BY <2>0, <2>5 DEF Dies, ModelFails
    <2>6. CASE \/ \E r \in Search : RemoveSearch(r) \/ AddSearch(r)
               \/ EraseUser \/ UserActs
        BY <2>6 DEF RemoveSearch, AddSearch, EraseUser, UserActs, bootVars
    <2> QED
        BY <2>1, <2>2, <2>3, <2>4, <2>5, <2>6, BootAssumption DEF Next
<1> QED
    BY <1>1, <1>2, TypeCorrect, KnowsStep, PTL DEF Spec, FatalOnlyByFault

-----------------------------------------------------------------------------
\* Unless two processes were seeding at once, one seeds at a time, and none once
\* the marker is there.
SeedsAlone ==
    ~together =>
        /\ \A p, q \in Process : pc[p] \in Seeding /\ pc[q] \in Seeding => p = q
        /\ \A p \in Process : pc[p] \in Seeding => ~marker

\* What was removed after the marker comes after the marker.
LateMarked == late # {} => marker

\* What a seeding process is done with has a row, or was removed.
SeedsAll ==
    \A p \in Process :
        /\ pc[p] \in Seeding => env[p].seeds # {}
        /\ pc[p] = "searches" => \A s \in env[p].seeds \ left[p] : s[1] \in Handled
        /\ pc[p] = "mark" => \A s \in env[p].seeds : s[1] \in Handled

SeedInv == SeedsAlone /\ LateMarked /\ SeedsAll /\ SeededOnce

\* No step forgets a URL, and only a seed under way lists one that was removed.
LEMMA HandledStep ==
    TypeOK /\ [Next]_vars =>
        /\ Handled \subseteq Handled'
        /\ UNCHANGED env
        /\ (\A p \in Process : pc[p] # "searches") =>
               \A u \in Listed' \cap late' : u \in Listed \cap late
<1> SUFFICES ASSUME TypeOK, [Next]_vars
             PROVE  /\ Handled \subseteq Handled'
                    /\ UNCHANGED env
                    /\ (\A p \in Process : pc[p] # "searches") =>
                           \A u \in Listed' \cap late' : u \in Listed \cap late
    OBVIOUS
<1> DEFINE Goal == /\ Handled \subseteq Handled'
                   /\ UNCHANGED env
                   /\ (\A p \in Process : pc[p] # "searches") =>
                          \A u \in Listed' \cap late' : u \in Listed \cap late
<1> USE DEF Handled, Listed, gone
<1>1. ASSUME UNCHANGED <<env, searches, gone>> PROVE Goal
    BY <1>1
<1>2. ASSUME NEW p \in Process, pc[p] = "searches", NEW s, searches' = Inserted(s),
             UNCHANGED <<env, gone>>
      PROVE Goal
    BY <1>2 DEF Inserted
<1>3. ASSUME NEW p \in Process, Boots(p) PROVE Goal
    <2>1. CASE SeedSearch(p)
        BY <1>2, <2>1 DEF SeedSearch
    <2>2. CASE ~SeedSearch(p)
        BY <1>1, <1>3, <2>2 DEF Boots, Open, Lock, AppliedVersions, Apply, Migrated,
               BootstrapApplied, SeedUser, SeedRefused, Seeded, MarkBootstrapApplied,
               ListActiveUsers, RetrainUser, Trained, bootVars
    <2> QED BY <2>1, <2>2
<1>4. ASSUME NEW p \in Process, Start(p) \/ Shutdown(p) \/ LoadModel(p) \/ ModelFails(p)
      PROVE Goal
    BY <1>1, <1>4 DEF Start, Shutdown, LoadModel, ModelFails, bootVars
<1>5. ASSUME NEW p \in Process, Dies(p) PROVE Goal
    <2>1. CASE UNCHANGED searches
        BY <1>1, <1>5, <2>1 DEF Dies
    <2>2. CASE pc[p] = "searches" /\ \E s \in left[p] : searches' = Inserted(s)
        BY <1>2, <1>5, <2>2 DEF Dies
    <2> QED BY <1>5, <2>1, <2>2 DEF Dies, Lost
<1>6. ASSUME NEW r \in Search, RemoveSearch(r) PROVE Goal
    <2>1. \A q \in searches' : q[1] # r[1]
        BY <1>6 DEF RemoveSearch, Takes, TypeOK, RowsOK
    <2> QED BY <1>6, <2>1 DEF RemoveSearch, Takes
<1>7. ASSUME NEW r \in Search, AddSearch(r) PROVE Goal
    BY <1>7 DEF AddSearch
<1>8. CASE EraseUser
    BY <1>8 DEF EraseUser, Takes
<1>9. CASE UserActs \/ UNCHANGED vars
    BY <1>1, <1>9 DEF UserActs, bootVars, vars
<1> QED
    BY <1>3, <1>4, <1>5, <1>6, <1>7, <1>8, <1>9, BootAssumption DEF Next

\* What a start-up or its end does to the marker, to those who are seeding, and
\* to what was removed late.
LEMMA SeedStep == TypeOK /\ SeedInv /\ [Next]_vars => SeedInv'
<1> SUFFICES ASSUME TypeOK, SeedInv, [Next]_vars PROVE SeedInv'
    OBVIOUS
<1>0. /\ pc \in [Process -> Location] /\ left \in [Process -> SUBSET Entry]
      /\ marker \in BOOLEAN /\ together \in BOOLEAN
    BY DEF TypeOK
<1>a. Handled \subseteq Handled' /\ env' = env
    BY HandledStep
<1> DEFINE Kept == /\ SeedsAlone' /\ LateMarked' /\ SeedsAll'
                   /\ marker' => marker \/ \E p \in Process : pc[p] = "mark"
                   /\ together => together'
<1>b. ASSUME UNCHANGED <<marker, together, late>>,
             \A q \in Process : pc'[q] \in Seeding => pc'[q] = pc[q] /\ left'[q] = left[q]
      PROVE Kept
    <2>1. SeedsAlone' /\ LateMarked'
        BY <1>b DEF SeedInv, SeedsAlone, LateMarked
    <2>2. SeedsAll'
        BY <1>a, <1>b DEF SeedInv, SeedsAll, Seeding
    <2> QED BY <1>b, <2>1, <2>2
<1>c. ASSUME NEW p \in Process, pc' = [pc EXCEPT ![p] = "list"] \/ pc'= [pc EXCEPT ![p] = "down"],
             pc[p] = "mark", marker' = TRUE, UNCHANGED <<together, late>>,
             \A q \in Process : q # p => left'[q] = left[q]
      PROVE Kept
    <2>1. pc'[p] \notin Seeding /\ \A q \in Process : q # p => pc'[q] = pc[q]
        BY <1>0, <1>c DEF Seeding
    <2>2. SeedsAlone' /\ LateMarked'
        BY <1>c, <2>1 DEF SeedInv, SeedsAlone, LateMarked, Seeding
    <2>3. SeedsAll'
        BY <1>a, <1>c, <2>1 DEF SeedInv, SeedsAll
    <2> QED BY <1>c, <2>2, <2>3
<1>1. ASSUME NEW p \in Process, BootstrapApplied(p) PROVE Kept
    <2>1. CASE marker \/ env[p].seeds = {}
        <3>1. pc' = [pc EXCEPT ![p] = "list"] /\ UNCHANGED <<marker, left, late>>
              /\ together' = together
            BY <1>0, <1>1, <2>1 DEF BootstrapApplied, Joins, Goes, gone
        <3> QED BY <1>0, <1>b, <3>1 DEF Seeding
    <2>2. CASE ~marker /\ env[p].seeds # {}
        <3>1. /\ pc' = [pc EXCEPT ![p] = "user"] /\ UNCHANGED <<marker, left, late>>
              /\ together' = (together \/ \E q \in Process : pc[q] \in Seeding)
            BY <1>1, <2>2 DEF BootstrapApplied, Joins, Goes, gone
        <3>2. pc'[p] = "user" /\ \A q \in Process : q # p => pc'[q] = pc[q]
            BY <1>0, <3>1
        <3>3. SeedsAlone' /\ LateMarked'
            BY <2>2, <3>1, <3>2 DEF SeedInv, SeedsAlone, LateMarked
        <3>4. SeedsAll'
            BY <1>a, <2>2, <3>1, <3>2 DEF SeedInv, SeedsAll
        <3> QED BY <3>1, <3>3, <3>4
    <2> QED BY <2>1, <2>2
<1>2. ASSUME NEW p \in Process, SeedUser(p) \/ SeedSearch(p) \/ Seeded(p) PROVE Kept
    <2>1. /\ pc[p] \in Seeding /\ pc'[p] \in {"searches", "mark"}
          /\ \A q \in Process : q # p => pc'[q] = pc[q] /\ left'[q] = left[q]
          /\ UNCHANGED <<marker, together, late>>
        BY <1>0, <1>2 DEF SeedUser, SeedSearch, Seeded, Goes, Seeding, gone
    <2>2. SeedsAlone' /\ LateMarked'
        BY <2>1 DEF SeedInv, SeedsAlone, LateMarked
    <2>3. ASSUME pc'[p] = "searches", NEW s \in env[p].seeds \ left'[p]
          PROVE  s[1] \in Handled'
        <3>1. CASE SeedUser(p)
            BY <1>0, <2>3, <3>1 DEF SeedUser
        <3>2. CASE SeedSearch(p) /\ s \notin left[p]
            BY <1>a, <3>2 DEF SeedSearch, SeedInv, SeedsAll
        <3>3. CASE SeedSearch(p) /\ s \in left[p]
            <4>1. searches' = Inserted(s)
                BY <1>0, <2>3, <3>3 DEF SeedSearch
            <4> QED BY <4>1 DEF Inserted, Handled, Listed
        <3>4. CASE Seeded(p)
            BY <1>0, <2>3, <3>4 DEF Seeded, Goes
        <3> QED BY <1>2, <3>1, <3>2, <3>3, <3>4
    <2>4. ASSUME pc'[p] = "mark", NEW s \in env[p].seeds PROVE s[1] \in Handled'
        <3>1. Seeded(p)
            BY <1>0, <1>2, <2>4 DEF SeedUser, SeedSearch, Goes
        <3> QED BY <1>a, <3>1 DEF Seeded, SeedInv, SeedsAll
    <2>5. SeedsAll'
        BY <1>a, <2>1, <2>3, <2>4 DEF SeedInv, SeedsAll
    <2> QED BY <2>1, <2>2, <2>5
<1>3. ASSUME NEW p \in Process, MarkBootstrapApplied(p) PROVE Kept
    BY <1>3, <1>c DEF MarkBootstrapApplied, Goes, gone
<1>4. ASSUME NEW p \in Process, Boots(p) PROVE Kept
    <2>1. CASE Open(p) \/ Lock(p) \/ AppliedVersions(p) \/ Apply(p) \/ Migrated(p)
        BY <1>0, <1>b, <2>1 DEF Open, Lock, AppliedVersions, Apply, Migrated, Goes, Seeding,
                                gone
    <2>2. CASE SeedRefused(p) \/ ListActiveUsers(p) \/ Trained(p)
        BY <1>0, <1>b, <2>2 DEF SeedRefused, ListActiveUsers, Trained, Goes, Seeding, gone
    <2>3. CASE RetrainUser(p)
        BY <1>b, <2>3 DEF RetrainUser, bootVars, gone
    <2> QED BY <1>1, <1>2, <1>3, <1>4, <2>1, <2>2, <2>3 DEF Boots
<1>5. ASSUME NEW p \in Process, Start(p) \/ Shutdown(p) PROVE Kept
    BY <1>0, <1>b, <1>5 DEF Start, Shutdown, Goes, Seeding, gone
<1>6. ASSUME NEW p \in Process, LoadModel(p) \/ ModelFails(p) PROVE Kept
    BY <1>b, <1>6 DEF LoadModel, ModelFails, bootVars, gone
<1>7. ASSUME NEW p \in Process, Dies(p) PROVE Kept
    <2>1. /\ pc' = [pc EXCEPT ![p] = "down"] /\ UNCHANGED <<together, late>>
          /\ \A q \in Process : q # p => left'[q] = left[q]
        BY <1>0, <1>7 DEF Dies, Down, Goes, gone
    <2>2. CASE UNCHANGED marker
        BY <1>0, <1>b, <2>1, <2>2 DEF Seeding
    <2>3. CASE pc[p] = "mark" /\ marker' = TRUE
        BY <1>c, <2>1, <2>3
    <2> QED BY <1>7, <2>2, <2>3 DEF Dies, Lost
<1>8. ASSUME UNCHANGED <<pc, left, marker, together>>, late' \subseteq late \/ marker
      PROVE Kept
    <2>1. SeedsAlone' /\ LateMarked'
        BY <1>8 DEF SeedInv, SeedsAlone, LateMarked
    <2>2. SeedsAll'
        BY <1>a, <1>8 DEF SeedInv, SeedsAll
    <2> QED BY <1>8, <2>1, <2>2
<1> HIDE DEF Kept
<1>9. ASSUME NEW r \in Search, RemoveSearch(r) \/ AddSearch(r) PROVE Kept
    BY <1>8, <1>9 DEF RemoveSearch, AddSearch, Takes
<1>10. ASSUME EraseUser PROVE Kept
    BY <1>8, <1>10 DEF EraseUser, Takes
<1>11. ASSUME UserActs \/ UNCHANGED vars PROVE Kept
    BY <1>8, <1>11 DEF UserActs, bootVars, vars, gone
<1>12. Kept
    BY <1>4, <1>5, <1>6, <1>7, <1>9, <1>10, <1>11, BootAssumption DEF Next
<1> USE DEF Kept
<1>13. SeededOnce'
    <2>1. marker' => \E p \in Process :
                        env[p].seeds # {} /\ \A s \in env[p].seeds : s[1] \in Handled
        BY <1>12 DEF SeedInv, SeedsAll, SeededOnce, Seeding
    <2>2. ASSUME ~together' PROVE Listed' \cap late' = {}
        <3>1. CASE \A p \in Process : pc[p] # "searches"
            BY <1>12, <2>2, <3>1, HandledStep DEF SeedInv, SeededOnce
        <3>2. ASSUME NEW q \in Process, pc[q] = "searches" PROVE late' = {}
            <4>1. ~marker /\ \A p \in Process : pc[p] # "mark"
                BY <1>12, <2>2, <3>2 DEF SeedInv, SeedsAlone, Seeding
            <4> QED BY <1>12, <4>1 DEF LateMarked
        <3> QED BY <3>1, <3>2
    <2> QED BY <1>a, <2>1, <2>2 DEF SeededOnce
<1> QED
    BY <1>12, <1>13 DEF SeedInv

\* A marked database has every entry of some environment seeded, or under a
\* label of the user's own, and nothing removed since comes back by a seed
\* (seed.go:40-43), whenever processes die or are replaced, for any
\* environments and searches.
THEOREM SeedsOnce == Spec => []SeededOnce
<1>1. Init => SeedInv
    BY DEF Init, SeedInv, SeedsAlone, LateMarked, SeedsAll, SeededOnce, Seeding
<1>2. SeedInv => SeededOnce
    BY DEF SeedInv
<1> QED
    BY <1>1, <1>2, TypeCorrect, SeedStep, PTL DEF Spec
=============================================================================
