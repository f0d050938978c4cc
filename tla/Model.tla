-------------------------------- MODULE Model --------------------------------
(***************************************************************************)
(* A user's preference model in the database: Retrain and Load of          *)
(* src/internal/score/retrain.go over TrainingSamples, ModelVersion,       *)
(* ReplaceWeights and ActiveWeights of src/internal/repo/weights.go.       *)
(*                                                                         *)
(* A training reads the ratings, then the version, and replaces the        *)
(* generation in one transaction.  A load reads the version and then its   *)
(* rows.  Each process does one of the two at a time, and several          *)
(* processes may share the database: the instance that is being replaced   *)
(* and the one that replaces it.                                           *)
(*                                                                         *)
(* One user; a bucket's ups and downs are one count.  No delivery refers   *)
(* to a generation, because nothing writes deliveries.model_version, so    *)
(* the pruning spares none but the new one.                                *)
(***************************************************************************)
EXTENDS Naturals

CONSTANTS
    Process,
    Bucket,       \* feature values
    MaxRatings,   \* bound: ratings by bucket
    MaxVersion    \* bound: generations

ASSUME ModelAssumption == MaxRatings \in Nat /\ MaxVersion \in Nat

VARIABLES
    user,      \* the row of users is there
    ratings,   \* ratings[b]: rated deliveries of the user that fall into b
    version,   \* users.active_model_version
    rows,      \* rows[v][b]: the count in generation v; 0 for no row
    at,        \* where each process is in a training or a load
    held,      \* what it has read: a version and counts
    whole,     \* history: the counts the active generation was trained to
    crossed    \* history: two trainings were under way at once

modelVars == <<user, ratings, version, rows, at, held, whole, crossed>>

\* "samples" read, "version" read: a training.  "rows" to be read: a load.
Phase == {"idle", "samples", "replace", "rows"}

Counts  == [Bucket -> 0..MaxRatings]
Nothing == [b \in Bucket |-> 0]
Version == 1..MaxVersion

ModelTypeOK ==
    /\ user \in BOOLEAN
    /\ ratings \in Counts
    /\ version \in 0..MaxVersion
    /\ rows \in [Version -> Counts]
    /\ at \in [Process -> Phase]
    /\ held \in [Process -> [version : 0..MaxVersion, counts : Counts]]
    /\ whole \in Counts
    /\ crossed \in BOOLEAN

ModelInit ==
    /\ user = FALSE
    /\ ratings = Nothing
    /\ version = 0
    /\ rows = [v \in Version |-> Nothing]
    /\ at = [p \in Process |-> "idle"]
    /\ held = [p \in Process |-> [version |-> 0, counts |-> Nothing]]
    /\ whole = Nothing
    /\ crossed = FALSE

-----------------------------------------------------------------------------
Training(p) == at[p] \in {"samples", "replace"}

\* p is done, or gives up, and forgets what it read.
Ends(p) ==
    /\ at' = [at EXCEPT ![p] = "idle"]
    /\ held' = [held EXCEPT ![p] = [version |-> 0, counts |-> Nothing]]

(* Retrain.                                                                *)

TrainingSamples(p) ==
    /\ at[p] = "idle"
    /\ at' = [at EXCEPT ![p] = "samples"]
    /\ held' = [held EXCEPT ![p].counts = ratings]
    /\ crossed' = (crossed \/ \E q \in Process \ {p} : Training(q))
    /\ UNCHANGED <<user, ratings, version, rows, whole>>

\* The row of the user may be gone, and the training with it.
ModelVersion(p) ==
    /\ at[p] = "samples"
    /\ version < MaxVersion
    /\ IF user
       THEN /\ at' = [at EXCEPT ![p] = "replace"]
            /\ held' = [held EXCEPT ![p].version = version + 1]
       ELSE Ends(p)
    /\ UNCHANGED <<user, ratings, version, rows, whole, crossed>>

\* The new rows are inserted over what rows there are of their version, the
\* user is switched to it, and every other generation is pruned.
Commits(p) ==
    LET new == held[p].version
    IN  /\ rows' = [v \in Version |->
                      [b \in Bucket |->
                         IF v # new THEN 0
                         ELSE IF held[p].counts[b] > 0 THEN held[p].counts[b]
                         ELSE rows[v][b]]]
        /\ version' = new
        /\ whole' = held[p].counts

\* Without the user's row, the rows violate their foreign key; without rows,
\* the statements touch nothing.
ReplaceWeights(p) ==
    /\ at[p] = "replace"
    /\ IF user THEN Commits(p) ELSE UNCHANGED <<rows, version, whole>>
    /\ Ends(p)
    /\ UNCHANGED <<user, ratings, crossed>>

\* Faulty: the switch is outside the transaction, and stays when it fails.
StatementFailsSwitched(p) ==
    /\ at[p] # "idle"
    /\ IF at[p] = "replace" /\ user
       THEN version' = held[p].version /\ UNCHANGED <<rows, whole>>
       ELSE UNCHANGED <<rows, version, whole>>
    /\ Ends(p)
    /\ UNCHANGED <<user, ratings, crossed>>

\* A statement of a training or a load fails, or the process dies.  A commit
\* may have gone through.
StatementFails(p) ==
    /\ at[p] # "idle"
    /\ \/ UNCHANGED <<rows, version, whole>>
       \/ at[p] = "replace" /\ user /\ Commits(p)
    /\ Ends(p)
    /\ UNCHANGED <<user, ratings, crossed>>

-----------------------------------------------------------------------------
(* Load.                                                                   *)

\* Version 0, or no user: nothing more to read.
ActiveVersion(p) ==
    /\ at[p] = "idle"
    /\ version > 0
    /\ at' = [at EXCEPT ![p] = "rows"]
    /\ held' = [held EXCEPT ![p].version = version]
    /\ UNCHANGED <<user, ratings, version, rows, whole, crossed>>

ActiveRows(p) ==
    /\ at[p] = "rows"
    /\ Ends(p)
    /\ UNCHANGED <<user, ratings, version, rows, whole, crossed>>

-----------------------------------------------------------------------------
(* The user's rows, which belong to other components.                      *)

Rate(b) ==
    /\ user
    /\ ratings[b] < MaxRatings
    /\ ratings' = [ratings EXCEPT ![b] = @ + 1]
    /\ UNCHANGED <<user, version, rows, at, held, whole, crossed>>

Register ==
    /\ ~user
    /\ user' = TRUE
    /\ UNCHANGED <<ratings, version, rows, at, held, whole, crossed>>

\* Ratings and weights go with the user's row.
Erase ==
    /\ user
    /\ user' = FALSE
    /\ ratings' = Nothing
    /\ version' = 0
    /\ rows' = [v \in Version |-> Nothing]
    /\ whole' = Nothing
    /\ UNCHANGED <<at, held, crossed>>

-----------------------------------------------------------------------------
Retrain(p) == TrainingSamples(p) \/ ModelVersion(p) \/ ReplaceWeights(p)

Load(p) == ActiveVersion(p) \/ ActiveRows(p)

ModelNext ==
    \/ \E p \in Process : Retrain(p) \/ Load(p) \/ StatementFails(p)
    \/ \E b \in Bucket : Rate(b)
    \/ Register \/ Erase

ModelSpec == ModelInit /\ [][ModelNext]_modelVars

-----------------------------------------------------------------------------
\* Whatever failed, was erased or trained since it read the version, a load gets
\* the rows of one training, all of them, or none if that generation is gone
\* (weights.go:71-73, :116-146); provided no two trainings ever crossed, which
\* may write the same version over one another.
LoadsWhole ==
    ~crossed =>
        \A p \in Process : at[p] = "rows" =>
            LET v == held[p].version
            IN  rows[v] = IF v = version THEN whole ELSE Nothing
=============================================================================
