------------------------------ MODULE DailyStop ------------------------------
(***************************************************************************)
(* Module Daily with a history variable beside its state: the runs that    *)
(* were recorded, and not finished, when their user sent /stop.  It shows  *)
(* what becomes of them.                                                   *)
(***************************************************************************)
EXTENDS Daily

VARIABLE held   \* rows <<u, d>> that were unfinished at the /stop u is still under

stopVars == <<dailyVars, held>>

StopInit == DailyInit /\ held = {}

\* u is stopped by this step.
StopsNow(u) == state[u] = "ready" /\ state'[u] = "stopped"

StopNext ==
    /\ DailyNext
    /\ held' = {r \in User \X Day :
                    /\ state'[r[1]] = "stopped"
                    /\ r \in held \/ (StopsNow(r[1]) /\ Unfinished(r[1], r[2]))}

StopSpec == StopInit /\ [][StopNext]_stopVars

-----------------------------------------------------------------------------
\* What users.go:18-19 says of /stop: it "is a separate switch and also halts
\* delivery".  The list of runs a cycle is about to make, read while a user is
\* stopped, has none that was waiting when the user sent /stop.
StoppedUserNotRun ==
    [][phase = "ensure" /\ phase' = "next" => todo' \cap held = {}]_stopVars
=============================================================================
