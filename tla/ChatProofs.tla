----------------------------- MODULE ChatProofs -----------------------------
(***************************************************************************)
(* Theorems about module Chat, for any URLs and names, any cap, any number *)
(* of attempts and of crashes.                                             *)
(***************************************************************************)
EXTENDS Chat, FiniteSetTheorems, TLAPS

\* A text that is a label is no mark for "no label"; no message is NoMessage.
LEMMA LabelNotNone == None \notin Label /\ None \notin URL
BY ChatAssumption DEF Label

LEMMA MessageNotNone == NoMessage \notin Message
BY ChatAssumption, LabelNotNone DEF NoMessage, Message, Command

\* What every run of a handler does to the message at hand.
Handled ==
    /\ pc = "handle"
    /\ pc' \in {"handle", "advance"}
    /\ msg' = msg
    /\ tries' \in 0..MaxAttempts - 1
    /\ said' \subseteq Answer

LEMMA RunOver ==
    ASSUME TypeOK, pc = "handle", NEW answers \in SUBSET Answer,
           Ends(answers) \/ Fails(answers)
    PROVE  Handled /\ said' = answers
BY ChatAssumption DEF TypeOK, Ends, Fails, Handled

LEMMA RunReplies ==
    ASSUME TypeOK, pc = "handle", NEW r \in Answer, Reply(r)
    PROVE  Handled /\ said' = said \cup {r}
<1>1. said \cup {r} \in SUBSET Answer
    BY DEF TypeOK
<1> QED
    BY <1>1, RunOver DEF Reply

LEMMA RunFails ==
    ASSUME TypeOK, pc = "handle", Fails(said)
    PROVE  Handled /\ said' = said
<1>1. said \in SUBSET Answer
    BY DEF TypeOK
<1> QED
    BY <1>1, RunOver

-----------------------------------------------------------------------------
\* Types.

LEMMA TypeInit == Init => TypeOK
<1>1. 0 \in 0..MaxAttempts - 1 /\ 0 \in 0..MaxFaults
    BY ChatAssumption
<1>2. Init => label \in [URL -> Label \cup {None}]
    BY DEF Init
<1> QED
    BY <1>1, <1>2 DEF Init, TypeOK, State

\* A handler that writes no label, and knows the state it writes.
LEMMA HandledTypes ==
    ASSUME TypeOK, Handled, UNCHANGED <<claim, restarted, faults>>,
           lastRun' \in {"none", "recent", "old"},
           state' \in State, active' \in BOOLEAN, scratch' \in URL \cup {None},
           label' \in [URL -> Label \cup {None}],
           state' = "none" => label' = [x \in URL |-> None]
    PROVE  TypeOK'
BY DEF TypeOK, Handled

LEMMA TypeStep == TypeOK /\ [Next]_vars => TypeOK'
<1> SUFFICES ASSUME TypeOK, [Next]_vars PROVE TypeOK'
    OBVIOUS
<1>1. ASSUME NEW m \in Message, Receive(m) PROVE TypeOK'
    BY <1>1, MessageNotNone DEF TypeOK, Receive, rows
<1>2. CASE SetActive
    BY <1>2 DEF TypeOK, SetActive
<1>3. CASE Hour
    BY <1>3 DEF TypeOK, Hour, Aged, rows
<1>4. CASE Crash
    BY <1>4, ChatAssumption DEF TypeOK, Crash, rows
<1>5. CASE Advance
    BY <1>5, ChatAssumption DEF TypeOK, Advance, rows
<1>6. CASE UNCHANGED vars
    BY <1>6 DEF TypeOK, vars
<1>7. ASSUME NEW r \in Answer, pc = "handle", Reply(r), UNCHANGED <<rows, claim, lastRun>>,
             UNCHANGED <<restarted, faults>>
      PROVE  TypeOK'
    BY <1>7, RunReplies, HandledTypes DEF TypeOK, rows
<1>8. ASSUME NEW to \in State \ {"none"}, NEW url \in URL \cup {None}, NEW r \in Answer,
             pc = "handle", SetUserState(to, url), active' \in BOOLEAN, Reply(r),
             UNCHANGED <<label, claim, lastRun, restarted, faults>>
      PROVE  TypeOK'
    BY <1>8, RunReplies, HandledTypes DEF TypeOK, SetUserState
<1>9. active \in BOOLEAN /\ (EnsureUser => active' \in BOOLEAN)
    BY DEF TypeOK, EnsureUser
<1>10. CASE ReadFails
    BY <1>10, RunFails, HandledTypes DEF TypeOK, ReadFails, rows
<1>11. CASE StartOnboarding
    BY <1>8, <1>9, <1>11 DEF StartOnboarding, State, Answer
<1>12. CASE AddURL
    <2>1. CASE Count >= MaxSearches
        BY <1>9, <1>12, <2>1, RunReplies, HandledTypes DEF TypeOK, AddURL, Answer
    <2>2. CASE ~(Count >= MaxSearches)
        BY <1>8, <1>9, <1>12, <2>2 DEF AddURL, State, Answer
    <2> QED BY <2>1, <2>2
<1>13. CASE EnsuredOnly
    BY <1>9, <1>13, RunFails, HandledTypes DEF TypeOK, EnsuredOnly, SetUserState, State
<1>14. CASE Stranger \/ Guidance \/ BadName
    BY <1>7, <1>14 DEF Stranger, Guidance, BadName, Answer, rows
<1>15. ASSUME NEW x \in URL, BeginSearch(x) PROVE TypeOK'
    BY <1>8, <1>9, <1>15 DEF BeginSearch, State, Answer
<1>16. ASSUME NEW n \in Label, LimitReached(n) PROVE TypeOK'
    <2>1. CASE SetUserState("ready", None)
        BY <1>8, <1>9, <1>16, <2>1 DEF LimitReached, Completes, State, Answer
    <2>2. CASE UNCHANGED <<state, scratch>>
        BY <1>7, <1>16, <2>2 DEF LimitReached, Completes, rows, Answer
    <2> QED BY <1>16, <2>1, <2>2 DEF LimitReached
<1>17. ASSUME NEW n \in Label, LabelTaken(n) PROVE TypeOK'
    BY <1>7, <1>17 DEF LabelTaken, Completes, rows, Answer
<1>18. ASSUME NEW n \in Label, AddSearch(n)
       PROVE  label' \in [URL -> Label \cup {None}] /\ pc = "handle" /\ state = "await_label"
    BY <1>18 DEF TypeOK, AddSearch, Completes
<1>19. ASSUME NEW n \in Label, SearchAdded(n) PROVE TypeOK'
    BY <1>9, <1>18, <1>19, RunReplies, HandledTypes
    DEF TypeOK, SearchAdded, SetUserState, State, Answer
<1>20. ASSUME NEW n \in Label, SearchAddedOnly(n) PROVE TypeOK'
    BY <1>18, <1>20, RunFails, HandledTypes DEF TypeOK, SearchAddedOnly, State
<1>21. ASSUME NEW n \in Label, RemoveURL(n) PROVE TypeOK'
    <2>1. label' \in [URL -> Label \cup {None}]
        BY <1>21 DEF TypeOK, RemoveURL
    <2>2. state = "none" => label' = [x \in URL |-> None]
        BY <1>21 DEF TypeOK, RemoveURL
    <2>3. Handled
        BY <1>21, RunReplies DEF RemoveURL, Answer
    <2> QED BY <1>21, <2>1, <2>2, <2>3, HandledTypes DEF TypeOK, RemoveURL
<1>22. CASE Stop
    BY <1>22, RunReplies, HandledTypes DEF TypeOK, Stop, State, Answer
<1>23. CASE DeleteEverything
    BY <1>23, RunReplies, HandledTypes DEF TypeOK, DeleteEverything, SetUserState, State, Answer
<1>24. CASE SearchRefused \/ SearchTooSoon
    BY <1>7, <1>24 DEF SearchRefused, SearchTooSoon, Admitted, Refusal, rows, Answer
<1>25. CASE SearchStarts \/ SearchUnanswered
    <2>1. said \cup {"searching"} \in SUBSET Answer
        BY DEF TypeOK, Answer
    <2>2. Handled
        BY <1>25, <2>1, RunOver DEF SearchStarts, SearchUnanswered, Admitted
    <2> QED
        BY <1>25, <2>2 DEF TypeOK, Handled, SearchStarts, SearchUnanswered, Claim, rows
<1> QED
    BY <1>1, <1>2, <1>3, <1>4, <1>5, <1>6, <1>10, <1>11, <1>12, <1>13, <1>14, <1>15, <1>16,
       <1>17, <1>19, <1>20, <1>21, <1>22, <1>23, <1>24, <1>25 DEF Next, HandleMessage

\* The rows, the message at hand and the claims keep to their values.
THEOREM TypeCorrect == Spec => []TypeOK
BY TypeInit, TypeStep, PTL DEF Spec

-----------------------------------------------------------------------------
\* The cap.

Named == {x \in URL : label[x] # None}

LEMMA NamedFinite == IsFiniteSet(Named) /\ Count = Cardinality(Named) /\ Count \in Nat
<1>1. IsFiniteSet(URL) /\ Named \in SUBSET URL
    BY ChatAssumption DEF Named
<1>2. IsFiniteSet(Named)
    BY <1>1, FS_Subset
<1> QED
    BY <1>2, FS_CardinalityType DEF Count, Named

\* Four things can happen to the labels, each under a message of its own.
LEMMA LabelsMove ==
    ASSUME [Next]_vars
    PROVE  \/ UNCHANGED label
           \/ \E n \in Label : AddSearch(n)
           \/ \E n \in Label : msg = <<"/rmurl", n>>
                /\ label' = [x \in URL |-> IF label[x] = n THEN None ELSE label[x]]
           \/ msg = <<"command", "/borrardatos">> /\ label' = [x \in URL |-> None]
BY DEF Next, HandleMessage, vars, rows, Receive, SetActive, Hour, Crash, Advance, ReadFails,
       StartOnboarding, AddURL, EnsuredOnly, Stranger, Guidance, BadName, BeginSearch,
       LimitReached, LabelTaken, SearchAdded, SearchAddedOnly, RemoveURL, Stop,
       DeleteEverything, SearchRefused, SearchTooSoon, SearchStarts, SearchUnanswered

\* A search that had a label gets another one; a new one needs room.
LEMMA AddedCount ==
    ASSUME TypeOK, NEW n \in Label, AddSearch(n)
    PROVE  Count' = Count \/ (Count' = Count + 1 /\ Count < MaxSearches)
<1>1. scratch \in URL /\ n # None /\ label' = [label EXCEPT ![scratch] = n]
    BY LabelNotNone DEF TypeOK, AddSearch, Completes
<1>2. Named' = Named \cup {scratch}
    BY <1>1 DEF TypeOK, Named
<1>3. Count' = IF scratch \in Named THEN Count ELSE Count + 1
    BY <1>2, NamedFinite, FS_AddElement DEF Count, Named
<1>4. CASE scratch \in Named
    BY <1>3, <1>4
<1>5. CASE scratch \notin Named
    <2>1. label[scratch] = None
        BY <1>1, <1>5 DEF Named
    <2>2. Count < MaxSearches
        BY <2>1, NamedFinite, ChatAssumption DEF AddSearch, Full
    <2> QED BY <1>3, <1>5, <2>2
<1> QED
    BY <1>4, <1>5

LEMMA CapStep == TypeOK /\ CapHolds /\ [Next]_vars => CapHolds'
<1> SUFFICES ASSUME TypeOK, CapHolds, [Next]_vars PROVE CapHolds'
    OBVIOUS
<1>1. CASE UNCHANGED label
    BY <1>1 DEF CapHolds, Count
<1>2. ASSUME NEW n \in Label, AddSearch(n) PROVE CapHolds'
    BY <1>2, AddedCount, NamedFinite, ChatAssumption DEF CapHolds
<1>3. ASSUME Named' \subseteq Named PROVE CapHolds'
    <2>1. Cardinality(Named') <= Cardinality(Named)
        BY <1>3, NamedFinite, FS_Subset
    <2>2. Count' = Cardinality(Named')
        BY DEF Count, Named
    <2>3. Cardinality(Named') \in Nat
        BY <1>3, NamedFinite, FS_Subset, FS_CardinalityType
    <2> QED BY <2>1, <2>2, <2>3, NamedFinite, ChatAssumption DEF CapHolds
<1>4. ASSUME NEW n \in Label,
             label' = [x \in URL |-> IF label[x] = n THEN None ELSE label[x]]
      PROVE  Named' \subseteq Named
    BY <1>4 DEF Named
<1>5. ASSUME label' = [x \in URL |-> None] PROVE Named' \subseteq Named
    BY <1>5 DEF Named
<1> QED
    BY <1>1, <1>2, <1>3, <1>4, <1>5, LabelsMove

\* No sequence of messages, retries, replays and crashes gives a user more
\* searches than the cap (repo/onboarding.go:20-22), for any cap.
THEOREM Capped == Spec => []CapHolds
<1>1. Init => CapHolds
    <2>1. Init => Named = {}
        BY DEF Init, Named
    <2> QED BY <2>1, NamedFinite, FS_EmptySet, ChatAssumption DEF CapHolds
<1> QED
    BY <1>1, CapStep, TypeCorrect, PTL DEF Spec

-----------------------------------------------------------------------------
\* The answers.  Each of them belongs to messages of a kind, so that the rows it
\* speaks of are only touched by handlers of that very message.
KnowsMessage ==
    /\ "saved" \in said => msg[1] = "text"
    /\ "taken" \in said => msg[1] = "text"
    /\ "removed" \in said => msg[1] = "/rmurl"
    /\ "limit" \in said => msg[1] = "text" \/ msg = <<"command", "/addurl">>
    /\ "deleted" \in said => msg = <<"command", "/borrardatos">>

AnswersInv == AnswersTrue /\ KnowsMessage

\* The answers that say something of the rows.
Claims == {"saved", "taken", "removed", "limit", "deleted"}

\* A step that neither touches a label nor says anything of the rows.
LEMMA AnswersFrame ==
    ASSUME AnswersInv, UNCHANGED <<label, msg>>,
           said' \cap Claims \subseteq said,
           state' = "await_label" => scratch' # None,
           "deleted" \in said => state' = "none"
    PROVE  AnswersInv'
<1>1. Count' = Count
    BY DEF Count
<1> QED
    BY <1>1 DEF AnswersInv, AnswersTrue, KnowsMessage, Claims

LEMMA AnswersStep == TypeOK /\ CapHolds /\ AnswersInv /\ [Next]_vars => AnswersInv'
<1> SUFFICES ASSUME TypeOK, CapHolds, AnswersInv, [Next]_vars PROVE AnswersInv'
    OBVIOUS
<1>0. /\ state = "await_label" => scratch # None
      /\ "deleted" \in said => state = "none" /\ msg = <<"command", "/borrardatos">>
    BY DEF AnswersInv, AnswersTrue, KnowsMessage
<1>1. ASSUME said' = {}, UNCHANGED <<state, scratch>> PROVE AnswersInv'
    BY <1>0, <1>1 DEF AnswersInv, AnswersTrue, KnowsMessage
<1>2. CASE (\E m \in Message : Receive(m)) \/ Advance
    BY <1>1, <1>2 DEF TypeOK, Receive, Advance, rows
<1>3. CASE SetActive \/ Hour \/ Crash \/ UNCHANGED vars
    BY <1>0, <1>3, AnswersFrame DEF SetActive, Hour, Crash, vars, rows
<1>4. ASSUME UNCHANGED <<state, scratch, label>>, Handled, said' \cap Claims \subseteq said
      PROVE  AnswersInv'
    BY <1>0, <1>4, AnswersFrame DEF Handled
<1>5. CASE ReadFails
    BY <1>4, <1>5, RunFails DEF ReadFails, rows
<1>6. ASSUME NEW r \in Answer \ Claims, pc = "handle", Reply(r), UNCHANGED label,
             state' = "await_label" => scratch' # None,
             "deleted" \in said => state' = "none"
      PROVE  AnswersInv'
    BY <1>6, RunReplies, AnswersFrame DEF Handled
<1>7. CASE StartOnboarding
    BY <1>0, <1>6, <1>7 DEF StartOnboarding, SetUserState, Answer, Claims
<1>8. CASE AddURL
    <2>1. CASE Count >= MaxSearches
        <3>1. Handled /\ said' = said \cup {"limit"}
            BY <1>8, <2>1, RunReplies DEF AddURL, Answer
        <3>2. Count' = MaxSearches /\ UNCHANGED <<state, scratch, label>>
            BY <1>8, <2>1, NamedFinite, ChatAssumption DEF AddURL, CapHolds, Count
        <3> QED
            BY <1>8, <3>1, <3>2 DEF AddURL, AnswersInv, AnswersTrue, KnowsMessage, Handled
    <2>2. CASE ~(Count >= MaxSearches)
        BY <1>0, <1>6, <1>8, <2>2 DEF AddURL, SetUserState, Answer, Claims
    <2> QED BY <2>1, <2>2
<1>9. CASE EnsuredOnly
    BY <1>0, <1>9, RunFails, AnswersFrame DEF EnsuredOnly, SetUserState, Handled
<1>10. CASE Stranger \/ Guidance \/ BadName
    BY <1>0, <1>6, <1>10 DEF Stranger, Guidance, BadName, rows, Answer, Claims
<1>11. ASSUME NEW x \in URL, BeginSearch(x) PROVE AnswersInv'
    BY <1>0, <1>6, <1>11, LabelNotNone DEF BeginSearch, SetUserState, Answer, Claims
<1>12. ASSUME NEW n \in Label, LimitReached(n) PROVE AnswersInv'
    <2>1. Handled /\ said' = said \cup {"limit"}
        BY <1>12, RunReplies DEF LimitReached, Completes, Answer
    <2>2. Count' = MaxSearches /\ UNCHANGED label
        BY <1>12, NamedFinite, ChatAssumption DEF LimitReached, Full, CapHolds, Count
    <2>3. state' = "await_label" => scratch' # None
        BY <1>0, <1>12 DEF LimitReached, SetUserState
    <2> QED
        BY <1>0, <1>12, <2>1, <2>2, <2>3
        DEF LimitReached, Completes, AnswersInv, AnswersTrue, KnowsMessage, Handled
<1>13. ASSUME NEW n \in Label, LabelTaken(n) PROVE AnswersInv'
    <2>1. Handled /\ said' = said \cup {"taken"}
        BY <1>13, RunReplies DEF LabelTaken, Completes, Answer
    <2>2. UNCHANGED <<state, scratch, label>> /\ Count' = Count
        BY <1>13 DEF LabelTaken, rows, Count
    <2>3. \E x \in URL : label[x] = n
        BY <1>13 DEF LabelTaken, Taken
    <2> QED
        BY <1>13, <2>1, <2>2, <2>3
        DEF LabelTaken, Completes, AnswersInv, AnswersTrue, KnowsMessage, Handled
\* The label of the message is there afterwards, and no message that was told
\* "limit" finds room.
<1>14. ASSUME NEW n \in Label, AddSearch(n), Handled,
              said' \cap Claims \subseteq said \cup {"saved"},
              state' = "await_label" => scratch' # None
       PROVE  AnswersInv'
    <2>1. scratch \in URL /\ label'[scratch] = n /\ msg' = <<"text", n>> /\ msg = <<"text", n>>
        BY <1>14 DEF TypeOK, AddSearch, Completes, Handled
    <2>2. \E x \in URL : label'[x] = msg'[2]
        BY <2>1
    <2>3. "limit" \in said => Count' = MaxSearches
        BY <1>14, AddedCount, NamedFinite, ChatAssumption DEF AnswersInv, AnswersTrue
    <2>4. "removed" \notin said' /\ "deleted" \notin said'
        BY <1>14, <2>1 DEF AnswersInv, KnowsMessage, Claims
    <2> QED
        BY <1>14, <2>1, <2>2, <2>3, <2>4 DEF AnswersInv, AnswersTrue, KnowsMessage, Claims
<1>15. ASSUME NEW n \in Label, SearchAdded(n) PROVE AnswersInv'
    BY <1>14, <1>15, RunReplies
    DEF SearchAdded, AddSearch, Completes, SetUserState, Answer, Claims
<1>16. ASSUME NEW n \in Label, SearchAddedOnly(n) PROVE AnswersInv'
    BY <1>0, <1>14, <1>16, RunFails DEF SearchAddedOnly, AddSearch, Completes
<1>17. ASSUME NEW n \in Label, RemoveURL(n) PROVE AnswersInv'
    <2>1. \A x \in URL : label'[x] # n
        BY <1>17, LabelNotNone DEF RemoveURL
    <2>2. Handled /\ said' \cap Claims \subseteq said \cup {"removed"}
        BY <1>17, RunReplies DEF RemoveURL, Answer, Claims
    <2>3. msg = <<"/rmurl", n>> /\ msg' = msg /\ UNCHANGED <<state, scratch>>
        BY <1>17, <2>2 DEF RemoveURL, Handled
    <2>4. said' \cap Claims \subseteq {"removed"}
        BY <2>2, <2>3 DEF AnswersInv, KnowsMessage, Claims
    <2> QED
        BY <1>0, <2>1, <2>3, <2>4 DEF AnswersInv, AnswersTrue, KnowsMessage, Claims
<1>18. CASE Stop
    BY <1>0, <1>6, <1>18 DEF Stop, Answer, Claims
<1>19. CASE DeleteEverything
    <2>1. Handled /\ said' = said \cup {"deleted"}
        BY <1>19, RunReplies DEF DeleteEverything, Answer
    <2>2. msg = <<"command", "/borrardatos">> /\ msg' = msg /\ state' = "none"
        BY <1>19, <2>1 DEF DeleteEverything, SetUserState, Handled
    <2>3. said' \cap Claims \subseteq {"deleted"}
        BY <2>1, <2>2 DEF AnswersInv, KnowsMessage, Claims
    <2> QED
        BY <2>2, <2>3 DEF AnswersInv, AnswersTrue, KnowsMessage, Claims
<1>20. CASE SearchRefused \/ SearchTooSoon
    BY <1>0, <1>6, <1>20
    DEF SearchRefused, SearchTooSoon, Admitted, Refusal, rows, Answer, Claims
<1>21. CASE SearchStarts \/ SearchUnanswered
    <2>1. said \cup {"searching"} \in SUBSET Answer
        BY DEF TypeOK, Answer
    <2>2. Handled /\ said' = said \cup {"searching"}
        BY <1>21, <2>1, RunOver DEF SearchStarts, SearchUnanswered, Admitted
    <2> QED
        BY <1>4, <1>21, <2>2 DEF SearchStarts, SearchUnanswered, rows, Claims
<1> QED
    BY <1>2, <1>3, <1>5, <1>7, <1>8, <1>9, <1>10, <1>11, <1>12, <1>13, <1>15, <1>16,
       <1>17, <1>18, <1>19, <1>20, <1>21 DEF Next, HandleMessage

\* What a message was answered is so, whichever of its handler's runs said it and
\* wherever they failed (chat/onboarding.go:133-161, 239-271).
THEOREM AnswersHold == Spec => []AnswersTrue
<1>1. Init => AnswersInv
    BY DEF Init, AnswersInv, AnswersTrue, KnowsMessage
<1>2. AnswersInv => AnswersTrue
    BY DEF AnswersInv
<1> QED
    BY <1>1, <1>2, AnswersStep, CapStep, TypeCorrect, Capped, PTL DEF Spec

-----------------------------------------------------------------------------
\* The claims.  Within the hour of a run its claim is there, if it was not lost
\* with the process.
ClaimKept == lastRun = "recent" /\ ~restarted => claim = "recent"

LEMMA ClaimStep == ClaimKept /\ [Next]_vars => ClaimKept'
BY DEF ClaimKept, Next, HandleMessage, vars, rows, Receive, SetActive, Hour, Aged, Crash,
       Advance, ReadFails, StartOnboarding, AddURL, EnsuredOnly, Stranger, Guidance, BadName,
       BeginSearch, LimitReached, LabelTaken, SearchAdded, SearchAddedOnly, RemoveURL, Stop,
       DeleteEverything, SearchRefused, SearchTooSoon, SearchStarts, SearchUnanswered, Claim

\* /buscar runs once an hour, however often the message comes again, unless the
\* bot is started in between (search.go:14-16).
THEOREM Spaced == Spec => RunsSpaced
<1>1. Init => ClaimKept
    BY DEF Init, ClaimKept
<1>2. ClaimKept => [SearchStarts => lastRun # "recent" \/ restarted]_vars
    BY DEF ClaimKept, SearchStarts
<1> QED
    BY <1>1, <1>2, ClaimStep, PTL DEF Spec, RunsSpaced
=============================================================================
