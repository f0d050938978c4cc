----------------------------- MODULE RatingProofs -----------------------------
(***************************************************************************)
(* Theorems about module Rating, for any users, listings, taps, attempts   *)
(* and crashes.                                                            *)
(***************************************************************************)
EXTENDS Rating, TLAPS

\* TypeOK in the parts that its proof takes one by one.
TableTyped ==
    /\ delivery \in [User -> [Listing -> {"none", "baseline", "sent", "rated"}]]
    /\ late \in [User -> [Listing -> BOOLEAN]]
    /\ rating \in [User -> [Listing -> Label \cup {"none"}]]

CardTyped ==
    /\ showing \subseteq User \X Listing
    /\ buttons \in [User -> [Listing -> {"none", "on", "off"}]]
    /\ note \in [User -> [Listing -> Label \cup {"none"}]]

HandlerTyped ==
    /\ taps \in Seq(Tap)
    /\ made \in 0..MaxTaps
    /\ pc \in Location
    /\ reply \in Reply
    /\ tries \in 0..MaxAttempts
    /\ pc # "idle" => taps # <<>>
    /\ pc \in {"record", "note"} => reply = "saved"
    /\ pc # "advance" => tries < MaxAttempts

LikesTyped ==
    /\ jobs \subseteq Job
    /\ contact \in [Listing -> {"none", "empty", "phone"}]
    /\ told \in [User -> [Listing -> SUBSET Label]]
    /\ spawned \in [User -> [Listing -> Nat]]
    /\ stumbled \subseteq User \X Listing
    /\ faults \in 0..MaxFaults

LEMMA TypeParts == TypeOK <=> TableTyped /\ CardTyped /\ HandlerTyped /\ LikesTyped
BY DEF TypeOK, TableTyped, CardTyped, HandlerTyped, LikesTyped

LEMMA TypeInit == Init => TypeOK
<1> SUFFICES ASSUME Init PROVE TypeOK
    OBVIOUS
<1>0. MaxAttempts \in Nat \ {0} /\ MaxTaps \in Nat /\ MaxFaults \in Nat
    BY RatingAssumption
<1>1. TableTyped
    BY DEF TableTyped, Init, PerCard
<1>2. CardTyped
    BY DEF CardTyped, Init, PerCard
<1>3. HandlerTyped
    BY <1>0 DEF HandlerTyped, Init, Location, Reply
<1>4. LikesTyped
    BY <1>0 DEF LikesTyped, Init, PerCard
<1> QED
    BY <1>1, <1>2, <1>3, <1>4, TypeParts

\* The tap at the head, while its handler runs or may run.
LEMMA HeadTyped ==
    ASSUME HandlerTyped, taps # <<>>
    PROVE  TapUser \in User /\ TapListing \in Listing /\ TapLabel \in Label
<1>1. Head(taps) \in Tap
    BY DEF HandlerTyped
<1> QED
    BY <1>1 DEF Tap, TapUser, TapListing, TapLabel

LEMMA HandlerStep == TypeOK /\ [Next]_vars => HandlerTyped'
<1> SUFFICES ASSUME HandlerTyped, [Next]_vars PROVE HandlerTyped'
    BY TypeParts
<1>0. MaxAttempts \in Nat \ {0} /\ MaxTaps \in Nat
    BY RatingAssumption
<1> USE <1>0 DEF HandlerTyped, Location, Reply, handler, past
<1>1. ASSUME NEW u \in User, NEW l \in Listing,
             Show(u, l) \/ MarkDelivered(u, l) \/ MarkFails(u, l) \/ Baseline(u, l) \/ Age(u, l)
      PROVE  HandlerTyped'
    BY <1>1 DEF Show, MarkDelivered, MarkFails, Baseline, Age
<1>2. ASSUME NEW u \in User, NEW l \in Listing, NEW x \in Label, Press(u, l, x)
      PROVE  HandlerTyped'
    <2>1. [user |-> u, listing |-> l, label |-> x] \in Tap
        BY DEF Tap
    <2>2. taps' \in Seq(Tap) /\ taps' # <<>>
        BY <1>2, <2>1 DEF Press
    <2> QED BY <1>2, <2>2 DEF Press
<1>3. ASSUME NEW u \in User, DeleteUser(u) PROVE HandlerTyped'
    BY <1>3 DEF DeleteUser
<1>4. CASE ReadState
    BY <1>4 DEF ReadState, Verdict
<1>5. CASE StateFails \/ AnswerFails \/ RecordFails \/ ClearFails
    <2>1. Fail /\ taps # <<>> /\ pc # "advance"
        BY <1>5 DEF StateFails, AnswerFails, RecordFails, ClearFails
    <2>2. tries' = tries + 1 /\ tries \in Nat /\ tries < MaxAttempts
        BY <2>1 DEF Fail
    <2> QED BY <2>1, <2>2 DEF Fail
<1>6. CASE Answer
    <2>1. pc' \in {"record", "clear", "advance"} /\ (pc' = "record" => reply = "saved")
        BY <1>6 DEF Answer
    <2> QED BY <1>6, <2>1 DEF Answer
<1>7. CASE Record \/ Confirm \/ ClearKeyboard
    BY <1>7 DEF Record, Confirm, ClearKeyboard
<1>8. CASE Advance
    BY <1>8 DEF Advance
<1>9. CASE OnLike
    BY <1>9 DEF OnLike, LookUp, PageRead, LikeEnds
<1>10. CASE \E l \in Listing : Expire(l)
    BY <1>10 DEF Expire
<1>11. CASE Crash
    BY <1>11 DEF Crash
<1>12. CASE UNCHANGED vars
    BY <1>12 DEF vars
<1> QED
    BY <1>1, <1>2, <1>3, <1>4, <1>5, <1>6, <1>7, <1>8, <1>9, <1>10, <1>11, <1>12
       DEF Next, HandleCallback

\* One entry of a table of users and listings is replaced, or none.
LEMMA Nested ==
    ASSUME NEW S, NEW f, NEW g, NEW a \in User, NEW b \in Listing, NEW v,
           f \in [User -> [Listing -> S]], v \in S,
           g = f \/ g = [f EXCEPT ![a][b] = v]
    PROVE  g \in [User -> [Listing -> S]]
OBVIOUS

LEMMA TableStep == TypeOK /\ [Next]_vars => TableTyped' /\ CardTyped'
<1> SUFFICES ASSUME TableTyped, CardTyped, HandlerTyped, [Next]_vars
             PROVE  TableTyped' /\ CardTyped'
    BY TypeParts
<1> USE DEF TableTyped, CardTyped, row, card, past
<1>0. taps # <<>> => TapUser \in User /\ TapListing \in Listing /\ TapLabel \in Label
    BY HeadTyped
<1>1. ASSUME NEW u \in User, NEW l \in Listing,
             Show(u, l) \/ MarkDelivered(u, l) \/ MarkFails(u, l) \/ Baseline(u, l) \/ Age(u, l)
      PROVE  TableTyped' /\ CardTyped'
    <2>1. CASE Show(u, l)
        <3>1. buttons' \in [User -> [Listing -> {"none", "on", "off"}]]
            BY <2>1, Nested DEF Show
        <3> QED BY <2>1, <3>1 DEF Show
    <2>2. CASE MarkDelivered(u, l)
        BY <2>2 DEF MarkDelivered
    <2>3. CASE Baseline(u, l)
        <3>1. delivery' \in [User -> [Listing -> {"none", "baseline", "sent", "rated"}]]
            BY <2>3 DEF Baseline
        <3>2. late' \in [User -> [Listing -> BOOLEAN]]
            BY <2>3 DEF Baseline
        <3> QED BY <2>3, <3>1, <3>2 DEF Baseline
    <2>5. CASE Age(u, l)
        <3>1. late' \in [User -> [Listing -> BOOLEAN]]
            BY <2>5 DEF Age
        <3> QED BY <2>5, <3>1 DEF Age
    <2>4. CASE MarkFails(u, l)
        BY <2>4 DEF MarkFails
    <2> QED BY <1>1, <2>1, <2>2, <2>3, <2>4, <2>5
<1>2. ASSUME NEW u \in User, NEW l \in Listing, NEW x \in Label, Press(u, l, x)
      PROVE  TableTyped' /\ CardTyped'
    BY <1>2 DEF Press
<1>3. ASSUME NEW u \in User, DeleteUser(u) PROVE TableTyped' /\ CardTyped'
    BY <1>3 DEF DeleteUser
<1>4. CASE ReadState \/ StateFails \/ Answer \/ AnswerFails \/ Advance
    BY <1>4 DEF ReadState, StateFails, Answer, AnswerFails, Advance
<1>5. CASE Record \/ RecordFails
    <2>1. taps # <<>>
        BY <1>5 DEF Record, RecordFails, HandlerTyped
    <2>2. CASE RecordRating
        <3>1. rating' \in [User -> [Listing -> Label \cup {"none"}]]
            BY <1>0, <2>1, <2>2, Nested DEF RecordRating
        <3>2. delivery' \in [User -> [Listing -> {"none", "baseline", "sent", "rated"}]]
            BY <1>0, <2>1, <2>2, Nested DEF RecordRating
        <3> QED BY <1>5, <2>2, <3>1, <3>2 DEF Record, RecordFails, RecordRating
    <2>3. CASE ~RecordRating
        BY <1>5, <2>3 DEF Record, RecordFails
    <2> QED BY <2>2, <2>3
<1>6. CASE Confirm \/ ClearKeyboard \/ ClearFails
    <2>1. taps # <<>>
        BY <1>6 DEF Confirm, ClearKeyboard, ClearFails, HandlerTyped
    <2>2. note' \in [User -> [Listing -> Label \cup {"none"}]]
        <3>1. note' = note \/ note' = [note EXCEPT ![TapUser][TapListing] = TapLabel]
            BY <1>6 DEF Confirm, ClearKeyboard, ClearFails
        <3>2. /\ note \in [User -> [Listing -> Label \cup {"none"}]]
              /\ TapUser \in User /\ TapListing \in Listing
              /\ TapLabel \in Label \cup {"none"}
            BY <1>0, <2>1
        <3> QED BY <3>1, <3>2, Nested, Zenon
    <2>3. buttons' \in [User -> [Listing -> {"none", "on", "off"}]]
        <3>1. buttons' = buttons \/ buttons' = [buttons EXCEPT ![TapUser][TapListing] = "off"]
            BY <1>6 DEF Confirm, ClearKeyboard, ClearFails, Revoked
        <3>2. /\ buttons \in [User -> [Listing -> {"none", "on", "off"}]]
              /\ TapUser \in User /\ TapListing \in Listing /\ "off" \in {"none", "on", "off"}
            BY <1>0, <2>1
        <3> QED BY <3>1, <3>2, Nested, Zenon
    <2>4. UNCHANGED <<row, showing>>
        BY <1>6 DEF Confirm, ClearKeyboard, ClearFails
    <2> QED BY <2>2, <2>3, <2>4
<1>7. CASE OnLike
    BY <1>7 DEF OnLike, LookUp, PageRead, LikeEnds
<1>8. CASE (\E l \in Listing : Expire(l)) \/ Crash
    BY <1>8 DEF Expire, Crash
<1>9. CASE UNCHANGED vars
    BY <1>9 DEF vars
<1> QED
    BY <1>1, <1>2, <1>3, <1>4, <1>5, <1>6, <1>7, <1>8, <1>9 DEF Next, HandleCallback

LEMMA LikesStep == TypeOK /\ [Next]_vars => LikesTyped'
<1> SUFFICES ASSUME LikesTyped, HandlerTyped, [Next]_vars PROVE LikesTyped'
    BY TypeParts
<1> USE RatingAssumption DEF LikesTyped, likes, past
<1>0. taps # <<>> => TapUser \in User /\ TapListing \in Listing /\ TapLabel \in Label
    BY HeadTyped
<1>1. ASSUME NEW u \in User, NEW l \in Listing,
             \/ Show(u, l) \/ MarkDelivered(u, l) \/ MarkFails(u, l) \/ Baseline(u, l)
             \/ Age(u, l) \/ \E x \in Label : Press(u, l, x)
      PROVE  LikesTyped'
    BY <1>1 DEF Show, MarkDelivered, MarkFails, Baseline, Age, Press
<1>2. ASSUME NEW u \in User, DeleteUser(u) PROVE LikesTyped'
    BY <1>2 DEF DeleteUser
<1>3. CASE ReadState \/ StateFails \/ Record \/ Confirm \/ Advance
    BY <1>3 DEF ReadState, StateFails, Fail, Record, Confirm, Advance
<1>4. CASE Answer \/ AnswerFails
    <2>1. taps # <<>>
        BY <1>4 DEF Answer, AnswerFails, HandlerTyped
    <2>2. Toast \in [User -> [Listing -> SUBSET Label]]
        <3>1. told[TapUser][TapListing] \cup {TapLabel} \in SUBSET Label
            BY <1>0, <2>1
        <3>2. \E v \in SUBSET Label :
                  Toast = told \/ Toast = [told EXCEPT ![TapUser][TapListing] = v]
            BY <3>1 DEF Toast
        <3>3. /\ told \in [User -> [Listing -> SUBSET Label]]
              /\ TapUser \in User /\ TapListing \in Listing
            BY <1>0, <2>1
        <3> QED BY <3>1, <3>2, <3>3, Nested, Zenon
    <2> QED BY <1>4, <2>2 DEF Answer, AnswerFails, Fail
<1>5. CASE RecordFails \/ ClearFails
    <2>1. taps # <<>>
        BY <1>5 DEF RecordFails, ClearFails, HandlerTyped
    <2> QED BY <1>0, <1>5, <2>1 DEF RecordFails, ClearFails, Fail, Stumbles
<1>6. CASE ClearKeyboard
    <2>1. taps # <<>>
        BY <1>6 DEF ClearKeyboard, HandlerTyped
    <2>2. [user |-> TapUser, listing |-> TapListing, at |-> "look"] \in Job
        BY <1>0, <2>1 DEF Job
    <2>3. jobs' \subseteq Job
        BY <1>0, <1>6, <2>1, <2>2 DEF ClearKeyboard
    <2>4. spawned[TapUser][TapListing] + 1 \in Nat
        BY <1>0, <2>1
    <2>5. spawned' \in [User -> [Listing -> Nat]]
        <3>1. \E v \in Nat :
                  spawned' = spawned \/ spawned' = [spawned EXCEPT ![TapUser][TapListing] = v]
            BY <1>6, <2>4 DEF ClearKeyboard
        <3>2. /\ spawned \in [User -> [Listing -> Nat]]
              /\ TapUser \in User /\ TapListing \in Listing
            BY <1>0, <2>1
        <3> QED BY <3>1, <3>2, Nested, Zenon
    <2> QED BY <1>6, <2>3, <2>5 DEF ClearKeyboard
<1>7. CASE OnLike
    <2>1. PICK j \in jobs : \/ LookUp(j)
                            \/ \E found \in {"empty", "phone"} : PageRead(j, found)
                            \/ LikeEnds(j)
        BY <1>7 DEF OnLike
    <2>2. j \in Job
        BY <2>1
    <2>3. [j EXCEPT !.at = "fetch"] \in Job /\ [j EXCEPT !.at = "send"] \in Job
        BY <2>2 DEF Job
    <2>4. jobs' \subseteq Job
        <3>1. jobs' = jobs \ {j} \/ \E to \in {"fetch", "send"} :
                  jobs' = (jobs \ {j}) \cup {[j EXCEPT !.at = to]}
            <4>1. contact[j.listing] \in {"none", "empty", "phone"}
                BY <2>2 DEF Job
            <4> QED BY <2>1, <4>1 DEF LookUp, PageRead, LikeEnds, Gone, Goes
        <3> QED BY <2>3, <3>1
    <2>5. contact' \in [Listing -> {"none", "empty", "phone"}]
        BY <2>1, <2>2 DEF LookUp, PageRead, LikeEnds
    <2> QED BY <2>1, <2>4, <2>5 DEF LookUp, PageRead, LikeEnds
<1>8. CASE \E l \in Listing : Expire(l)
    BY <1>8 DEF Expire
<1>9. CASE Crash
    <2>1. stumbled' \subseteq User \X Listing
        BY <1>0, <1>9 DEF Crash, Stumbles, HandlerTyped
    <2> QED BY <1>9, <2>1 DEF Crash
<1>10. CASE UNCHANGED vars
    BY <1>10 DEF vars
<1> QED
    BY <1>1, <1>2, <1>3, <1>4, <1>5, <1>6, <1>7, <1>8, <1>9, <1>10 DEF Next, HandleCallback

LEMMA TypeStep == TypeOK /\ [Next]_vars => TypeOK'
<1> SUFFICES ASSUME TypeOK, [Next]_vars PROVE TypeOK'
    OBVIOUS
<1>1. TableTyped' /\ CardTyped' /\ HandlerTyped' /\ LikesTyped'
    BY TableStep, HandlerStep, LikesStep
<1> QED
    BY <1>1 DEF TypeOK, TableTyped, CardTyped, HandlerTyped, LikesTyped

\* Every variable of the ratings keeps to its values, and the handler to its
\* places and attempts.
THEOREM TypeCorrect == Spec => []TypeOK
BY TypeInit, TypeStep, PTL DEF Spec

-----------------------------------------------------------------------------
(* One card of one user.                                                   *)

Tapped(u, l) == taps # <<>> /\ TapUser = u /\ TapListing = l

\* The handler is about to record a rating of the card, and has recorded it.
Saving(u, l) == pc \in {"answer", "record"} /\ reply = "saved" /\ Tapped(u, l)
Saved(u, l)  == pc \in {"note", "clear"} /\ reply = "saved" /\ Tapped(u, l)

\* The rows of a card agree; a card without its row is not rated.
RowsAgree(u, l) ==
    /\ rating[u][l] # "none" <=> delivery[u][l] = "rated"
    /\ <<u, l>> \in showing => delivery[u][l] = "none" /\ buttons[u][l] # "none"
    /\ told[u][l] # {} => delivery[u][l] # "none"
    /\ delivery[u][l] # "none" => late[u][l] \/ buttons[u][l] # "none"

\* A card that has a note or had its contact asked for is out of the digest's
\* hands, and no tap on it can be answered "saved" again.
Settled(u, l) ==
    note[u][l] # "none" \/ spawned[u][l] # 0 =>
        /\ <<u, l>> \notin showing
        /\ buttons[u][l] # "none"
        /\ rating[u][l] # "none" \/ delivery[u][l] = "none" \/ late[u][l]

NoteAgrees(u, l) ==
    note[u][l] # "none" /\ rating[u][l] # "none" => note[u][l] = rating[u][l]

\* What the handler read still stands when it writes.
HandlerRight(u, l) ==
    /\ Saving(u, l) => /\ delivery[u][l] # "none" /\ rating[u][l] = "none"
                       /\ note[u][l] = "none" /\ spawned[u][l] = 0
                       /\ buttons[u][l] # "none"
    /\ Saved(u, l) => /\ rating[u][l] = TapLabel /\ spawned[u][l] = 0
                      /\ buttons[u][l] # "none"

\* The reply at the end of a handler is the one the rows call for.
ReplyRight(u, l) ==
    /\ pc = "answer" => reply # "none"
    /\ pc = "clear" => reply \in {"saved", "expired"}
    /\ pc \in {"answer", "advance"} /\ Tapped(u, l) =>
          /\ reply = "foreign" => told[u][l] = {}
          /\ reply = "already" => rating[u][l] # "none"
    /\ pc = "advance" /\ Tapped(u, l) =>
          \/ tries = MaxAttempts
          \/ reply \in {"foreign", "already", "expired"}
          \/ rating[u][l] # "none"

LikeFollowed(u, l) ==
    /\ spawned[u][l] <= 1
    /\ rating[u][l] = "like" /\ <<u, l>> \notin stumbled /\ ~Saved(u, l) =>
          spawned[u][l] = 1 /\ buttons[u][l] = "off"

CardInv(u, l) ==
    /\ RowsAgree(u, l)
    /\ Settled(u, l)
    /\ NoteAgrees(u, l)
    /\ HandlerRight(u, l)
    /\ ReplyRight(u, l)
    /\ LikeFollowed(u, l)

RatingInv == TypeOK /\ \A u \in User, l \in Listing : CardInv(u, l)

LEMMA CardInit == Init => RatingInv
<1> SUFFICES ASSUME Init PROVE RatingInv
    OBVIOUS
<1>1. ASSUME NEW u \in User, NEW l \in Listing PROVE CardInv(u, l)
    <2>1. /\ delivery[u][l] = "none" /\ rating[u][l] = "none" /\ note[u][l] = "none"
          /\ told[u][l] = {} /\ spawned[u][l] = 0
        BY DEF Init, PerCard
    <2>2. showing = {} /\ pc = "idle"
        BY DEF Init
    <2> QED BY <2>1, <2>2 DEF CardInv, RowsAgree, Settled, NoteAgrees, HandlerRight,
                              ReplyRight, LikeFollowed, Saving, Saved
<1> QED
    BY <1>1, TypeInit DEF RatingInv

\* The invariant of a card reads nothing else.
LEMMA Unmoved ==
    ASSUME NEW u \in User, NEW l \in Listing, CardInv(u, l),
           delivery'[u][l] = delivery[u][l], rating'[u][l] = rating[u][l],
           late'[u][l] = late[u][l], note'[u][l] = note[u][l],
           buttons'[u][l] = buttons[u][l], told'[u][l] = told[u][l],
           spawned'[u][l] = spawned[u][l],
           <<u, l>> \in showing' => <<u, l>> \in showing,
           <<u, l>> \in stumbled => <<u, l>> \in stumbled',
           pc' = pc, reply' = reply, tries' = tries,
           pc # "idle" => taps # <<>> /\ taps' # <<>> /\ Head(taps') = Head(taps)
    PROVE  CardInv(u, l)'
<1> USE DEF TapUser, TapListing, TapLabel, Tapped, Saving, Saved
<1>1. RowsAgree(u, l)'
    BY DEF CardInv, RowsAgree
<1>2. Settled(u, l)' /\ NoteAgrees(u, l)'
    BY DEF CardInv, Settled, NoteAgrees
<1>3. HandlerRight(u, l)'
    BY DEF CardInv, HandlerRight
<1>4. ReplyRight(u, l)'
    BY DEF CardInv, ReplyRight
<1>5. LikeFollowed(u, l)'
    BY DEF CardInv, LikeFollowed
<1> QED
    BY <1>1, <1>2, <1>3, <1>4, <1>5 DEF CardInv

LEMMA DigestCard ==
    ASSUME TypeOK, NEW u \in User, NEW l \in Listing, CardInv(u, l),
           NEW v \in User, NEW k \in Listing,
           Show(v, k) \/ MarkDelivered(v, k) \/ MarkFails(v, k) \/ Baseline(v, k) \/ Age(v, k)
    PROVE  CardInv(u, l)'
<1>1. /\ UNCHANGED <<pc, reply, tries, taps, told, spawned, stumbled, rating, note>>
      /\ pc # "idle" => taps # <<>>
    BY DEF Show, MarkDelivered, MarkFails, Baseline, Age, handler, past, row, card, TypeOK
<1> USE DEF CardInv, RowsAgree, Settled, NoteAgrees, HandlerRight, ReplyRight, LikeFollowed,
            Saving, Saved, Tapped, TapUser, TapListing, TapLabel
<1>2. CASE ~(v = u /\ k = l)
    <2>1. /\ delivery'[u][l] = delivery[u][l] /\ late'[u][l] = late[u][l]
          /\ buttons'[u][l] = buttons[u][l]
          /\ <<u, l>> \in showing' => <<u, l>> \in showing
        BY <1>2 DEF Show, MarkDelivered, MarkFails, Baseline, Age, row, card, TypeOK
    <2> QED BY <1>1, <2>1, Unmoved
<1>3. CASE v = u /\ k = l
    <2>1. CASE Show(u, l)
        <3>1. delivery[u][l] = "none" /\ buttons[u][l] = "none" /\ buttons'[u][l] = "on"
              /\ delivery' = delivery /\ late' = late
            BY <2>1 DEF Show, row, TypeOK
        <3>2. spawned[u][l] = 0 /\ note[u][l] = "none"
            BY <3>1
        <3> QED BY <1>1, <3>1, <3>2
    <2>2. CASE MarkDelivered(u, l)
        <3>1. /\ <<u, l>> \in showing /\ <<u, l>> \notin showing'
              /\ delivery'[u][l] = "sent" /\ buttons' = buttons
            BY <2>2 DEF MarkDelivered, TypeOK
        <3> QED BY <1>1, <3>1
    <2>3. CASE MarkFails(u, l)
        <3>1. /\ <<u, l>> \notin showing'
              /\ delivery' = delivery /\ late' = late /\ buttons' = buttons
            BY <2>3 DEF MarkFails, row
        <3> QED BY <1>1, <3>1
    <2>4. CASE Baseline(u, l)
        <3>1. /\ delivery[u][l] = "none" /\ <<u, l>> \notin showing /\ showing' = showing
              /\ delivery'[u][l] = "baseline" /\ late'[u][l] = TRUE /\ buttons' = buttons
            BY <2>4 DEF Baseline, card, TypeOK
        <3> QED BY <1>1, <3>1
    <2>5. CASE Age(u, l)
        <3>1. /\ delivery' = delivery /\ late'[u][l] = TRUE
              /\ showing' = showing /\ buttons' = buttons
            BY <2>5 DEF Age, card, TypeOK
        <3> QED BY <1>1, <3>1
    <2> QED BY <1>3, <2>1, <2>2, <2>3, <2>4, <2>5
<1> QED BY <1>2, <1>3

LEMMA UserCard ==
    ASSUME TypeOK, NEW u \in User, NEW l \in Listing, CardInv(u, l),
           \/ \E v \in User, k \in Listing, x \in Label : Press(v, k, x)
           \/ \E v \in User : DeleteUser(v)
    PROVE  CardInv(u, l)'
<1>1. CASE \E v \in User, k \in Listing, x \in Label : Press(v, k, x)
    <2>1. PICK t \in Tap : taps' = Append(taps, t)
        BY <1>1 DEF Press, Tap
    <2>2. taps' # <<>> /\ (taps # <<>> => Head(taps') = Head(taps))
        BY <2>1 DEF TypeOK
    <2>3. UNCHANGED <<row, card, pc, reply, tries, likes, past>>
        BY <1>1 DEF Press
    <2> QED BY <2>2, <2>3, Unmoved DEF TypeOK, row, card, past
<1>2. ASSUME NEW v \in User, DeleteUser(v) PROVE CardInv(u, l)'
    <2>1. pc = "idle" /\ UNCHANGED <<card, handler, spawned, stumbled>>
        BY <1>2 DEF DeleteUser
    <2>2. CASE v = u
        <3>1. delivery'[u][l] = "none" /\ rating'[u][l] = "none" /\ told'[u][l] = {}
            BY <1>2, <2>2 DEF DeleteUser, TypeOK
        <3>2. spawned[u][l] <= 1 /\ (<<u, l>> \in showing => buttons[u][l] # "none")
              /\ Settled(u, l)
            BY DEF CardInv, LikeFollowed, RowsAgree
        <3> QED BY <2>1, <3>1, <3>2
                DEF CardInv, RowsAgree, Settled, NoteAgrees, HandlerRight, ReplyRight,
                    LikeFollowed, Saving, Saved, card, handler
    <2>3. CASE v # u
        <3>1. /\ delivery'[u][l] = delivery[u][l] /\ rating'[u][l] = rating[u][l]
              /\ late'[u][l] = late[u][l] /\ told'[u][l] = told[u][l]
            BY <1>2, <2>3 DEF DeleteUser, TypeOK
        <3> QED BY <2>1, <3>1, Unmoved DEF card, handler
    <2> QED BY <2>2, <2>3
<1> QED BY <1>1, <1>2

\* A handler that fails, and what it leaves.
LEMMA FailCard ==
    ASSUME TypeOK, NEW u \in User, NEW l \in Listing,
           RowsAgree(u, l)', Settled(u, l)', NoteAgrees(u, l)', LikeFollowed(u, l)',
           Fail, pc # "advance"
    PROVE  CardInv(u, l)'
<1>1. /\ tries' = tries + 1 /\ tries \in Nat /\ tries < MaxAttempts /\ MaxAttempts \in Nat
      /\ pc' = IF tries + 1 >= MaxAttempts THEN "advance" ELSE "idle"
      /\ reply' = "none"
    BY RatingAssumption DEF Fail, TypeOK
<1>2. pc' = "idle" \/ (pc' = "advance" /\ tries' = MaxAttempts)
    BY <1>1
<1> QED
    BY <1>1, <1>2 DEF CardInv, HandlerRight, ReplyRight, Saving, Saved

\* A toast is about the card that is tapped.
LEMMA ToastOf ==
    ASSUME TypeOK, NEW u \in User, NEW l \in Listing, taps # <<>>
    PROVE  Toast[u][l] = told[u][l] \/ (reply = "saved" /\ Tapped(u, l))
<1>1. TapUser \in User /\ TapListing \in Listing
    BY HeadTyped, TypeParts
<1>2. told \in [User -> [Listing -> SUBSET Label]]
    BY DEF TypeOK
<1> QED
    BY <1>1, <1>2 DEF Toast, Tapped

\* RecordRating writes the rows of the card that is tapped.
LEMMA RecordOf ==
    ASSUME TypeOK, NEW u \in User, NEW l \in Listing, taps # <<>>, RecordRating
    PROVE  /\ late' = late
           /\ Tapped(u, l) => rating'[u][l] = TapLabel /\ delivery'[u][l] = "rated"
           /\ ~Tapped(u, l) =>
                 rating'[u][l] = rating[u][l] /\ delivery'[u][l] = delivery[u][l]
<1>1. TapUser \in User /\ TapListing \in Listing
    BY HeadTyped, TypeParts
<1>2. rating \in [User -> [Listing -> Label \cup {"none"}]]
    BY DEF TypeOK
<1>3. delivery \in [User -> [Listing -> {"none", "baseline", "sent", "rated"}]]
    BY DEF TypeOK
<1> QED
    BY <1>1, <1>2, <1>3 DEF RecordRating, Tapped

LEMMA HandlerCard ==
    ASSUME TypeOK, NEW u \in User, NEW l \in Listing, CardInv(u, l), HandleCallback
    PROVE  CardInv(u, l)'
<1> USE DEF TapUser, TapListing, TapLabel, Tapped, Saving, Saved
<1>0. CardInv(u, l) <=> /\ RowsAgree(u, l) /\ Settled(u, l) /\ NoteAgrees(u, l)
                        /\ HandlerRight(u, l) /\ ReplyRight(u, l) /\ LikeFollowed(u, l)
    BY DEF CardInv
<1>1. RowsAgree(u, l) /\ Settled(u, l) /\ NoteAgrees(u, l)
      /\ HandlerRight(u, l) /\ ReplyRight(u, l) /\ LikeFollowed(u, l)
    BY <1>0
<1>2. taps # <<>> => Head(taps).user \in User /\ Head(taps).listing \in Listing
                     /\ Head(taps).label \in Label
    BY HeadTyped, TypeParts
<1>3. pc # "idle" => taps # <<>>
    BY DEF TypeOK
<1>4. CASE ReadState
    <2>1. /\ taps # <<>> /\ pc = "idle" /\ pc' = "answer"
          /\ reply' = Verdict(Head(taps).user, Head(taps).listing)
          /\ UNCHANGED <<row, card, taps, tries, told, spawned, stumbled>>
        BY <1>4 DEF ReadState, likes, past
    <2>2. late[u][l] \in BOOLEAN
        BY DEF TypeOK
    <2>3. Tapped(u, l) =>
            /\ reply' = "saved" => delivery[u][l] # "none" /\ rating[u][l] = "none"
                                   /\ ~late[u][l] /\ buttons[u][l] # "none"
            /\ reply' = "foreign" => delivery[u][l] = "none"
            /\ reply' = "already" => rating[u][l] # "none"
        BY <1>1, <2>1 DEF Verdict, RowsAgree
    <2>4. RowsAgree(u, l)' /\ Settled(u, l)' /\ NoteAgrees(u, l)' /\ LikeFollowed(u, l)'
        BY <1>1, <2>1 DEF RowsAgree, Settled, NoteAgrees, LikeFollowed, row, card
    <2>5. HandlerRight(u, l)'
        BY <1>1, <2>1, <2>3 DEF HandlerRight, Settled, row, card
    <2>6. ReplyRight(u, l)'
        BY <1>1, <2>1, <2>3 DEF ReplyRight, RowsAgree, Verdict, row, card
    <2> QED BY <2>4, <2>5, <2>6 DEF CardInv
<1>5. CASE StateFails
    <2>1. Fail /\ pc = "idle" /\ UNCHANGED <<row, card, taps, told, spawned, stumbled>>
        BY <1>5 DEF StateFails, Fail
    <2>2. RowsAgree(u, l)' /\ Settled(u, l)' /\ NoteAgrees(u, l)' /\ LikeFollowed(u, l)'
        BY <1>1, <2>1 DEF RowsAgree, Settled, NoteAgrees, LikeFollowed, Fail, row, card
    <2> QED BY <2>1, <2>2, FailCard
<1>6. CASE Answer
    <2>1. /\ pc = "answer" /\ told' = Toast
          /\ pc' = CASE reply = "saved"   -> "record"
                     [] reply = "expired" -> "clear"
                     [] OTHER             -> "advance"
          /\ UNCHANGED <<row, card, taps, reply, tries, spawned, stumbled>>
        BY <1>6 DEF Answer
    <2>2. told'[u][l] = told[u][l] \/ Saving(u, l)
        BY <1>2, <1>3, <2>1, ToastOf
    <2>3. RowsAgree(u, l)'
        BY <1>1, <2>1, <2>2 DEF RowsAgree, HandlerRight, row, card
    <2>4. Settled(u, l)' /\ NoteAgrees(u, l)' /\ LikeFollowed(u, l)'
        BY <1>1, <2>1 DEF Settled, NoteAgrees, LikeFollowed, row, card
    <2>5. HandlerRight(u, l)'
        BY <1>1, <2>1 DEF HandlerRight, row, card
    <2>6. reply \in Reply
        BY DEF TypeOK
    <2>7. ReplyRight(u, l)'
        BY <1>1, <2>1, <2>2, <2>6 DEF ReplyRight, Reply, row, card
    <2> QED BY <2>3, <2>4, <2>5, <2>7 DEF CardInv
<1>7. CASE AnswerFails
    <2>1. /\ pc = "answer" /\ told' \in {told, Toast} /\ Fail
          /\ UNCHANGED <<row, card, taps, spawned, stumbled>>
        BY <1>7 DEF AnswerFails, Fail
    <2>2. told'[u][l] = told[u][l] \/ Saving(u, l)
        BY <1>2, <1>3, <2>1, ToastOf
    <2>3. RowsAgree(u, l)'
        BY <1>1, <2>1, <2>2 DEF RowsAgree, HandlerRight, row, card
    <2>4. Settled(u, l)' /\ NoteAgrees(u, l)' /\ LikeFollowed(u, l)'
        BY <1>1, <2>1 DEF Settled, NoteAgrees, LikeFollowed, Fail, row, card
    <2> QED BY <2>1, <2>3, <2>4, FailCard
<1>8. CASE Record
    <2>1. /\ pc = "record" /\ pc' = "note" /\ RecordRating /\ reply = "saved"
          /\ UNCHANGED <<card, taps, reply, tries, told, spawned, stumbled>>
        BY <1>8 DEF Record, TypeOK, likes, past
    <2>2. late' = late
        BY <2>1 DEF RecordRating
    <2>3. CASE Tapped(u, l)
        <3>1. rating'[u][l] = Head(taps).label /\ delivery'[u][l] = "rated"
            BY <1>2, <1>3, <2>1, <2>3 DEF RecordRating, TypeOK
        <3>2. /\ delivery[u][l] # "none" /\ note[u][l] = "none" /\ spawned[u][l] = 0
              /\ <<u, l>> \notin showing /\ buttons[u][l] # "none"
            BY <1>1, <2>1, <2>3 DEF HandlerRight, RowsAgree
        <3>3. Head(taps).label \in {"like", "dislike"}
            BY <1>2, <2>3 DEF Label
        <3> QED BY <1>1, <2>1, <2>2, <2>3, <3>1, <3>2, <3>3
                DEF CardInv, RowsAgree, Settled, NoteAgrees, HandlerRight, ReplyRight,
                    LikeFollowed, card
    <2>4. CASE ~Tapped(u, l)
        <3>1. rating'[u][l] = rating[u][l] /\ delivery'[u][l] = delivery[u][l]
            BY <1>2, <1>3, <2>1, <2>4 DEF RecordRating, TypeOK
        <3> QED BY <1>1, <2>1, <2>2, <2>4, <3>1
                DEF CardInv, RowsAgree, Settled, NoteAgrees, HandlerRight, ReplyRight,
                    LikeFollowed, card
    <2> QED BY <2>3, <2>4
<1>9. CASE RecordFails
    <2>1. /\ pc = "record" /\ reply = "saved" /\ Fail
          /\ UNCHANGED <<card, taps, told, spawned>>
        BY <1>9 DEF RecordFails, Fail, TypeOK
    <2>2. CASE Tapped(u, l) /\ RecordRating /\ Stumbles
        <3>1. rating'[u][l] = Head(taps).label /\ delivery'[u][l] = "rated" /\ late' = late
            BY <1>2, <1>3, <2>1, <2>2 DEF RecordRating, TypeOK
        <3>2. /\ delivery[u][l] # "none" /\ note[u][l] = "none" /\ spawned[u][l] = 0
              /\ <<u, l>> \notin showing /\ buttons[u][l] # "none"
            BY <1>1, <2>1, <2>2 DEF HandlerRight, RowsAgree
        <3>3. Head(taps).label \in {"like", "dislike"} /\ <<u, l>> \in stumbled'
            BY <1>2, <2>2 DEF Label, Stumbles
        <3>4. RowsAgree(u, l)' /\ Settled(u, l)' /\ NoteAgrees(u, l)' /\ LikeFollowed(u, l)'
            BY <1>1, <2>1, <3>1, <3>2, <3>3
               DEF RowsAgree, Settled, NoteAgrees, LikeFollowed, card
        <3> QED BY <2>1, <3>4, FailCard
    <2>3. CASE ~(Tapped(u, l) /\ RecordRating /\ Stumbles)
        <3>1. /\ rating'[u][l] = rating[u][l] /\ delivery'[u][l] = delivery[u][l]
              /\ late' = late
            BY <1>3, <1>9, <2>1, <2>3, RecordOf DEF RecordFails, row
        <3>2. <<u, l>> \in stumbled => <<u, l>> \in stumbled'
            BY <1>9 DEF RecordFails, Stumbles
        <3>3. RowsAgree(u, l)' /\ Settled(u, l)' /\ NoteAgrees(u, l)' /\ LikeFollowed(u, l)'
            BY <1>1, <2>1, <3>1, <3>2
               DEF RowsAgree, Settled, NoteAgrees, LikeFollowed, card
        <3> QED BY <2>1, <3>3, FailCard
    <2> QED BY <2>2, <2>3
<1>10. CASE Confirm
    <2>1. /\ pc = "note" /\ reply = "saved" /\ pc' = "clear"
          /\ UNCHANGED <<row, showing, buttons, taps, reply, tries, told, spawned, stumbled>>
        BY <1>10 DEF Confirm, TypeOK, likes, past
    <2>2. note'[u][l] = note[u][l] \/ (Tapped(u, l) /\ note'[u][l] = Head(taps).label)
        <3>1. note \in [User -> [Listing -> Label \cup {"none"}]]
            BY DEF TypeOK
        <3>2. \/ note' = note
              \/ note' = [note EXCEPT ![Head(taps).user][Head(taps).listing] = Head(taps).label]
            BY <1>10 DEF Confirm
        <3> QED BY <1>2, <1>3, <2>1, <3>1, <3>2
    <2>3. Tapped(u, l) => rating[u][l] = Head(taps).label /\ Head(taps).label # "none"
                          /\ delivery[u][l] # "none" /\ <<u, l>> \notin showing
                          /\ buttons[u][l] # "none"
        BY <1>1, <1>2, <2>1 DEF HandlerRight, RowsAgree, Label
    <2> QED BY <1>1, <2>1, <2>2, <2>3
            DEF CardInv, RowsAgree, Settled, NoteAgrees, HandlerRight, ReplyRight,
                LikeFollowed, row
<1>11. CASE ClearKeyboard
    <2>1. /\ pc = "clear" /\ pc' = "advance" /\ buttons' = Revoked
          /\ UNCHANGED <<row, showing, note, taps, reply, tries, told, stumbled>>
          /\ reply \in {"saved", "expired"}
        BY <1>1, <1>11 DEF ClearKeyboard, ReplyRight
    <2>2. buttons'[u][l] = IF Tapped(u, l) THEN "off" ELSE buttons[u][l]
        <3>1. buttons \in [User -> [Listing -> {"none", "on", "off"}]]
            BY DEF TypeOK
        <3> QED BY <1>2, <1>3, <2>1, <3>1 DEF Revoked
    <2>3. spawned'[u][l] = IF Saved(u, l) /\ Head(taps).label = "like"
                           THEN spawned[u][l] + 1 ELSE spawned[u][l]
        <3>1. spawned \in [User -> [Listing -> Nat]]
            BY DEF TypeOK
        <3>2. CASE reply = "saved" /\ Head(taps).label = "like"
            <4>1. spawned' = [spawned EXCEPT ![Head(taps).user][Head(taps).listing] =
                                 spawned[Head(taps).user][Head(taps).listing] + 1]
                BY <1>11, <3>2 DEF ClearKeyboard
            <4> QED BY <1>2, <1>3, <2>1, <3>1, <3>2, <4>1
        <3>3. CASE ~(reply = "saved" /\ Head(taps).label = "like")
            BY <1>11, <3>3 DEF ClearKeyboard
        <3> QED BY <3>2, <3>3
    <2>4. spawned[u][l] \in Nat
        BY DEF TypeOK
    <2>5. Saved(u, l) => /\ rating[u][l] = Head(taps).label /\ spawned[u][l] = 0
                         /\ delivery[u][l] = "rated" /\ buttons[u][l] # "none"
                         /\ <<u, l>> \notin showing /\ rating[u][l] # "none"
        BY <1>1, <1>2 DEF HandlerRight, RowsAgree, Label
    <2>6. RowsAgree(u, l)' /\ NoteAgrees(u, l)'
        BY <1>1, <2>1, <2>2 DEF RowsAgree, NoteAgrees, row
    <2>7. Settled(u, l)'
        BY <1>1, <2>1, <2>2, <2>3, <2>5 DEF Settled, row
    <2>8. LikeFollowed(u, l)'
        <3>1. CASE Saved(u, l)
            BY <2>1, <2>2, <2>3, <2>5, <3>1 DEF LikeFollowed, row
        <3>2. CASE ~Saved(u, l)
            BY <1>1, <2>1, <2>2, <2>3, <3>2 DEF LikeFollowed, row
        <3> QED BY <3>1, <3>2
    <2>9. ReplyRight(u, l)' /\ HandlerRight(u, l)'
        BY <2>1, <2>5 DEF ReplyRight, HandlerRight, row
    <2> QED BY <2>6, <2>7, <2>8, <2>9 DEF CardInv
<1>12. CASE ClearFails
    <2>1. /\ pc = "clear" /\ Fail /\ Stumbles /\ buttons' \in {buttons, Revoked}
          /\ UNCHANGED <<row, showing, note, taps, told, spawned>>
        BY <1>12 DEF ClearFails, Fail
    <2>2. buttons'[u][l] = buttons[u][l] \/ buttons'[u][l] = "off"
        <3>1. buttons \in [User -> [Listing -> {"none", "on", "off"}]]
            BY DEF TypeOK
        <3> QED BY <1>2, <1>3, <2>1, <3>1 DEF Revoked
    <2>3. /\ <<u, l>> \in stumbled => <<u, l>> \in stumbled'
          /\ Tapped(u, l) => <<u, l>> \in stumbled'
        BY <2>1 DEF Stumbles
    <2>4. RowsAgree(u, l)' /\ Settled(u, l)' /\ NoteAgrees(u, l)' /\ LikeFollowed(u, l)'
        BY <1>1, <2>1, <2>2, <2>3 DEF RowsAgree, Settled, NoteAgrees, LikeFollowed, row
    <2> QED BY <2>1, <2>4, FailCard
<1>13. CASE Advance
    <2>1. pc = "advance" /\ pc' = "idle" /\ UNCHANGED <<row, card, told, spawned, stumbled>>
        BY <1>13 DEF Advance, likes, past
    <2> QED BY <1>1, <2>1
            DEF CardInv, RowsAgree, Settled, NoteAgrees, HandlerRight, ReplyRight,
                LikeFollowed, row, card
<1> QED
    BY <1>4, <1>5, <1>6, <1>7, <1>8, <1>9, <1>10, <1>11, <1>12, <1>13 DEF HandleCallback

LEMMA CardStep == RatingInv /\ [Next]_vars => RatingInv'
<1> SUFFICES ASSUME RatingInv, [Next]_vars PROVE RatingInv'
    OBVIOUS
<1>1. TypeOK /\ TypeOK'
    BY TypeStep DEF RatingInv
<1>2. SUFFICES ASSUME NEW u \in User, NEW l \in Listing PROVE CardInv(u, l)'
    BY <1>1 DEF RatingInv
<1>3. CardInv(u, l)
    BY DEF RatingInv
<1>4. pc # "idle" => taps # <<>>
    BY <1>1 DEF TypeOK
<1>5. CASE \E v \in User, k \in Listing :
               Show(v, k) \/ MarkDelivered(v, k) \/ MarkFails(v, k) \/ Baseline(v, k) \/ Age(v, k)
    BY <1>1, <1>3, <1>5, DigestCard
<1>6. CASE \/ \E v \in User, k \in Listing, x \in Label : Press(v, k, x)
           \/ \E v \in User : DeleteUser(v)
    BY <1>1, <1>3, <1>6, UserCard
<1>7. CASE HandleCallback
    BY <1>1, <1>3, <1>7, HandlerCard
<1>8. CASE OnLike \/ \E k \in Listing : Expire(k)
    <2>1. UNCHANGED <<row, card, handler, told, spawned, stumbled>>
        BY <1>8 DEF OnLike, LookUp, PageRead, LikeEnds, Expire
    <2> QED BY <1>3, <1>4, <2>1, Unmoved DEF row, card, handler
<1>9. CASE Crash
    <2>1. /\ pc' = "idle" /\ showing' = {} /\ UNCHANGED <<row, buttons, note, told, spawned>>
          /\ IF pc \in {"note", "clear"} THEN Stumbles ELSE UNCHANGED stumbled
        BY <1>9 DEF Crash
    <2>2. /\ <<u, l>> \in stumbled => <<u, l>> \in stumbled'
          /\ Saved(u, l) => <<u, l>> \in stumbled'
        BY <2>1 DEF Stumbles, Saved, Tapped
    <2> QED BY <1>3, <2>1, <2>2
            DEF CardInv, RowsAgree, Settled, NoteAgrees, HandlerRight, ReplyRight,
                LikeFollowed, Saving, Saved, row
<1>10. CASE UNCHANGED vars
    BY <1>3, <1>4, <1>10, Unmoved DEF vars
<1> QED
    BY <1>5, <1>6, <1>7, <1>8, <1>9, <1>10 DEF Next

\* A rating and the status of its delivery are never apart.
THEOREM RowsTogether == Spec => []RatedTogether
<1>1. RatingInv => RatedTogether
    BY DEF RatingInv, RatedTogether, CardInv, RowsAgree
<1> QED
    BY <1>1, CardInit, CardStep, PTL DEF Spec

\* What notes and toasts say is what the table says.
THEOREM TellsTheTruth == Spec => []ToldTruthful
<1>1. RatingInv => ToldTruthful
    <2> SUFFICES ASSUME RatingInv, NEW u \in User, NEW l \in Listing
                 PROVE  /\ note[u][l] # "none" /\ rating[u][l] # "none" => note[u][l] = rating[u][l]
                        /\ Consumed(u, l) /\ TapLabel \in told[u][l] =>
                              rating[u][l] # "none" \/ tries = MaxAttempts \/ reply = "expired"
        BY DEF ToldTruthful
    <2>1. CardInv(u, l) /\ (pc = "advance" => taps # <<>>)
        BY DEF RatingInv, TypeOK
    <2> QED BY <2>1 DEF CardInv, NoteAgrees, ReplyRight, Consumed, Tapped
<1> QED
    BY <1>1, CardInit, CardStep, PTL DEF Spec

\* The side effects of a like happen once, and happen unless a handler failed or
\* died after the record.
THEOREM LikesFollowed == Spec => []LikeGetsContact
<1>1. RatingInv => LikeGetsContact
    BY DEF RatingInv, LikeGetsContact, CardInv, LikeFollowed, Consumed, Saved
<1> QED
    BY <1>1, CardInit, CardStep, PTL DEF Spec

\* The first tap wins, for good: only the user's own erasure ends it.
THEOREM FirstTap == Spec => FirstTapWins
<1>1. ASSUME RatingInv, [Next]_vars, NEW u \in User, NEW l \in Listing, rating[u][l] # "none"
      PROVE  rating'[u][l] = rating[u][l] \/ (delivery'[u][l] = "none" /\ rating'[u][l] = "none")
    <2>1. TypeOK /\ CardInv(u, l)
        BY <1>1 DEF RatingInv
    <2>2. ASSUME NEW v \in User, DeleteUser(v)
          PROVE  \/ rating'[u][l] = rating[u][l]
                 \/ delivery'[u][l] = "none" /\ rating'[u][l] = "none"
        <3>1. /\ rating' = [rating EXCEPT ![v] = [k \in Listing |-> "none"]]
              /\ delivery' = [delivery EXCEPT ![v] = [k \in Listing |-> "none"]]
            BY <2>2 DEF DeleteUser
        <3> QED BY <2>1, <3>1 DEF TypeOK
    <2>3. ASSUME pc = "record", reply = "saved", RecordRating
          PROVE  rating'[u][l] = rating[u][l]
        <3>1. taps # <<>> /\ ~Tapped(u, l)
            BY <1>1, <2>1, <2>3 DEF TypeOK, CardInv, HandlerRight, Saving
        <3> QED BY <2>1, <2>3, <3>1, RecordOf
    <2>4. CASE Record \/ RecordFails
        BY <2>1, <2>3, <2>4 DEF Record, RecordFails, row, TypeOK
    <2>5. CASE rating' = rating
        BY <2>5
    <2>6. \/ rating' = rating
          \/ \E v \in User : DeleteUser(v)
          \/ Record \/ RecordFails
        BY <1>1 DEF Next, HandleCallback, OnLike, vars, row, Show, MarkDelivered, MarkFails,
           Baseline, Age, Press, ReadState, StateFails, Answer, AnswerFails, Confirm,
           ClearKeyboard, ClearFails, Advance, LookUp, PageRead, LikeEnds, Expire, Crash
    <2> QED BY <2>2, <2>4, <2>5, <2>6
<1>2. RatingInv /\ [Next]_vars =>
        \A u \in User, l \in Listing : rating[u][l] # "none" =>
            rating'[u][l] = rating[u][l] \/ (delivery'[u][l] = "none" /\ rating'[u][l] = "none")
    BY <1>1
<1> QED
    BY <1>2, CardInit, CardStep, PTL DEF Spec, FirstTapWins
=============================================================================
