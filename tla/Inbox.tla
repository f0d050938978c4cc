-------------------------------- MODULE Inbox --------------------------------
(***************************************************************************)
(* What delivery promises to a user, with no searches, pages or goroutines *)
(* in it.  For each user and listing there is a row (no row, seen without  *)
(* being sent, or sent), and the number of cards the chat has shown.  A    *)
(* card is shown only while there is no row, one card of a user at a time, *)
(* and it is then either recorded or its record lapses.  The comments of   *)
(* src/internal/digest/digest.go:47-51 and :273-275 and of                 *)
(* src/internal/repo/deliveries.go:20-23 state this contract.              *)
(***************************************************************************)
EXTENDS Naturals

CONSTANTS User, Listing, NoListing

VARIABLES
    row,      \* row[u][l]: "none", "baseline" or "sent"
    open,     \* open[u]: the card shown to u that is not recorded yet
    shown,    \* shown[u][l]: cards of l that reached u's chat
    lapsed    \* lapsed[u][l]: those of them without a row to show for it

ivars == <<row, open, shown, lapsed>>

InboxInit ==
    /\ row = [u \in User |-> [l \in Listing |-> "none"]]
    /\ open = [u \in User |-> NoListing]
    /\ shown = [u \in User |-> [l \in Listing |-> 0]]
    /\ lapsed = [u \in User |-> [l \in Listing |-> 0]]

Add1(f, u, l) == [f EXCEPT ![u] = [f[u] EXCEPT ![l] = f[u][l] + 1]]

Show(u, l) ==
    /\ open[u] = NoListing
    /\ row[u][l] = "none"
    /\ shown' = Add1(shown, u, l)
    /\ open' = [open EXCEPT ![u] = l]
    /\ UNCHANGED <<row, lapsed>>

\* The chat shows the card and the bot never learns it did.
ShowUnknown(u, l) ==
    /\ open[u] = NoListing
    /\ row[u][l] = "none"
    /\ shown' = Add1(shown, u, l)
    /\ lapsed' = Add1(lapsed, u, l)
    /\ UNCHANGED <<row, open>>

Record(u) ==
    /\ open[u] \in Listing
    /\ row' = [row EXCEPT ![u] = [row[u] EXCEPT ![open[u]] = "sent"]]
    /\ open' = [open EXCEPT ![u] = NoListing]
    /\ UNCHANGED <<shown, lapsed>>

\* The records of the open cards of the users in U will never be written.
Lose(U) ==
    /\ open' = [u \in User |-> IF u \in U THEN NoListing ELSE open[u]]
    /\ lapsed' = [u \in User |-> [l \in Listing |->
                    lapsed[u][l] + IF u \in U /\ open[u] = l THEN 1 ELSE 0]]
    /\ UNCHANGED <<row, shown>>

Suppress(u, L) ==
    /\ open[u] = NoListing
    /\ row' = [row EXCEPT ![u] = [l \in Listing |->
                IF l \in L /\ row[u][l] = "none" THEN "baseline" ELSE row[u][l]]]
    /\ UNCHANGED <<open, shown, lapsed>>

\* The user erases what the bot knows about them.
Erase(u) ==
    /\ row' = [row EXCEPT ![u] = [l \in Listing |-> "none"]]
    /\ lapsed' = [lapsed EXCEPT ![u] = [l \in Listing |->
                    lapsed[u][l] + IF row[u][l] = "sent" THEN 1 ELSE 0]]
    /\ UNCHANGED <<open, shown>>

InboxNext ==
    \/ \E u \in User, l \in Listing : Show(u, l) \/ ShowUnknown(u, l)
    \/ \E u \in User : Record(u) \/ Erase(u)
    \/ \E U \in SUBSET User : Lose(U)
    \/ \E u \in User, L \in SUBSET Listing : Suppress(u, L)

InboxSpec == InboxInit /\ [][InboxNext]_ivars

=============================================================================
