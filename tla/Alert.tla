-------------------------------- MODULE Alert --------------------------------
(***************************************************************************)
(* What a caller of the Telegram client may count on: a call ends in a     *)
(* success with the message shown once, or in an error with the message    *)
(* shown once or not at all.  These are the three outcomes of a card that  *)
(* the delivery cycle handles (Notify, NotifyFails and NotifyUnanswered of *)
(* module Digest).                                                         *)
(***************************************************************************)
EXTENDS Naturals

CONSTANT Sender

VARIABLES
    open,    \* open[p]: p is in a call
    shown,   \* shown[p]: messages of p's last call that reached the chat
    answer   \* answer[p]: what p's last call returned

alertVars == <<open, shown, answer>>

AlertInit ==
    /\ open = [p \in Sender |-> FALSE]
    /\ shown = [p \in Sender |-> 0]
    /\ answer = [p \in Sender |-> "none"]

Begins(p) ==
    /\ ~open[p]
    /\ open' = [open EXCEPT ![p] = TRUE]
    /\ shown' = [shown EXCEPT ![p] = 0]
    /\ answer' = [answer EXCEPT ![p] = "none"]

Ends(p, result, messages) ==
    /\ open[p]
    /\ open' = [open EXCEPT ![p] = FALSE]
    /\ shown' = [shown EXCEPT ![p] = messages]
    /\ answer' = [answer EXCEPT ![p] = result]

Delivered(p) == Ends(p, "nil", 1)
Failed(p)    == \E n \in {0, 1} : Ends(p, "error", n)

AlertNext == \E p \in Sender : Begins(p) \/ Delivered(p) \/ Failed(p)

AlertSpec == AlertInit /\ [][AlertNext]_alertVars
=============================================================================
