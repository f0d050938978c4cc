-------------------------------- MODULE MCBoot --------------------------------
(* TLC instance of Boot. *)
EXTENDS Boot

CONSTANTS older, newer, u1, u2, a, b

None == [numeric |-> TRUE, seeds |-> {}]
Good == [numeric |-> TRUE, seeds |-> {<<u1, a>>, <<u2, b>>}]

\* The instance that is replaced has seeds or none.  Its successor has them, with
\* a second URL that has no normal form, or with a chat id that is no number.
MCEnvironment ==
    [p \in {older, newer} |->
        IF p = older THEN {None, Good}
        ELSE {Good, [Good EXCEPT !.seeds = {<<u1, a>>, <<NoUrl, b>>}],
                    [Good EXCEPT !.numeric = FALSE]}]

\* The user has the second URL under the label of the first seed.
MCOwn == {<<u2, a>>}
=============================================================================
