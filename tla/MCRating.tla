------------------------------ MODULE MCRating ------------------------------
(* TLC instances of Rating. *)
EXTENDS Rating, TLC

\* Users are interchangeable.
Symmetry == Permutations(User)
=============================================================================
