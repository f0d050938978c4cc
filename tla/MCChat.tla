------------------------------- MODULE MCChat -------------------------------
(* TLC instances of Chat. *)
EXTENDS Chat, TLC

\* Names are interchangeable, and so are pages too long for one.
Symmetry == Permutations(URL \ ShortURL) \cup Permutations(Name)
=============================================================================
