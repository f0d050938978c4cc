------------------------------ MODULE MCDigest ------------------------------
(* TLC instances of Digest. *)
EXTENDS Digest, TLC

CONSTANTS u1, s1, s2

\* One user with two searches, or with one.
OneOwner  == (s1 :> u1) @@ (s2 :> u1)
SoleOwner == (s1 :> u1)

\* Goroutines and listings are interchangeable.
Symmetry == Permutations(Proc) \cup Permutations(Listing)
=============================================================================
