-------------------------------- MODULE MCAuth --------------------------------
(* Values for the constants of Auth. *)
EXTENDS Auth, TLC
CONSTANTS p1, p2

\* p2 is p1 with a blank at its end.
MCTrimmed == [p \in Passwords |-> p1]

MCSymmetry ==
    Permutations(Requests) \union Permutations(Users) \union
    Permutations(VerifyLinks) \union Permutations(Sessions)
=============================================================================
