--------------------------- MODULE MCRequestGovernor ---------------------------
(* Instances of RequestGovernor.                                           *)
EXTENDS RequestGovernor, TLC

CONSTANTS r1, r2, r3, s1, s2

MCRequests    == {r1, r2, r3}
MCTwoRequests == {r1, r2}
MCOneRetry    == {r1}
MCSessions    == {s1, s2}

\* Requests of a command start in a fixed order; sessions are interchangeable.
SessionSymmetry == Permutations(MCSessions)
=============================================================================
