--------------------------- MODULE MCAttemptClient ---------------------------
(* Instance of AttemptClient: two polls overlap in their collect calls.     *)
EXTENDS AttemptClient, TLC

CONSTANTS c1, c2
MCCollectors == {c1, c2}
==============================================================================
