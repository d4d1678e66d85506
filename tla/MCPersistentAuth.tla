--------------------------- MODULE MCPersistentAuth ---------------------------
(* Instances of PersistentAuth.                                              *)
EXTENDS PersistentAuth, TLC

CONSTANTS c1, c2, c3

MCCalls    == {c1, c2, c3}
MCTwoCalls == {c1, c2}
MCSymmetry == Permutations(MCCalls)

\* The methods that take the operation lock, or close the broker.
LockingMethods ==
  {"connect", "disconnect", "health_status", "account", "market", "aclose"}
==============================================================================
