------------------------------ MODULE MCBroker ------------------------------
(* Instances of Broker.                                                    *)
EXTENDS Broker, TLC

CONSTANTS c1, c2, c3, w1, w2

MCCalls    == {c1, c2, c3}
MCTwoCalls == {c1, c2}
MCWorkers  == {w1, w2}

Symmetry == Permutations(MCCalls) \union Permutations(MCWorkers)

\* The methods of persistent mode that take the operation lock, or close the
\* broker, and all of them.
LockingMethods ==
  {"connect", "disconnect", "health_status", "account", "market", "aclose"}
EveryMethod    == LockingMethods \union {"status"}

\* Where a loose worker has changed the store, nothing is claimed of the store.
Uncrossed == ~crossed
=============================================================================
