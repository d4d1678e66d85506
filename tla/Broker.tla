-------------------------------- MODULE Broker --------------------------------
(***************************************************************************)
(* AuthProcessBroker in each of its session modes (src/avanza_mcp/auth/    *)
(* broker.py).  self.mode is fixed when the server starts: memory_only and *)
(* one_shot run the session daemon (WorkerIpc), persistent runs workers on *)
(* the OS credential store (PersistentAuth).                               *)
(***************************************************************************)
EXTENDS WorkerIpcContract, PersistentAuth

VARIABLE mode  \* self.mode

allVars == <<mode, vars, persistentVars>>

\* session_mode_from_environment; "daemon" stands for memory_only and one_shot,
\* which are the same to the broker.
InitBroker ==
  /\ mode \in {"daemon", "persistent"}
  /\ Init
  /\ PersistentInit

NextDaemon ==
  /\ mode = "daemon"
  /\ Next
  /\ UNCHANGED <<mode, persistentVars>>

NextPersistent ==
  /\ mode = "persistent"
  /\ PersistentNext
  /\ UNCHANGED <<mode, vars>>

SpecBroker == InitBroker /\ [][NextDaemon \/ NextPersistent]_allVars

FairBroker == SpecBroker /\ Fairness /\ PersistentFairness

=============================================================================
