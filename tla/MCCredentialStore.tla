--------------------------- MODULE MCCredentialStore ---------------------------
(* CredentialStore with two server processes, one of which runs two tasks.   *)
EXTENDS CredentialStore

CONSTANTS t1, t2, t3, p1, p2
MCProcesses == {p1, p2}
MCTasks == {t1, t2, t3}
MCHome == [t \in MCTasks |-> IF t = t3 THEN p2 ELSE p1]
=============================================================================
