---------------------------- MODULE SharedRegister ----------------------------
(* What KeyringSessionStore promises the tasks that share the credential: a  *)
(* register whose operations take effect at one moment between call and      *)
(* return.  An operation reports an error only when something outside the    *)
(* store failed or interfered while it ran, and a load of a record that      *)
(* cannot be read always does.                                               *)
CONSTANTS Tasks, Nothing, Unreadable

VARIABLES
  stored,    \* the credential: Nothing, Unreadable or the task that saved it
  op,        \* the operation of a task
  phase,     \* "idle", "called", "effective" or "dead"
  trouble,   \* a backend or lock call of the operation failed, or the
             \* credential was changed from outside while it ran
  seen,      \* what an effective load read
  answer     \* how the last operation of a task ended

registerVars == <<stored, op, phase, trouble, seen, answer>>

Operations == {"load", "save", "delete"}

RegisterInit ==
  /\ stored \in {Nothing, Unreadable}
  /\ op = [t \in Tasks |-> "none"]
  /\ phase = [t \in Tasks |-> "idle"]
  /\ trouble = [t \in Tasks |-> FALSE]
  /\ seen = [t \in Tasks |-> Nothing]
  /\ answer = [t \in Tasks |-> "none"]

Call(t) ==
  /\ phase[t] = "idle"
  /\ \E o \in Operations : op' = [op EXCEPT ![t] = o]
  /\ phase' = [phase EXCEPT ![t] = "called"]
  /\ answer' = [answer EXCEPT ![t] = "none"]
  /\ UNCHANGED <<stored, trouble, seen>>

\* The moment of an operation.  It may be in trouble and still have one.
Effect(t) ==
  /\ phase[t] = "called"
  /\ phase' = [phase EXCEPT ![t] = "effective"]
  /\ stored' = CASE op[t] = "save"   -> t
                 [] op[t] = "delete" -> Nothing
                 [] OTHER            -> stored
  /\ seen' = IF op[t] = "load" THEN [seen EXCEPT ![t] = stored] ELSE seen
  /\ \/ UNCHANGED trouble
     \/ trouble' = [trouble EXCEPT ![t] = TRUE]
  /\ UNCHANGED <<op, answer>>

Trouble(t) ==
  /\ phase[t] \in {"called", "effective"}
  /\ trouble' = [trouble EXCEPT ![t] = TRUE]
  /\ UNCHANGED <<stored, op, phase, seen, answer>>

Return(t) ==
  /\ \/ /\ phase[t] = "effective" /\ seen[t] # Unreadable
        /\ answer' = [answer EXCEPT ![t] = "ok"]
     \/ /\ phase[t] = "effective" /\ seen[t] = Unreadable
        /\ answer' = [answer EXCEPT ![t] = "error"]
     \/ /\ phase[t] \in {"called", "effective"} /\ trouble[t]
        /\ answer' = [answer EXCEPT ![t] = "error"]
  /\ phase' = [phase EXCEPT ![t] = "idle"]
  /\ op' = [op EXCEPT ![t] = "none"]
  /\ trouble' = [trouble EXCEPT ![t] = FALSE]
  /\ seen' = [seen EXCEPT ![t] = Nothing]
  /\ UNCHANGED stored

\* A process dies with all its tasks; what had no effect has none later.
Die ==
  LET dead == {t \in Tasks : phase'[t] = "dead"}
      Kept(f, default) == [t \in Tasks |-> IF t \in dead THEN default ELSE f[t]]
  IN
  /\ phase' = Kept(phase, "dead")
  /\ op' = Kept(op, "none") /\ trouble' = Kept(trouble, FALSE)
  /\ seen' = Kept(seen, Nothing) /\ answer' = Kept(answer, "none")
  /\ UNCHANGED stored

\* Somebody removes the credential in the OS store.
Outside ==
  /\ stored' = Nothing
  /\ trouble' = [t \in Tasks |-> phase[t] \in {"called", "effective"}]
  /\ UNCHANGED <<op, phase, seen, answer>>

RegisterNext ==
  \/ \E t \in Tasks : Call(t) \/ Effect(t) \/ Trouble(t) \/ Return(t)
  \/ Die \/ Outside

RegisterSpec == RegisterInit /\ [][RegisterNext]_registerVars
=============================================================================
