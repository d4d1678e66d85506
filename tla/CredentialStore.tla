--------------------------- MODULE CredentialStore ---------------------------
(* KeyringSessionStore (auth/store.py): load, save and delete of the one     *)
(* credential that every server process of a user shares.  An operation      *)
(* takes the asyncio.Lock of its process, then the file lock, and makes its  *)
(* backend calls in threads.  Processes are killed at any moment; the kernel *)
(* then drops their file lock.                                               *)
EXTENDS Naturals, Sequences

CONSTANTS
  Processes, Tasks,
  Home,                \* Home[t]: the process task t runs in
  Nothing, Unreadable, NoTask

ASSUME HomeAssumption ==
  /\ Home \in [Tasks -> Processes]
  /\ {Nothing, Unreadable, NoTask} \intersect Tasks = {}
  /\ Nothing # Unreadable

VARIABLES
  stored,    \* the credential in the OS store
  op,        \* the operation of a task
  pc,        \* the await it is at
  trouble,   \* history: see SharedRegister
  effect,    \* history: the operation has taken effect
  read,      \* what the last get_password of the operation returned
  answer,    \* how the last operation of a task ended
  queue,     \* self._lock of a process: its holder, then the waiters
  flock,     \* the task whose descriptor has the file lock
  alive      \* the processes that run

task == <<op, pc, read, answer>>
vars == <<stored, task, trouble, effect, queue, flock, alive>>

\* The state of the register: the phase of an operation, and what it has read.
Phase == [t \in Tasks |->
            IF Home[t] \notin alive THEN "dead"
            ELSE IF pc[t] = "idle" THEN "idle"
            ELSE IF effect[t] THEN "effective" ELSE "called"]
Seen == [t \in Tasks |->
           IF Home[t] \in alive /\ op[t] = "load" THEN read[t] ELSE Nothing]

Register == INSTANCE SharedRegister WITH phase <- Phase, seen <- Seen

Init ==
  /\ stored \in {Nothing, Unreadable}
  /\ op = [t \in Tasks |-> "none"]
  /\ pc = [t \in Tasks |-> "idle"]
  /\ trouble = [t \in Tasks |-> FALSE]
  /\ effect = [t \in Tasks |-> FALSE]
  /\ read = [t \in Tasks |-> Nothing]
  /\ answer = [t \in Tasks |-> "none"]
  /\ queue = [p \in Processes |-> <<>>]
  /\ flock = NoTask
  /\ alive = Processes

-----------------------------------------------------------------------------
(* One operation.                                                           *)

Runs(t) == Home[t] \in alive
At(t, place) == Runs(t) /\ pc[t] = place

\* load, save or delete is called and asks for the lock of its process.
Begin(t) ==
  /\ At(t, "idle")
  /\ \E o \in {"load", "save", "delete"} : op' = [op EXCEPT ![t] = o]
  /\ pc' = [pc EXCEPT ![t] = "queue"]
  /\ queue' = [queue EXCEPT ![Home[t]] = Append(@, t)]
  /\ answer' = [answer EXCEPT ![t] = "none"]
  /\ UNCHANGED <<stored, read, trouble, effect, flock, alive>>

\* The first backend call of an operation, and the one after a call.
First == [load |-> "get", save |-> "set", delete |-> "current"]
After == [get |-> "release", set |-> "saved", saved |-> "release",
          current |-> "remove", remove |-> "remaining",
          remaining |-> "release"]

\* Task t has the asyncio.Lock of its process and waits for the file lock.
Waits(t) == At(t, "queue") /\ Head(queue[Home[t]]) = t

\* Variant: the lock of the process is all there is.
AcquireUnlocked(t) ==
  /\ Waits(t)
  /\ flock' = t
  /\ pc' = [pc EXCEPT ![t] = First[op[t]]]
  /\ UNCHANGED <<stored, op, read, answer, trouble, effect, queue, alive>>

\* _acquire_process_lock.
Acquire(t) ==
  /\ Waits(t) /\ flock = NoTask
  /\ flock' = t
  /\ pc' = [pc EXCEPT ![t] = First[op[t]]]
  /\ UNCHANGED <<stored, op, read, answer, trouble, effect, queue, alive>>

\* The operation ends and leaves the asyncio.Lock.
Ends(t, how) ==
  /\ pc' = [pc EXCEPT ![t] = "idle"]
  /\ answer' = [answer EXCEPT ![t] = how]
  /\ queue' = [queue EXCEPT ![Home[t]] = Tail(@)]
  /\ op' = [op EXCEPT ![t] = "none"]
  /\ read' = [read EXCEPT ![t] = Nothing]
  /\ trouble' = [trouble EXCEPT ![t] = FALSE]
  /\ effect' = [effect EXCEPT ![t] = FALSE]

\* The lock file cannot be opened or locked.
AcquireFails(t) ==
  /\ Waits(t)
  /\ trouble' = [trouble EXCEPT ![t] = TRUE]
  /\ pc' = [pc EXCEPT ![t] = "failed"]
  /\ UNCHANGED <<stored, op, read, answer, effect, queue, flock, alive>>

Backend == {"get", "set", "saved", "current", "remove", "remaining"}

\* What the call does to the credential.
Applies(t) ==
  stored' = CASE pc[t] = "set"    -> t
              [] pc[t] = "remove" -> Nothing
              [] OTHER            -> stored

Takes(t) ==
  \/ pc[t] \in {"set", "remove", "get"}
  \/ pc[t] = "current" /\ stored = Nothing

\* A backend call of the operation returns.  A delete that finds nothing
\* leaves at once.
Returns(t) ==
  /\ Runs(t) /\ pc[t] \in Backend
  /\ Applies(t)
  /\ read' = IF pc[t] \in {"set", "remove"} THEN read
             ELSE [read EXCEPT ![t] = stored]
  /\ effect' = [effect EXCEPT ![t] = @ \/ Takes(t)]
  /\ pc' = [pc EXCEPT ![t] =
              IF @ = "current" /\ stored = Nothing THEN "release"
              ELSE After[@]]
  /\ UNCHANGED <<op, answer, trouble, queue, flock, alive>>

\* A backend call raises; whether the credential was changed is unknown.
Raises(t) ==
  /\ Runs(t) /\ pc[t] \in Backend
  /\ trouble' = [trouble EXCEPT ![t] = TRUE]
  /\ \/ UNCHANGED <<stored, effect>>
     \/ /\ pc[t] \in {"set", "remove"} /\ Applies(t)
        /\ effect' = [effect EXCEPT ![t] = TRUE]
  /\ pc' = [pc EXCEPT ![t] = "release_failed"]
  /\ UNCHANGED <<op, read, answer, queue, flock, alive>>

\* The comparison save, delete and load make once the locks are released.
Holds(t) ==
  CASE op[t] = "load"   -> read[t] # Unreadable
    [] op[t] = "save"   -> read[t] = t
    [] op[t] = "delete" -> read[t] = Nothing

Unlocked(t) == IF flock = t THEN NoTask ELSE flock

\* Variant: the file stays locked after a backend error.
ReleaseFailedKeeps(t) ==
  /\ At(t, "release_failed")
  /\ Ends(t, "error")
  /\ UNCHANGED <<stored, flock, alive>>

\* _release_process_lock on the way out of a backend error.
ReleaseFailed(t) ==
  /\ At(t, "release_failed")
  /\ flock' = Unlocked(t)
  /\ Ends(t, "error")
  /\ UNCHANGED <<stored, alive>>

\* _release_process_lock, then the answer.
Release(t) ==
  /\ At(t, "release")
  /\ flock' = Unlocked(t)
  /\ Ends(t, IF Holds(t) THEN "ok" ELSE "error")
  /\ UNCHANGED <<stored, alive>>

\* Unlocking raises; the descriptor is closed all the same.
ReleaseRaises(t) ==
  /\ At(t, "release")
  /\ flock' = Unlocked(t)
  /\ trouble' = [trouble EXCEPT ![t] = TRUE]
  /\ pc' = [pc EXCEPT ![t] = "failed"]
  /\ UNCHANGED <<stored, op, read, answer, effect, queue, alive>>

Fails(t) ==
  /\ At(t, "failed")
  /\ Ends(t, "error")
  /\ UNCHANGED <<stored, flock, alive>>

-----------------------------------------------------------------------------
(* The world outside the store.                                             *)

\* A process is killed.  A backend call under way is done or not done.
Killed(p) ==
  LET Kept(f, default) == [t \in Tasks |-> IF Home[t] = p THEN default ELSE f[t]]
  IN
  /\ p \in alive
  /\ alive' = alive \ {p}
  /\ flock' = IF flock # NoTask /\ Home[flock] = p THEN NoTask ELSE flock
  /\ queue' = [queue EXCEPT ![p] = <<>>]
  /\ op' = Kept(op, "none") /\ pc' = Kept(pc, "idle")
  /\ read' = Kept(read, Nothing) /\ answer' = Kept(answer, "none")
  /\ trouble' = Kept(trouble, FALSE) /\ effect' = Kept(effect, FALSE)
  /\ UNCHANGED stored

\* Somebody removes the credential in the OS store.
Outside ==
  /\ stored' = Nothing
  /\ trouble' = [t \in Tasks |-> pc[t] # "idle"]
  /\ UNCHANGED <<task, effect, queue, flock, alive>>

Step(t) ==
  \/ Begin(t) \/ Acquire(t) \/ AcquireFails(t)
  \/ Returns(t) \/ Raises(t) \/ Release(t) \/ ReleaseRaises(t)
  \/ ReleaseFailed(t) \/ Fails(t)

Next ==
  \/ \E t \in Tasks : Step(t)
  \/ \E p \in Processes : Killed(p)
  \/ Outside

Spec == Init /\ [][Next]_vars

\* The threads of live tasks run, backend calls return, and flock starves nobody.
Goes(t) == Returns(t) \/ Release(t) \/ ReleaseFailed(t) \/ Fails(t)

Fairness == \A t \in Tasks : SF_vars(Acquire(t)) /\ WF_vars(Goes(t))

FairSpec == Spec /\ Fairness

-----------------------------------------------------------------------------
(* Properties.                                                              *)

\* Every variable has its type.
TypeOK ==
  /\ stored \in Tasks \union {Nothing, Unreadable}
  /\ op \in [Tasks -> {"none", "load", "save", "delete"}]
  /\ pc \in [Tasks -> Backend \union {"idle", "queue", "release",
                                      "release_failed", "failed"}]
  /\ trouble \in [Tasks -> BOOLEAN] /\ effect \in [Tasks -> BOOLEAN]
  /\ read \in [Tasks -> Tasks \union {Nothing, Unreadable}]
  /\ answer \in [Tasks -> {"none", "ok", "error"}]
  /\ flock \in Tasks \union {NoTask} /\ alive \subseteq Processes

\* The store is a register that processes share: every operation takes effect
\* at one moment, one that reports success has, and none fails because of
\* another task's operation.  PersistentAuth takes this for granted.
KeepsRegister == Register!RegisterSpec

\* Every operation ends, although processes die with the file locked and
\* backend calls fail under it, unless its own process dies.
OperationsEnd ==
  \A t \in Tasks : (pc[t] # "idle") ~> (pc[t] = "idle" \/ ~Runs(t))
=============================================================================
