------------------------------ MODULE BrokerProofs ------------------------------
(* Safety of the broker.  With a session daemon (WorkerIpc): the pipe          *)
(* discipline, and the contract of its callers, for any number of calls and    *)
(* worker processes.  In persistent mode (PersistentAuth): what keeps the      *)
(* workers apart, for any number of calls and logins: the operation lock, the  *)
(* market daemon's lock and the test for a pending disconnect behind the       *)
(* first.  A worker that was left to itself by a caller cancelled twice, or     *)
(* started without that test, is loose: what is proved is proved of the others. *)
EXTENDS Broker, SequenceTheorems, TLAPS

-----------------------------------------------------------------------------
(* The pipe of the session daemon.                                         *)

\* The daemon lock is held exactly by the call that is inside its critical
\* section.
LockInv ==
  \A c \in Calls :
    holder["daemon"] = c <=> pc[c] \in {"spawn", "reply", "stopping"}

\* Inside the critical section, the call's process and the registered one.
PeerInv ==
  \A c \in Calls :
    /\ pc[c] = "spawn" => slot = NoWorker
    /\ pc[c] = "reply" => peer[c] = slot /\ slot # NoWorker
    /\ pc[c] = "stopping" =>
         /\ peer[c] \in Workers /\ proc[peer[c]] # "running"
         /\ slot = NoWorker \/ slot = peer[c]

\* At most one command of a worker is under way; a process not yet spawned
\* has none and is not registered.
SingleInv ==
  \A w \in Workers :
    /\ Len(inbox[w]) + Len(outbox[w]) <= 1
    /\ proc[w] = "unborn" =>
         inbox[w] = <<>> /\ outbox[w] = <<>> /\ w # slot

\* Whatever is in the pipes of the registered daemon belongs to the call
\* that is waiting for a reply.
OwnedInv ==
  \A w \in Workers : w = slot =>
    /\ inbox[w] # <<>> =>
         LET k == Head(inbox[w])
         IN pc[k.call] = "reply" /\ k.action = sent[k.call]
    /\ outbox[w] # <<>> =>
         LET k == Head(outbox[w]).cmd
         IN pc[k.call] = "reply" /\ k.action = sent[k.call]

\* A call that has not ended has not returned an answer.
OpenInv ==
  \A c \in Calls :
    /\ pc[c] # "done" => outcome[c] # "answered"
    /\ pc[c] = "idle" => got[c] = NoFrame

-----------------------------------------------------------------------------
(* Type correctness.                                                       *)

\* TypeOK alone is not inductive: a call that reads a pipe must have a
\* process, and one that writes a command must run a method.
PeerType ==
  \A c \in Calls :
    /\ pc[c] \in {"reply", "stopping"} => peer[c] \in Workers
    /\ pc[c] # "idle" => method[c] # "none"

TypeInv == TypeOK /\ PeerType

\* Removing one entry from a queue leaves a queue of the same entries.
LEMMA RemovalType ==
  ASSUME NEW S, NEW q \in Seq(S), NEW i \in 1 .. Len(q)
  PROVE  SubSeq(q, 1, i - 1) \o SubSeq(q, i + 1, Len(q)) \in Seq(S)
  OBVIOUS

\* Sequences that are not empty have a first element.
LEMMA HeadType ==
  ASSUME NEW S, NEW q \in Seq(S), q # <<>>
  PROVE  /\ Head(q) \in S /\ Tail(q) \in Seq(S)
         /\ Len(q) >= 1 /\ Len(Tail(q)) = Len(q) - 1
  OBVIOUS

\* A sum of at most one with one positive part: the other part is zero.
LEMMA LenOne ==
  ASSUME NEW a \in Nat, NEW b \in Nat, b >= 1, a + b <= 1 \/ b + a <= 1
  PROVE  a = 0 /\ b = 1 /\ b - 1 = 0
  OBVIOUS

\* A part of one is one at most.
LEMMA PartOfOne ==
  ASSUME NEW a \in Nat, NEW b \in Nat, a + b <= 1
  PROVE  b <= 1
  OBVIOUS

\* A count that is zero or one stays so when a zero is added.
LEMMA SmallSum ==
  ASSUME NEW a, NEW b, a = 0 \/ a = 1, b = 0
  PROVE  a + b <= 1 /\ b + a <= 1
  OBVIOUS

\* Only the empty sequence has length zero.
LEMMA LenZero ==
  ASSUME NEW S, NEW q \in Seq(S), Len(q) = 0
  PROVE  q = <<>>
  OBVIOUS

\* A command written by a call of this system is a Command.
LEMMA FirstActionType ==
  ASSUME TypeOK, NEW c \in Calls, method[c] # "none"
  PROVE  FirstAction(c) \in Actions /\ ActionOf[method[c]] \in Actions
  BY DEF TypeOK, FirstAction, StatusFirst, ActionOf, Methods, Actions,
         StatusActions, ResultActions

\* What a call writes keeps the pipes well typed.
LEMMA WriteType ==
  ASSUME TypeOK, NEW c \in Calls, NEW w \in Workers, NEW a \in Actions,
         Write(c, w, a)
  PROVE  /\ sent' \in [Calls -> Actions \union {"none"}]
         /\ peer' \in [Calls -> Workers \union {NoWorker}]
         /\ peer'[c] = w
         /\ \A d \in Calls \ {c} : peer'[d] = peer[d]
         /\ inbox' \in [Workers -> Seq(Command)]
<1>1. [call |-> c, action |-> a] \in Command
  BY DEF Command
<1>2. QED
  BY <1>1 DEF TypeOK, Write

\* The initial state is well typed.
LEMMA TypeInit == Init => TypeInv
<1> SUFFICES ASSUME Init PROVE TypeInv
  OBVIOUS
<1> USE DEF Init
<1>1. waiters \in [Locks -> Seq(Calls)]
  OBVIOUS
<1>2. inbox \in [Workers -> Seq(Command)] /\ outbox \in [Workers -> Seq(Frame)]
  OBVIOUS
<1>3. holder \in [Locks -> Calls \union {NoCall}]
  OBVIOUS
<1>4. QED
  BY <1>1, <1>2, <1>3
  DEF TypeInv, PeerType, TypeOK, Methods, Pcs, Outcomes, Actions, ProcStates, AuthStates

\* No step of a call or of a worker breaks the types.
LEMMA TypeNext == TypeInv /\ [Next]_vars => TypeInv'
<1> SUFFICES ASSUME TypeInv, [Next]_vars PROVE TypeInv'
  OBVIOUS
<1> USE DEF callVars, lockVars, workerVars, TypeInv, PeerType
<1> USE DEF Pcs, Outcomes, ProcStates, Locks
<1>1. ASSUME NEW c \in Calls, NEW m \in Methods, Begin(c, m) PROVE TypeInv'
  BY <1>1 DEF TypeOK, Begin, Enqueue, FirstLock, Methods
<1>2. ASSUME NEW c \in Calls, NEW m \in Methods, BeginClosed(c, m) PROVE TypeInv'
  BY <1>2 DEF TypeOK, BeginClosed, Methods
<1>3. ASSUME NEW c \in Calls, TakeOperationLock(c) PROVE TypeInv'
  <2>1. /\ Tail(waiters["operation"]) \in Seq(Calls)
        /\ Append(waiters["daemon"], c) \in Seq(Calls)
    BY <1>3 DEF TypeOK, TakeOperationLock, Granted
  <2>2. waiters' \in [Locks -> Seq(Calls)]
    BY <1>3, <2>1 DEF TypeOK, TakeOperationLock
  <2>3. holder' \in [Locks -> Calls \union {NoCall}]
    BY <1>3 DEF TypeOK, TakeOperationLock
  <2>4. QED
    BY <1>3, <2>2, <2>3 DEF TypeOK, TakeOperationLock, Granted
<1>4. ASSUME NEW c \in Calls, EnterLive(c) PROVE TypeInv'
  BY <1>4, FirstActionType, WriteType
  DEF TypeOK, EnterLive, DaemonLockTaken, Granted, Live
<1>5. ASSUME NEW c \in Calls, EnterAbsent(c) PROVE TypeInv'
  BY <1>5 DEF TypeOK, EnterAbsent, DaemonLockTaken, Granted, Finish, Released
<1>6. ASSUME NEW c \in Calls, EnterSpawn(c) PROVE TypeInv'
  BY <1>6 DEF TypeOK, EnterSpawn, DaemonLockTaken, Granted
<1>7. ASSUME NEW c \in Calls, NEW w \in Workers, Spawned(c, w) PROVE TypeInv'
  BY <1>7, FirstActionType, WriteType DEF TypeOK, Spawned
<1>8. ASSUME NEW c \in Calls, SpawnFails(c) PROVE TypeInv'
  BY <1>8 DEF TypeOK, SpawnFails, Finish, Released
<1>9. ASSUME NEW c \in Calls, ReadStatusThenSend(c) PROVE TypeInv'
  <2>a. /\ Read(c) /\ peer[c] \in Workers /\ method[c] # "none"
        /\ UNCHANGED <<slot, proc>>
    BY <1>9 DEF ReadStatusThenSend, Read
  <2>b. /\ got' \in [Calls -> Frame \union {NoFrame}]
        /\ outbox' \in [Workers -> Seq(Frame)]
    BY <2>a DEF TypeOK, Read
  <2>1. CASE Live(peer[c])
    <3>1. /\ Write(c, peer[c], ActionOf[method[c]])
          /\ UNCHANGED <<pc, outcome, holder>>
      BY <1>9, <2>1 DEF ReadStatusThenSend
    <3>2. QED
      BY <2>a, <2>b, <3>1, FirstActionType, WriteType DEF TypeOK, Read
  <2>2. CASE ~Live(peer[c])
    <3>1. Finish(c, "failed") /\ UNCHANGED <<sent, peer, inbox>>
      BY <1>9, <2>2 DEF ReadStatusThenSend
    <3>2. QED
      BY <2>a, <2>b, <3>1 DEF TypeOK, Read, Finish, Released
  <2>3. QED
    BY <2>1, <2>2
<1>10. ASSUME NEW c \in Calls, ReadStatusThenRefuse(c) PROVE TypeInv'
  BY <1>10 DEF TypeOK, ReadStatusThenRefuse, Read, Finish, Released
<1>11. ASSUME NEW c \in Calls, ReadAnswer(c) PROVE TypeInv'
  BY <1>11 DEF TypeOK, ReadAnswer, Read, Finish, Released
<1>12. ASSUME NEW c \in Calls, ReadShutdown(c) PROVE TypeInv'
  BY <1>12 DEF TypeOK, ReadShutdown, Read, Terminated
<1>13. ASSUME NEW c \in Calls, ReadMismatch(c) PROVE TypeInv'
  BY <1>13 DEF TypeOK, ReadMismatch, Read, Retire, Terminated, FailureOf
<1>14. ASSUME NEW c \in Calls, NoAnswer(c) PROVE TypeInv'
  BY <1>14 DEF TypeOK, NoAnswer, Retire, Terminated, FailureOf
<1>15. ASSUME NEW c \in Calls, Stopped(c) PROVE TypeInv'
  BY <1>15 DEF TypeOK, Stopped, Finish, Released
<1>16. ASSUME NEW c \in Calls, NEW l \in Locks, CancelWaiting(c, l) PROVE TypeInv'
  BY <1>16, RemovalType DEF TypeOK, CancelWaiting, Finish, Released
<1>17. ASSUME NEW c \in Calls, CancelSpawn(c) \/ CancelStopping(c) PROVE TypeInv'
  <2>1. CASE CancelSpawn(c)
    BY <2>1 DEF TypeOK, CancelSpawn, Finish, Released
  <2>2. CASE CancelStopping(c)
    BY <2>2 DEF TypeOK, CancelStopping, Finish, Released
  <2>3. QED
    BY <1>17, <2>1, <2>2
<1>18. ASSUME NEW c \in Calls, CancelReply(c) PROVE TypeInv'
  BY <1>18 DEF TypeOK, CancelReply, Retire, Terminated
<1>19. ASSUME NEW w \in Workers, WorkerAnswer(w) PROVE TypeInv'
  <2>1. Head(inbox[w]) \in Command /\ Tail(inbox[w]) \in Seq(Command)
    BY <1>19 DEF TypeOK, WorkerAnswer
  <2>2. PICK s \in AuthAfter(Head(inbox[w]).action, auth[w]),
             k \in KindsOf(Head(inbox[w]).action) :
          /\ auth' = [auth EXCEPT ![w] = s]
          /\ outbox' = [outbox EXCEPT ![w] =
               Append(@, [cmd |-> Head(inbox[w]), kind |-> k, state |-> s])]
    BY <1>19 DEF WorkerAnswer
  <2>3. s \in AuthStates
    BY DEF TypeOK, AuthAfter, AuthStates
  <2>4. [cmd |-> Head(inbox[w]), kind |-> k, state |-> s] \in Frame
    BY <2>1, <2>3 DEF KindsOf, Frame
  <2>5. QED
    BY <1>19, <2>1, <2>2, <2>3, <2>4 DEF TypeOK, WorkerAnswer
<1>20. ASSUME NEW w \in Workers, WorkerFlow(w) PROVE TypeInv'
  BY <1>20 DEF TypeOK, WorkerFlow, AuthStates
<1>21. ASSUME NEW w \in Workers, WorkerExits(w) \/ Reaped(w) PROVE TypeInv'
  <2>1. CASE WorkerExits(w)
    BY <2>1 DEF TypeOK, WorkerExits
  <2>2. CASE Reaped(w)
    BY <2>2 DEF TypeOK, Reaped
  <2>3. QED
    BY <1>21, <2>1, <2>2
<1>22. CASE UNCHANGED vars
  BY <1>22 DEF TypeOK, vars
<1>23. QED
  BY <1>1, <1>2, <1>3, <1>4, <1>5, <1>6, <1>7, <1>8, <1>9, <1>10, <1>11,
     <1>12, <1>13, <1>14, <1>15, <1>16, <1>17, <1>18, <1>19, <1>20, <1>21,
     <1>22
  DEF Next, CallStep, Progress, Cancel, WorkerStep

\* Every variable keeps its shape, whatever the interleaving.
THEOREM TypeCorrect == Spec => []TypeOK
  BY TypeInit, TypeNext, PTL DEF Spec, TypeInv

-----------------------------------------------------------------------------
(* Safety.                                                                 *)

Discipline ==
  /\ LockInv
  /\ PeerInv
  /\ SingleInv
  /\ OwnedInv
  /\ OpenInv
  /\ AnswersOwnCommand
  /\ NoStrayWorker

IInv == TypeInv /\ Discipline

\* The pipe discipline holds before anything is spawned.
LEMMA DisciplineInit == Init => Discipline
<1> SUFFICES ASSUME Init PROVE Discipline
  OBVIOUS
<1> USE DEF Init
<1>1. LockInv
  BY SentinelAssumption DEF LockInv, Locks
<1>2. PeerInv /\ OpenInv /\ AnswersOwnCommand
  BY DEF PeerInv, OpenInv, AnswersOwnCommand
<1>3. SingleInv /\ OwnedInv /\ NoStrayWorker
  BY SentinelAssumption DEF SingleInv, OwnedInv, NoStrayWorker
<1>4. QED
  BY <1>1, <1>2, <1>3 DEF Discipline

\* With the daemon lock free there is no call whose command could be under
\* way, so the pipes of the registered daemon are empty.
LEMMA FreeMeansQuiet == IInv => QuietWhenUnlocked
<1> SUFFICES ASSUME IInv, holder["daemon"] = NoCall, slot # NoWorker
             PROVE  inbox[slot] = <<>> /\ outbox[slot] = <<>>
  BY DEF QuietWhenUnlocked
<1>1. slot \in Workers
  BY DEF IInv, TypeInv, TypeOK
<1>2. \A c \in Calls : pc[c] # "reply"
  BY SentinelAssumption DEF IInv, Discipline, LockInv
<1>3. inbox[slot] \in Seq(Command) /\ outbox[slot] \in Seq(Frame)
  BY <1>1 DEF IInv, TypeInv, TypeOK
<1>4. ASSUME inbox[slot] # <<>> PROVE FALSE
  <2>1. Head(inbox[slot]) \in Command
    BY <1>3, <1>4, HeadType
  <2>2. pc[Head(inbox[slot]).call] = "reply"
    BY <1>1, <1>4 DEF IInv, Discipline, OwnedInv
  <2>3. QED
    BY <1>2, <2>1, <2>2 DEF Command
<1>5. ASSUME outbox[slot] # <<>> PROVE FALSE
  <2>1. Head(outbox[slot]) \in Frame
    BY <1>3, <1>5, HeadType
  <2>2. pc[Head(outbox[slot]).cmd.call] = "reply"
    BY <1>1, <1>5 DEF IInv, Discipline, OwnedInv
  <2>3. QED
    BY <1>2, <2>1, <2>2 DEF Command, Frame
<1>6. QED
  BY <1>4, <1>5

\* What a call that reads a frame finds.
ReadFacts(c) ==
  /\ peer[c] = slot /\ slot \in Workers
  /\ pc[c] = "reply" /\ holder["daemon"] = c
  /\ Head(outbox[slot]) \in Frame
  /\ Head(outbox[slot]).cmd = [call |-> c, action |-> sent[c]]
  /\ got' = [got EXCEPT ![c] = Head(outbox[slot])]
  /\ inbox[slot] = <<>>
  /\ outbox' = [outbox EXCEPT ![slot] = <<>>]

\* The frame a call reads is the answer to its last command, and the only
\* thing in the pipes.
LEMMA ReadIsOwn ==
  ASSUME IInv, NEW c \in Calls, Read(c)
  PROVE  ReadFacts(c)
<1>1. /\ pc[c] = "reply" /\ peer[c] = slot /\ slot \in Workers
      /\ holder["daemon"] = c
  BY DEF Read, IInv, TypeInv, TypeOK, Discipline, PeerInv, LockInv
<1>2. inbox[slot] \in Seq(Command) /\ outbox[slot] \in Seq(Frame)
  BY <1>1 DEF IInv, TypeInv, TypeOK
<1>3. outbox[slot] # <<>>
  BY <1>1 DEF Read
<1>4. /\ Head(outbox[slot]) \in Frame
      /\ Tail(outbox[slot]) \in Seq(Frame)
      /\ Len(outbox[slot]) >= 1
      /\ Len(Tail(outbox[slot])) = Len(outbox[slot]) - 1
  BY <1>2, <1>3, HeadType
<1>5. Len(inbox[slot]) + Len(outbox[slot]) <= 1
  BY <1>1 DEF IInv, Discipline, SingleInv
<1>6. Len(inbox[slot]) = 0 /\ Len(Tail(outbox[slot])) = 0
  <2>1. Len(inbox[slot]) \in Nat /\ Len(outbox[slot]) \in Nat
    BY <1>2
  <2>2. Len(inbox[slot]) = 0 /\ Len(outbox[slot]) - 1 = 0
    BY ONLY <2>1, <1>4, <1>5, LenOne
  <2>3. QED
    BY ONLY <2>2, <1>4
<1>7. inbox[slot] = <<>> /\ Tail(outbox[slot]) = <<>>
  BY <1>2, <1>4, <1>6, LenZero
<1>8. LET k == Head(outbox[slot]).cmd
      IN k \in Command /\ pc[k.call] = "reply" /\ k.action = sent[k.call]
  BY <1>1, <1>3, <1>4 DEF IInv, Discipline, OwnedInv, Frame
<1>9. Head(outbox[slot]).cmd.call = c
  BY <1>1, <1>8 DEF IInv, Discipline, LockInv, Command
<1>10. Head(outbox[slot]).cmd = [call |-> c, action |-> sent[c]]
  BY <1>8, <1>9 DEF Command
<1>11. QED
  BY <1>1, <1>4, <1>7, <1>10 DEF Read, ReadFacts

\* Writing to an idle worker leaves exactly that command in its pipe, or
\* nothing when the process has exited.
LEMMA WriteOnEmpty ==
  ASSUME TypeOK, NEW c \in Calls, NEW w \in Workers, NEW a \in Actions,
         inbox[w] = <<>>, Write(c, w, a)
  PROVE  /\ inbox' = inbox \/
            inbox' = [inbox EXCEPT ![w] = <<[call |-> c, action |-> a]>>]
         /\ sent' = [sent EXCEPT ![c] = a]
         /\ peer' = [peer EXCEPT ![c] = w]
  BY DEF TypeOK, Write

\* A step that changes the pipes of one spawned worker only.
LEMMA SingleStep ==
  ASSUME SingleInv, NEW v \in Workers,
         \A u \in Workers : u # v =>
           inbox'[u] = inbox[u] /\ outbox'[u] = outbox[u],
         Len(inbox'[v]) + Len(outbox'[v]) <= 1,
         proc[v] # "unborn", UNCHANGED <<proc, slot>>
  PROVE  SingleInv'
  BY DEF SingleInv

\* Every step keeps the pipe discipline.
LEMMA DisciplineNext == IInv /\ TypeInv' /\ [Next]_vars => Discipline'
<1> SUFFICES ASSUME IInv, TypeInv', [Next]_vars PROVE Discipline'
  OBVIOUS
<1>a. \A c \in Calls : Read(c) => ReadFacts(c)
  BY ReadIsOwn
<1>b. QuietWhenUnlocked
  BY FreeMeansQuiet
<1>c. SingleInv
  BY DEF IInv, Discipline
<1> USE SentinelAssumption
    DEF IInv, TypeInv, Discipline, LockInv, PeerInv, OwnedInv,
        OpenInv, AnswersOwnCommand, NoStrayWorker, callVars, lockVars,
        workerVars
<1>1. ASSUME NEW c \in Calls, NEW m \in Methods, Begin(c, m) PROVE Discipline'
  BY <1>1 DEF SingleInv, TypeOK, Frame, Command, Locks, Begin, Enqueue, FirstLock
<1>2. ASSUME NEW c \in Calls, NEW m \in Methods, BeginClosed(c, m) PROVE Discipline'
  BY <1>2 DEF SingleInv, TypeOK, Frame, Command, Locks, BeginClosed
<1>3. ASSUME NEW c \in Calls, TakeOperationLock(c) PROVE Discipline'
  <2>1. /\ pc[c] = "operation" /\ pc' = [pc EXCEPT ![c] = "daemon"]
        /\ holder' = [holder EXCEPT !["operation"] = c]
        /\ UNCHANGED <<method, outcome, peer, sent, got, slot, closed,
                        workerVars>>
    BY <1>3 DEF TakeOperationLock, Granted
  <2>2. QED
    BY <2>1 DEF TypeOK, Locks, SingleInv
<1>4. ASSUME NEW c \in Calls, EnterLive(c) PROVE Discipline'
  <2>1. slot \in Workers /\ inbox[slot] = <<>> /\ outbox[slot] = <<>>
    BY <1>4, <1>b
    DEF TypeOK, EnterLive, DaemonLockTaken, Granted, Live, QuietWhenUnlocked
  <2>2. \A d \in Calls : pc[d] \notin {"spawn", "reply", "stopping"}
    BY <1>4 DEF EnterLive, DaemonLockTaken, Granted
  <2>3. Write(c, slot, FirstAction(c))
    BY <1>4 DEF EnterLive
  <2>b. FirstAction(c) \in Actions
    BY <1>4, FirstActionType DEF EnterLive, DaemonLockTaken, Granted, PeerType
  <2>c. /\ inbox' = inbox \/
           inbox' = [inbox EXCEPT
                       ![slot] = <<[call |-> c, action |-> FirstAction(c)]>>]
        /\ sent' = [sent EXCEPT ![c] = FirstAction(c)]
        /\ peer' = [peer EXCEPT ![c] = slot]
    BY <2>1, <2>3, <2>b, WriteOnEmpty
  <2>4. SingleInv'
    <3>1. Len(<<[call |-> c, action |-> FirstAction(c)]>>) = 1 /\ Len(outbox[slot]) = 0
      BY <2>1
    <3>2. UNCHANGED <<proc, outbox, slot>>
      BY <1>4 DEF EnterLive, DaemonLockTaken
    <3>3. proc[slot] # "unborn"
      BY <2>1, <1>c DEF SingleInv
    <3>4. ASSUME NEW v \in Workers, v # slot
          PROVE  inbox'[v] = inbox[v] /\ outbox'[v] = outbox[v]
      BY <2>c, <3>2, <3>4 DEF TypeOK
    <3>5. (Len(inbox'[slot]) = 0 \/ Len(inbox'[slot]) = 1) /\ Len(outbox'[slot]) = 0
      BY <2>1, <2>c, <3>1, <3>2 DEF TypeOK
    <3>6. Len(inbox'[slot]) + Len(outbox'[slot]) <= 1
      BY <3>5, SmallSum
    <3>7. QED
      BY <2>1, <3>2, <3>3, <3>4, <3>6, <1>c, SingleStep
  <2>5. OwnedInv'
    BY <1>4, <2>1, <2>c DEF TypeOK, EnterLive, DaemonLockTaken
  <2>6. LockInv' /\ PeerInv'
    BY <1>4, <2>1, <2>2, <2>c
    DEF TypeOK, Locks, EnterLive, DaemonLockTaken, Granted
  <2>7. OpenInv' /\ AnswersOwnCommand' /\ NoStrayWorker'
    BY <1>4 DEF TypeOK, EnterLive, DaemonLockTaken, Granted
  <2>8. QED
    BY <2>4, <2>5, <2>6, <2>7
<1>5. ASSUME NEW c \in Calls, EnterAbsent(c) PROVE Discipline'
  BY <1>5 DEF SingleInv, TypeOK, Frame, Command, Locks, EnterAbsent, DaemonLockTaken, Granted, Finish, Released, Live
<1>6. ASSUME NEW c \in Calls, EnterSpawn(c) PROVE Discipline'
  BY <1>6 DEF SingleInv, TypeOK, Frame, Command, Locks, EnterSpawn, DaemonLockTaken, Granted, Live
<1>7. ASSUME NEW c \in Calls, NEW w \in Workers, Spawned(c, w) PROVE Discipline'
  BY <1>7 DEF SingleInv, TypeOK, Frame, Command, Locks, Spawned, Write
<1>8. ASSUME NEW c \in Calls, SpawnFails(c) PROVE Discipline'
  BY <1>8 DEF SingleInv, TypeOK, Frame, Command, Locks, SpawnFails, Finish, Released
<1>9. ASSUME NEW c \in Calls, ReadStatusThenSend(c) PROVE Discipline'
  <2>1. Read(c) /\ UNCHANGED <<slot, proc>>
    BY <1>9 DEF ReadStatusThenSend
  <2>a. ReadFacts(c)
    BY <2>1, <1>a
  <2>2. CASE Live(peer[c])
    <3>1. /\ Write(c, slot, ActionOf[method[c]])
          /\ UNCHANGED <<pc, outcome, holder>>
      BY <1>9, <2>a, <2>2 DEF ReadFacts, ReadStatusThenSend
    <3>a. /\ slot \in Workers /\ inbox[slot] = <<>>
          /\ ActionOf[method[c]] \in Actions
      BY <2>a, FirstActionType DEF ReadFacts, PeerType
    <3>b. /\ inbox' = inbox \/
             inbox' = [inbox EXCEPT
                         ![slot] = <<[call |-> c,
                                      action |-> ActionOf[method[c]]]>>]
          /\ sent' = [sent EXCEPT ![c] = ActionOf[method[c]]]
          /\ peer' = [peer EXCEPT ![c] = slot]
      BY <3>1, <3>a, WriteOnEmpty
    <3>2. SingleInv'
      <4>1. Len(<<[call |-> c, action |-> ActionOf[method[c]]]>>) = 1 /\ Len(<<>>) = 0
        OBVIOUS
      <4>2. ASSUME NEW v \in Workers, v # slot
            PROVE  inbox'[v] = inbox[v] /\ outbox'[v] = outbox[v]
        BY <2>a, <3>b, <4>2 DEF ReadFacts, TypeOK
      <4>3. (Len(inbox'[slot]) = 0 \/ Len(inbox'[slot]) = 1) /\ Len(outbox'[slot]) = 0
        BY <2>a, <3>b, <4>1 DEF ReadFacts, TypeOK
      <4>4. proc[slot] # "unborn"
        BY <2>a, <1>c DEF ReadFacts, SingleInv
      <4>5. Len(inbox'[slot]) + Len(outbox'[slot]) <= 1
        BY <4>3, SmallSum
      <4>6. QED
        BY <2>1, <3>a, <4>2, <4>4, <4>5, <1>c, SingleStep
    <3>3. OwnedInv'
      BY <2>1, <2>a, <3>1, <3>b DEF ReadFacts, TypeOK
    <3>4. LockInv' /\ PeerInv'
      BY <2>1, <2>a, <3>1, <3>b DEF ReadFacts, TypeOK
    <3>5. OpenInv' /\ AnswersOwnCommand' /\ NoStrayWorker'
      BY <2>1, <2>a, <3>1 DEF ReadFacts, TypeOK, Read
    <3>6. QED
      BY <3>2, <3>3, <3>4, <3>5
  <2>3. CASE ~Live(peer[c])
    <3>1. Finish(c, "failed") /\ UNCHANGED <<sent, peer, inbox>>
      BY <1>9, <2>3 DEF ReadStatusThenSend
    <3>2. SingleInv' /\ OwnedInv'
      BY <2>1, <2>a, <3>1 DEF ReadFacts, TypeOK, SingleInv
    <3>3. LockInv' /\ PeerInv'
      BY <2>1, <2>a, <3>1 DEF ReadFacts, TypeOK, Finish, Released, Locks
    <3>4. OpenInv' /\ AnswersOwnCommand' /\ NoStrayWorker'
      BY <2>1, <2>a, <3>1 DEF ReadFacts, TypeOK, Read, Finish
    <3>5. QED
      BY <3>2, <3>3, <3>4
  <2>4. QED
    BY <2>2, <2>3
<1>10. ASSUME NEW c \in Calls, ReadStatusThenRefuse(c) PROVE Discipline'
  <2>1. Read(c)
    BY <1>10 DEF ReadStatusThenRefuse
  <2>2. ReadFacts(c)
    BY <2>1, <1>a
  <2>3. SingleInv' /\ OwnedInv'
    BY <1>10, <2>2 DEF SingleInv, ReadFacts, TypeOK, ReadStatusThenRefuse, Finish, Released
  <2>4. LockInv' /\ PeerInv'
    BY <1>10, <2>2 DEF ReadFacts, TypeOK, Locks, ReadStatusThenRefuse, Finish, Released
  <2>5. OpenInv' /\ AnswersOwnCommand' /\ NoStrayWorker'
    BY <1>10, <2>1, <2>2 DEF ReadFacts, Read, TypeOK, ReadStatusThenRefuse, Finish, Released
  <2>6. QED
    BY <2>3, <2>4, <2>5
<1>11. ASSUME NEW c \in Calls, ReadAnswer(c) PROVE Discipline'
  <2>1. Read(c)
    BY <1>11 DEF ReadAnswer
  <2>2. ReadFacts(c)
    BY <2>1, <1>a
  <2>3. SingleInv' /\ OwnedInv'
    BY <1>11, <2>2 DEF SingleInv, ReadFacts, TypeOK, ReadAnswer, Finish, Released
  <2>4. LockInv' /\ PeerInv'
    BY <1>11, <2>2 DEF ReadFacts, TypeOK, Locks, ReadAnswer, Finish, Released
  <2>5. OpenInv' /\ AnswersOwnCommand' /\ NoStrayWorker'
    BY <1>11, <2>1, <2>2 DEF ReadFacts, Read, TypeOK, ReadAnswer, Finish, Released
  <2>6. QED
    BY <2>3, <2>4, <2>5
<1>12. ASSUME NEW c \in Calls, ReadShutdown(c) PROVE Discipline'
  <2>1. Read(c)
    BY <1>12 DEF ReadShutdown
  <2>a. ReadFacts(c)
    BY <2>1, <1>a
  <2>2. SingleInv' /\ OwnedInv'
    BY <1>12, <2>1, <2>a DEF SingleInv, ReadFacts, TypeOK, ReadShutdown, Terminated
  <2>3. LockInv' /\ PeerInv'
    BY <1>12, <2>1, <2>a DEF ReadFacts, TypeOK, ReadShutdown, Terminated
  <2>4. OpenInv' /\ AnswersOwnCommand' /\ NoStrayWorker'
    BY <1>12, <2>1, <2>a DEF ReadFacts, TypeOK, ReadShutdown, Terminated, Read
  <2>5. QED
    BY <2>2, <2>3, <2>4
<1>13. ASSUME NEW c \in Calls, ReadMismatch(c) PROVE Discipline'
  <2>1. Read(c)
    BY <1>13 DEF ReadMismatch
  <2>2. ReadFacts(c)
    BY <2>1, <1>a
  <2>3. SingleInv' /\ OwnedInv'
    BY <1>13, <2>2 DEF SingleInv, ReadFacts, TypeOK, ReadMismatch, Retire, Terminated, FailureOf
  <2>4. LockInv' /\ PeerInv'
    BY <1>13, <2>2 DEF ReadFacts, TypeOK, Locks, ReadMismatch, Retire, Terminated, FailureOf
  <2>5. OpenInv' /\ AnswersOwnCommand' /\ NoStrayWorker'
    BY <1>13, <2>1, <2>2 DEF ReadFacts, Read, TypeOK, ReadMismatch, Retire, Terminated, FailureOf
  <2>6. QED
    BY <2>3, <2>4, <2>5
<1>14. ASSUME NEW c \in Calls, NoAnswer(c) PROVE Discipline'
  BY <1>14 DEF SingleInv, TypeOK, Frame, Command, Locks, NoAnswer, Retire, Terminated, FailureOf
<1>15. ASSUME NEW c \in Calls, Stopped(c) PROVE Discipline'
  BY <1>15 DEF SingleInv, TypeOK, Frame, Command, Locks, Stopped, Finish, Released
<1>16. ASSUME NEW c \in Calls, NEW l \in Locks, CancelWaiting(c, l) PROVE Discipline'
  BY <1>16 DEF SingleInv, TypeOK, Frame, Command, Locks, CancelWaiting, Finish, Released, Locks
<1>17. ASSUME NEW c \in Calls, CancelSpawn(c) PROVE Discipline'
  BY <1>17 DEF SingleInv, TypeOK, Frame, Command, Locks, CancelSpawn, Finish, Released
<1>18. ASSUME NEW c \in Calls, CancelStopping(c) PROVE Discipline'
  BY <1>18 DEF SingleInv, TypeOK, Frame, Command, Locks, CancelStopping, Finish, Released
<1>19. ASSUME NEW c \in Calls, CancelReply(c) PROVE Discipline'
  BY <1>19 DEF SingleInv, TypeOK, Frame, Command, Locks, CancelReply, Retire, Terminated
<1>20. ASSUME NEW w \in Workers, WorkerAnswer(w) PROVE Discipline'
  <2>a. inbox[w] \in Seq(Command) /\ outbox[w] \in Seq(Frame)
    BY DEF TypeOK
  <2>b. /\ Head(inbox[w]) \in Command /\ Len(inbox[w]) >= 1
        /\ Tail(inbox[w]) \in Seq(Command)
        /\ Len(Tail(inbox[w])) = Len(inbox[w]) - 1
    BY <1>20, <2>a, HeadType DEF WorkerAnswer
  <2>c. Len(inbox[w]) = 1 /\ Len(outbox[w]) = 0
    <3>1. Len(inbox[w]) \in Nat /\ Len(outbox[w]) \in Nat
      BY <2>a
    <3>2. Len(inbox[w]) + Len(outbox[w]) <= 1
      BY <1>c DEF SingleInv
    <3>3. QED
      BY ONLY <2>b, <3>1, <3>2, LenOne
  <2>1. Tail(inbox[w]) = <<>> /\ outbox[w] = <<>>
    <3>1. Len(Tail(inbox[w])) = 0
      BY <2>b, <2>c
    <3>2. QED
      BY <2>a, <2>b, <2>c, <3>1, LenZero
  <2>2. PICK s \in AuthAfter(Head(inbox[w]).action, auth[w]),
             k \in KindsOf(Head(inbox[w]).action) :
          /\ auth' = [auth EXCEPT ![w] = s]
          /\ outbox' = [outbox EXCEPT ![w] =
               Append(@, [cmd |-> Head(inbox[w]), kind |-> k, state |-> s])]
    BY <1>20 DEF WorkerAnswer
  <2>d. outbox' = [outbox EXCEPT ![w] =
          <<[cmd |-> Head(inbox[w]), kind |-> k, state |-> s]>>]
    BY <2>1, <2>2
  <2>e. inbox' = [inbox EXCEPT ![w] = <<>>]
    BY <1>20, <2>1 DEF WorkerAnswer
  <2>f. proc[w] # "unborn" /\ inbox[w] # <<>>
        /\ UNCHANGED <<callVars, lockVars, slot, closed, proc>>
    BY <1>20 DEF WorkerAnswer
  <2>g. SingleInv'
    <3>1. Len(<<[cmd |-> Head(inbox[w]), kind |-> k, state |-> s]>>) = 1
          /\ Len(<<>>) = 0
      OBVIOUS
    <3>2. ASSUME NEW v \in Workers, v # w
          PROVE  inbox'[v] = inbox[v] /\ outbox'[v] = outbox[v]
      BY <2>d, <2>e, <3>2 DEF TypeOK
    <3>3. Len(inbox'[w]) = 0 /\ Len(outbox'[w]) = 1
      BY <2>d, <2>e, <3>1 DEF TypeOK
    <3>4. Len(inbox'[w]) + Len(outbox'[w]) <= 1
      BY <3>3, SmallSum
    <3>5. QED
      BY <2>f, <3>2, <3>4, <1>c, SingleStep
  <2>h. OwnedInv'
    BY <2>d, <2>e, <2>f DEF TypeOK
  <2>3. QED
    BY <2>f, <2>g, <2>h
<1>21. ASSUME NEW w \in Workers, WorkerFlow(w) PROVE Discipline'
  BY <1>21 DEF SingleInv, TypeOK, Frame, Command, Locks, WorkerFlow
<1>22. ASSUME NEW w \in Workers, WorkerExits(w) PROVE Discipline'
  BY <1>22 DEF SingleInv, TypeOK, Frame, Command, Locks, WorkerExits
<1>23. ASSUME NEW w \in Workers, Reaped(w) PROVE Discipline'
  BY <1>23 DEF SingleInv, TypeOK, Frame, Command, Locks, Reaped
<1>24. CASE UNCHANGED vars
  BY <1>24 DEF vars, SingleInv
<1>25. QED
  BY <1>1, <1>2, <1>3, <1>4, <1>5, <1>6, <1>7, <1>8, <1>9, <1>10, <1>11, <1>12, <1>13, <1>14, <1>15, <1>16, <1>17, <1>18, <1>19, <1>20, <1>21, <1>22, <1>23, <1>24
  DEF Next, CallStep, Progress, Cancel, WorkerStep

\* The inductive invariant holds in every behaviour.
LEMMA IInvariant == Spec => []IInv
<1>1. Init => IInv
  BY TypeInit, DisciplineInit DEF IInv
<1>2. IInv /\ [Next]_vars => IInv'
  BY TypeNext, DisciplineNext DEF IInv
<1>3. QED
  BY <1>1, <1>2, PTL DEF Spec

\* However calls are cancelled, time out or lose their worker, a call is only
\* ever handed answers to its own commands.
THEOREM AnswersAreOwn == Spec => []AnswersOwnCommand
  BY IInvariant, PTL DEF IInv, Discipline

\* The pipes of the registered daemon are empty whenever the lock is free.
THEOREM PipesQuiet == Spec => []QuietWhenUnlocked
  BY IInvariant, FreeMeansQuiet, PTL

\* Every process not told to stop is the registered one.
THEOREM NoStray == Spec => []NoStrayWorker
  BY IInvariant, PTL DEF IInv, Discipline

-----------------------------------------------------------------------------
(* The status check of account and the read it guards.                     *)

\* A frame that reports no open confirmation is still true when it is read:
\* the disconnect command cannot overtake it.
FreshInv ==
  \A w \in Workers :
    outbox[w] # <<>> /\ Head(outbox[w]).state # "awaiting_disconnect" =>
      auth[w] # "awaiting_disconnect"

GuardInv == FreshInv /\ NoReadDuringDisconnect

\* No step queues an account read behind an open confirmation.
LEMMA GuardNext == IInv /\ GuardInv /\ [Next]_vars => GuardInv'
<1> SUFFICES ASSUME IInv, GuardInv, [Next]_vars PROVE GuardInv'
  OBVIOUS
<1>a. TypeOK /\ PeerType
  BY DEF IInv, TypeInv
<1>b. \A c \in Calls : Read(c) => ReadFacts(c)
  BY ReadIsOwn
<1>c. QuietWhenUnlocked
  BY FreeMeansQuiet
<1> USE <1>a DEF GuardInv, FreshInv, NoReadDuringDisconnect
<1>1. ASSUME UNCHANGED <<inbox, outbox, auth>> PROVE GuardInv'
  BY <1>1
<1>2. ASSUME NEW c \in Calls, EnterLive(c) PROVE GuardInv'
  <2>1. slot \in Workers /\ inbox[slot] = <<>> /\ outbox[slot] = <<>>
    BY <1>2, <1>c
    DEF TypeOK, EnterLive, DaemonLockTaken, Granted, Live, QuietWhenUnlocked
  <2>2. FirstAction(c) \in Actions /\ FirstAction(c) # "account"
    BY <1>2, FirstActionType
    DEF PeerType, TypeOK, EnterLive, DaemonLockTaken, Granted, FirstAction,
        StatusFirst, ActionOf, Methods
  <2>3. inbox' = inbox \/
        inbox' = [inbox EXCEPT
                    ![slot] = <<[call |-> c, action |-> FirstAction(c)]>>]
    BY <1>2, <2>1, <2>2, WriteOnEmpty DEF EnterLive
  <2>4. UNCHANGED <<outbox, auth>>
    BY <1>2 DEF EnterLive, DaemonLockTaken
  <2>5. Head(<<[call |-> c, action |-> FirstAction(c)]>>).action # "account"
    BY <2>2
  <2>6. \A v \in Workers :
          inbox'[v] = inbox[v] \/
          inbox'[v] = <<[call |-> c, action |-> FirstAction(c)]>>
    BY <2>1, <2>3 DEF TypeOK
  <2>7. QED
    BY <2>4, <2>5, <2>6
<1>3. ASSUME NEW c \in Calls, NEW w \in Workers, Spawned(c, w)
      PROVE  GuardInv'
  <2>1. inbox[w] = <<>> /\ UNCHANGED <<outbox, auth>>
    BY <1>3 DEF Spawned, IInv, Discipline, SingleInv
  <2>2. FirstAction(c) \in Actions /\ FirstAction(c) # "account"
    BY <1>3, FirstActionType
    DEF PeerType, TypeOK, Spawned, FirstAction, StatusFirst, ActionOf, Methods
  <2>3. inbox' = inbox \/
        inbox' = [inbox EXCEPT
                    ![w] = <<[call |-> c, action |-> FirstAction(c)]>>]
    BY <1>3, <2>1, <2>2, WriteOnEmpty DEF Spawned
  <2>4. Head(<<[call |-> c, action |-> FirstAction(c)]>>).action # "account"
    BY <2>2
  <2>5. \A v \in Workers :
          inbox'[v] = inbox[v] \/
          inbox'[v] = <<[call |-> c, action |-> FirstAction(c)]>>
    BY <2>3 DEF TypeOK
  <2>6. QED
    BY <2>1, <2>4, <2>5
<1>4. ASSUME NEW c \in Calls, Read(c), UNCHANGED inbox PROVE GuardInv'
  <2>1. ReadFacts(c) /\ UNCHANGED auth
    BY <1>4, <1>b DEF Read
  <2>2. QED
    BY <1>4, <2>1 DEF ReadFacts, TypeOK
<1>5. ASSUME NEW c \in Calls, ReadStatusThenSend(c) PROVE GuardInv'
  <2>1. Read(c) /\ ReadFacts(c) /\ UNCHANGED auth
    BY <1>5, <1>b DEF ReadStatusThenSend, Read
  <2>2. CASE Live(peer[c])
    <3>1. Head(outbox[slot]).state = "connected" /\ outbox[slot] # <<>>
      BY <1>5, <2>1 DEF ReadStatusThenSend, Read, ReadFacts, TypeOK
    <3>2. auth[slot] # "awaiting_disconnect"
      BY <2>1, <3>1 DEF ReadFacts
    <3>3. /\ Write(c, slot, ActionOf[method[c]]) /\ inbox[slot] = <<>>
          /\ slot \in Workers /\ ActionOf[method[c]] \in Actions
      BY <1>5, <2>1, <2>2, FirstActionType
      DEF ReadStatusThenSend, ReadFacts, PeerType
    <3>4. inbox' = inbox \/
          inbox' = [inbox EXCEPT
                      ![slot] = <<[call |-> c,
                                   action |-> ActionOf[method[c]]]>>]
      BY <3>3, WriteOnEmpty
    <3>5. QED
      BY <2>1, <3>2, <3>3, <3>4 DEF ReadFacts, TypeOK
  <2>3. CASE ~Live(peer[c])
    BY <1>4, <1>5, <2>1, <2>3 DEF ReadStatusThenSend
  <2>4. QED
    BY <2>2, <2>3
<1>6. ASSUME NEW w \in Workers, WorkerAnswer(w) PROVE GuardInv'
  <2>a. inbox[w] \in Seq(Command) /\ outbox[w] \in Seq(Frame)
    BY DEF TypeOK
  <2>b. /\ Head(inbox[w]) \in Command /\ Len(inbox[w]) >= 1
        /\ Len(Tail(inbox[w])) = Len(inbox[w]) - 1
        /\ Tail(inbox[w]) \in Seq(Command)
    BY <1>6, <2>a, HeadType DEF WorkerAnswer
  <2>c. Len(inbox[w]) = 1 /\ Len(outbox[w]) = 0
    <3>1. Len(inbox[w]) \in Nat /\ Len(outbox[w]) \in Nat
      BY <2>a
    <3>2. Len(inbox[w]) + Len(outbox[w]) <= 1
      BY DEF IInv, Discipline, SingleInv
    <3>3. QED
      BY ONLY <2>b, <3>1, <3>2, LenOne
  <2>d. Tail(inbox[w]) = <<>> /\ outbox[w] = <<>>
    <3>1. Len(Tail(inbox[w])) = 0
      BY <2>b, <2>c
    <3>2. QED
      BY <2>a, <2>b, <2>c, <3>1, LenZero
  <2>e. PICK s \in AuthAfter(Head(inbox[w]).action, auth[w]),
             k \in KindsOf(Head(inbox[w]).action) :
          /\ auth' = [auth EXCEPT ![w] = s]
          /\ outbox' = [outbox EXCEPT ![w] =
               Append(@, [cmd |-> Head(inbox[w]), kind |-> k, state |-> s])]
    BY <1>6 DEF WorkerAnswer
  <2>f. /\ outbox' = [outbox EXCEPT ![w] =
               <<[cmd |-> Head(inbox[w]), kind |-> k, state |-> s]>>]
        /\ inbox' = [inbox EXCEPT ![w] = <<>>]
    <3>1. inbox' = [inbox EXCEPT ![w] = <<>>]
      BY <1>6, <2>d DEF WorkerAnswer
    <3>2. Append(outbox[w], [cmd |-> Head(inbox[w]), kind |-> k, state |-> s])
            = <<[cmd |-> Head(inbox[w]), kind |-> k, state |-> s]>>
      BY <2>d
    <3>3. QED
      BY <2>e, <3>1, <3>2
  <2>g. Head(<<[cmd |-> Head(inbox[w]), kind |-> k, state |-> s]>>).state = s
    OBVIOUS
  <2>h. QED
    BY <2>e, <2>f, <2>g DEF TypeOK
<1>7. ASSUME NEW w \in Workers, WorkerFlow(w) PROVE GuardInv'
  BY <1>7 DEF WorkerFlow, TypeOK
<1>8. ASSUME NEW w \in Workers, WorkerExits(w) PROVE GuardInv'
  BY <1>8 DEF WorkerExits, TypeOK
<1>9. CASE UNCHANGED vars
  BY <1>1, <1>9 DEF vars, workerVars
<1>10. ASSUME NEW c \in Calls, CallStep(c) PROVE GuardInv'
  <2>1. CASE \E m \in Methods : Begin(c, m) \/ BeginClosed(c, m)
    BY <1>1, <2>1 DEF Begin, BeginClosed, workerVars
  <2>2. CASE Cancel(c)
    BY <1>1, <2>2
    DEF Cancel, CancelWaiting, CancelSpawn, CancelReply, CancelStopping,
        workerVars
  <2>3. CASE TakeOperationLock(c) \/ EnterAbsent(c) \/ EnterSpawn(c)
             \/ SpawnFails(c) \/ NoAnswer(c) \/ Stopped(c)
    BY <1>1, <2>3
    DEF TakeOperationLock, EnterAbsent, EnterSpawn, SpawnFails, NoAnswer,
        Stopped, DaemonLockTaken, workerVars
  <2>4. CASE ReadStatusThenRefuse(c) \/ ReadAnswer(c) \/ ReadShutdown(c)
             \/ ReadMismatch(c)
    BY <1>4, <2>4
    DEF ReadStatusThenRefuse, ReadAnswer, ReadShutdown, ReadMismatch
  <2>5. QED
    BY <1>2, <1>3, <1>5, <1>10, <2>1, <2>2, <2>3, <2>4
    DEF CallStep, Progress
<1>11. ASSUME NEW w \in Workers, Reaped(w) PROVE GuardInv'
  BY <1>1, <1>11 DEF Reaped
<1>12. QED
  BY <1>6, <1>7, <1>8, <1>9, <1>10, <1>11 DEF Next, WorkerStep

\* No account read is ever queued behind an open disconnect confirmation.
THEOREM ReadsGuarded == Spec => []NoReadDuringDisconnect
<1>1. Init => GuardInv
  BY DEF Init, GuardInv, FreshInv, NoReadDuringDisconnect
<1>2. QED
  BY <1>1, IInvariant, GuardNext, PTL DEF Spec, GuardInv

-----------------------------------------------------------------------------
(* aclose.  The daemon lock is handed out in the order it was asked for, so a *)
(* connect that gets it after an aclose was not let in before it.             *)

Queue == waiters["daemon"]

\* aclose has had its turn: it waits for its worker to end, or has returned.
Closes(c) ==
  /\ method[c] = "aclose"
  /\ pc[c] \in {"reply", "stopping"} \/ (pc[c] = "done" /\ outcome[c] = "closed")

\* A call that waits for the daemon lock is in its queue, behind an aclose no
\* connect is, and none is on its way when an aclose has had its turn.
ClosingCall(c) ==
  /\ method[c] = "aclose" => closed
  /\ outcome[c] = "closed" => method[c] = "aclose" /\ pc[c] \in {"stopping", "done"}
  /\ pc[c] = "operation" => method[c] \in {"account", "market_request"}
  /\ pc[c] = "daemon" => \E i \in 1 .. Len(Queue) : Queue[i] = c
  /\ pc[c] = "spawn" => method[c] = "connect"
  /\ Closes(c) => \A d \in Calls : method[d] = "connect" => pc[d] \notin {"daemon", "spawn"}

QueueInv ==
  /\ \A i \in 1 .. Len(Queue) : pc[Queue[i]] # "idle"
  /\ \A i, j \in 1 .. Len(Queue) :
       i < j /\ method[Queue[i]] = "aclose" => method[Queue[j]] # "connect"

ClosingInv == QueueInv /\ (\A c \in Calls : ClosingCall(c)) /\ ClosedForGood

\* What remains of a queue without its first entry, or without some entry.
LEMMA TailEntries ==
  ASSUME NEW S, NEW q \in Seq(S), q # <<>>
  PROVE  /\ Len(Tail(q)) = Len(q) - 1 /\ Len(q) \in Nat \ {0}
         /\ \A i \in 1 .. Len(Tail(q)) : Tail(q)[i] = q[i + 1] /\ i + 1 \in 1 .. Len(q)
  OBVIOUS

LEMMA RemovalEntries ==
  ASSUME NEW S, NEW q \in Seq(S), NEW k \in 1 .. Len(q),
         NEW r, r = SubSeq(q, 1, k - 1) \o SubSeq(q, k + 1, Len(q))
  PROVE  /\ Len(r) = Len(q) - 1 /\ Len(q) \in Nat \ {0}
         /\ \A i \in 1 .. Len(r) : r[i] = q[IF i < k THEN i ELSE i + 1]
<1>1. /\ SubSeq(q, 1, k - 1) \in Seq(S) /\ Len(SubSeq(q, 1, k - 1)) = k - 1
      /\ \A i \in 1 .. k - 1 : SubSeq(q, 1, k - 1)[i] = q[i]
  OBVIOUS
<1>2. /\ SubSeq(q, k + 1, Len(q)) \in Seq(S) /\ Len(SubSeq(q, k + 1, Len(q))) = Len(q) - k
      /\ \A i \in 1 .. Len(q) - k : SubSeq(q, k + 1, Len(q))[i] = q[k + i]
  OBVIOUS
<1>3. /\ Len(r) = Len(SubSeq(q, 1, k - 1)) + Len(SubSeq(q, k + 1, Len(q)))
      /\ \A i \in 1 .. Len(SubSeq(q, 1, k - 1)) + Len(SubSeq(q, k + 1, Len(q))) :
           r[i] = IF i <= Len(SubSeq(q, 1, k - 1)) THEN SubSeq(q, 1, k - 1)[i]
                  ELSE SubSeq(q, k + 1, Len(q))[i - Len(SubSeq(q, 1, k - 1))]
  <2>1. SubSeq(q, 1, k - 1) \in Seq(S) /\ SubSeq(q, k + 1, Len(q)) \in Seq(S)
    BY <1>1, <1>2
  <2>. QED BY ONLY <2>1, ConcatProperties, r = SubSeq(q, 1, k - 1) \o SubSeq(q, k + 1, Len(q)), Zenon
<1>4. /\ Len(r) = (k - 1) + (Len(q) - k)
      /\ \A i \in 1 .. (k - 1) + (Len(q) - k) :
           r[i] = IF i <= k - 1 THEN SubSeq(q, 1, k - 1)[i]
                  ELSE SubSeq(q, k + 1, Len(q))[i - (k - 1)]
  <2>1. Len(SubSeq(q, 1, k - 1)) = k - 1 /\ Len(SubSeq(q, k + 1, Len(q))) = Len(q) - k
    BY <1>1, <1>2
  <2>. QED BY ONLY <1>3, <2>1, Zenon
<1>5. Len(q) \in Nat \ {0} /\ (k - 1) + (Len(q) - k) = Len(q) - 1
  OBVIOUS
<1>6. ASSUME NEW i \in 1 .. Len(q) - 1 PROVE r[i] = q[IF i < k THEN i ELSE i + 1]
  <2>1. CASE i < k
    <3>1. i <= k - 1 /\ i \in 1 .. k - 1
      BY <1>5, <2>1
    <3>. QED BY <1>1, <1>4, <1>5, <2>1, <3>1
  <2>2. CASE ~(i < k)
    <3>1. i - (k - 1) \in 1 .. Len(q) - k /\ k + (i - (k - 1)) = i + 1 /\ ~(i <= k - 1)
      BY <1>5, <2>2
    <3>. QED BY <1>2, <1>4, <1>5, <2>2, <3>1
  <2>. QED BY <2>1, <2>2
<1>. QED BY <1>4, <1>5, <1>6

\* r is queue q, with one entry c taken out or as it was: the others are all
\* there, in the order they were in.
Remains(r, q, c) ==
  /\ \A i \in 1 .. Len(r) : \E n \in 1 .. Len(q) : r[i] = q[n]
  /\ \A i, j \in 1 .. Len(r) : i < j =>
       \E n, p \in 1 .. Len(q) : n < p /\ r[i] = q[n] /\ r[j] = q[p]
  /\ \A n \in 1 .. Len(q) : q[n] # c => \E i \in 1 .. Len(r) : r[i] = q[n]

LEMMA RemovalRemains ==
  ASSUME NEW S, NEW q \in Seq(S), NEW k \in 1 .. Len(q),
         NEW r, r = SubSeq(q, 1, k - 1) \o SubSeq(q, k + 1, Len(q))
  PROVE  Remains(r, q, q[k])
<1> DEFINE At(i) == IF i < k THEN i ELSE i + 1
<1>1. /\ Len(r) = Len(q) - 1 /\ Len(q) \in Nat \ {0}
      /\ \A i \in 1 .. Len(r) : r[i] = q[At(i)]
  BY RemovalEntries
<1>2. PICK l : l = Len(q)
  OBVIOUS
<1>3. l \in Nat \ {0} /\ k \in 1 .. l /\ Len(r) = l - 1
  BY <1>1, <1>2
<1>4. /\ \A i \in 1 .. l - 1 : At(i) \in 1 .. l
      /\ \A i, j \in 1 .. l - 1 : i < j => At(i) < At(j)
  BY ONLY <1>3
<1>5. ASSUME NEW n \in 1 .. l, n # k PROVE \E i \in 1 .. l - 1 : At(i) = n
  <2>1. CASE n < k
    <3>1. n \in 1 .. l - 1 /\ At(n) = n
      BY ONLY <1>3, <1>5, <2>1
    <3>. QED BY <3>1
  <2>2. CASE n > k
    <3>1. n - 1 \in 1 .. l - 1 /\ At(n - 1) = n
      BY ONLY <1>3, <1>5, <2>2
    <3>. QED BY <3>1
  <2>3. n < k \/ n > k
    BY ONLY <1>3, <1>5
  <2>. QED BY <2>1, <2>2, <2>3
<1> HIDE DEF At
<1>6. \A i \in 1 .. Len(r) : \E n \in 1 .. Len(q) : r[i] = q[n]
  BY <1>1, <1>2, <1>3, <1>4, Zenon
<1>7. ASSUME NEW i \in 1 .. Len(r), NEW j \in 1 .. Len(r), i < j
      PROVE  \E n, p \in 1 .. Len(q) : n < p /\ r[i] = q[n] /\ r[j] = q[p]
  BY <1>1, <1>2, <1>3, <1>4, <1>7, Zenon
<1>8. ASSUME NEW n \in 1 .. Len(q), q[n] # q[k] PROVE \E i \in 1 .. Len(r) : r[i] = q[n]
  <2>1. PICK i \in 1 .. l - 1 : At(i) = n
    BY <1>2, <1>5, <1>8
  <2>. QED BY <1>1, <1>3, <2>1, Zenon
<1>. QED BY <1>6, <1>7, <1>8 DEF Remains

LEMMA AppendEntries ==
  ASSUME NEW S, NEW q \in Seq(S), NEW x
  PROVE  /\ Len(Append(q, x)) = Len(q) + 1 /\ Len(q) \in Nat
         /\ \A i \in 1 .. Len(q) : Append(q, x)[i] = q[i]
         /\ Append(q, x)[Len(q) + 1] = x
  OBVIOUS

\* A call inside its critical section goes on.
LEMMA ClosingGoesOn ==
  ASSUME IInv, ClosingInv, NEW c \in Calls, NEW x \in {"reply", "stopping", "done"},
         pc[c] \in {"spawn", "reply", "stopping"}, pc' = [pc EXCEPT ![c] = x],
         x = "reply" => method[c] = "connect" \/ pc[c] = "reply",
         UNCHANGED <<method, waiters, closed>>,
         \A d \in Calls \ {c} : outcome'[d] = outcome[d],
         outcome'[c] = "closed" => method[c] = "aclose" /\ x \in {"stopping", "done"},
         x = "done" /\ outcome'[c] = "closed" => \A w \in Workers : proc'[w] # "running",
         \A w \in Workers : proc'[w] = "running" =>
           proc[w] = "running" \/ pc[c] = "spawn"
  PROVE  ClosingInv'
<1>1. /\ pc \in [Calls -> Pcs] /\ waiters \in [Locks -> Seq(Calls)]
      /\ Queue \in Seq(Calls) /\ Queue' = Queue
  BY DEF IInv, TypeInv, TypeOK, Locks, Queue
<1>2. pc'[c] = x /\ \A d \in Calls \ {c} : pc'[d] = pc[d]
  BY <1>1
<1>3. QueueInv'
  BY <1>1, <1>2 DEF ClosingInv, QueueInv
<1>4. pc[c] = "spawn" => method[c] = "connect"
  BY DEF ClosingInv, ClosingCall
<1>5. ASSUME NEW d \in Calls, Closes(d)' PROVE Closes(d)
  BY <1>2, <1>4, <1>5 DEF Closes
<1>6. ASSUME NEW d \in Calls PROVE ClosingCall(d)'
  <2>1. ClosingCall(d)
    BY DEF ClosingInv
  <2>2. Closes(d)' => \A e \in Calls : method[e] = "connect" => pc'[e] \notin {"daemon", "spawn"}
    BY <1>2, <1>5, <2>1 DEF ClosingCall
  <2>. QED BY <1>1, <1>2, <2>1, <2>2 DEF ClosingCall
<1>7. ClosedForGood'
  <2> SUFFICES ASSUME NEW d \in Calls, pc'[d] = "done", outcome'[d] = "closed",
                      NEW w \in Workers, proc'[w] = "running"
               PROVE  FALSE
    BY DEF ClosedForGood
  <2>1. d # c /\ pc[d] = "done" /\ outcome[d] = "closed"
    BY <1>2
  <2>2. Closes(d)
    BY <2>1 DEF ClosingInv, ClosingCall, Closes
  <2>3. pc[c] # "spawn"
    BY <2>2, <1>4 DEF ClosingInv, ClosingCall
  <2>. QED BY <2>1, <2>3 DEF ClosingInv, ClosedForGood
<1>. QED BY <1>3, <1>6, <1>7 DEF ClosingInv

\* The head of the queue gets the lock: it waits for a reply, starts a worker,
\* or ends at once because there is none.
LEMMA ClosingEnters ==
  ASSUME IInv, ClosingInv, NEW c \in Calls,
         EnterLive(c) \/ EnterAbsent(c) \/ EnterSpawn(c)
  PROVE  ClosingInv'
<1>1. /\ pc \in [Calls -> Pcs] /\ waiters \in [Locks -> Seq(Calls)] /\ Queue \in Seq(Calls)
      /\ outcome \in [Calls -> Outcomes] /\ method \in [Calls -> Methods \union {"none"}]
  BY DEF IInv, TypeInv, TypeOK, Locks, Queue
<1>2. /\ pc[c] = "daemon" /\ holder["daemon"] = NoCall /\ Queue # <<>> /\ Head(Queue) = c
      /\ UNCHANGED <<method, closed>> /\ Queue' = Tail(Queue)
  BY <1>1 DEF EnterLive, EnterAbsent, EnterSpawn, DaemonLockTaken, Granted, Queue, Locks
<1>3. \A d \in Calls : pc[d] \notin {"spawn", "reply", "stopping"}
  BY <1>2, SentinelAssumption DEF IInv, Discipline, LockInv
<1>4. /\ Len(Queue') = Len(Queue) - 1 /\ Len(Queue) \in Nat \ {0}
      /\ \A i \in 1 .. Len(Queue') : Queue'[i] = Queue[i + 1] /\ i + 1 \in 1 .. Len(Queue)
      /\ Queue[1] = c
  BY <1>1, <1>2, TailEntries
<1>5. PICK x \in {"reply", "spawn", "done"} :
        /\ pc' = [pc EXCEPT ![c] = x]
        /\ x = "spawn" => method[c] = "connect"
        /\ UNCHANGED proc
        /\ \A d \in Calls \ {c} : outcome'[d] = outcome[d]
        /\ x # "done" => outcome' = outcome
        /\ x = "done" => /\ ~Live(slot) /\ method[c] # "connect"
                         /\ outcome'[c] = "closed" => method[c] = "aclose"
  <2>1. CASE EnterLive(c)
    BY <1>1, <2>1 DEF EnterLive
  <2>2. CASE EnterAbsent(c)
    BY <1>1, <2>2 DEF EnterAbsent, Finish
  <2>3. CASE EnterSpawn(c)
    BY <1>1, <2>3 DEF EnterSpawn
  <2>. QED BY <2>1, <2>2, <2>3
<1>6. pc'[c] = x /\ \A d \in Calls \ {c} : pc'[d] = pc[d]
  BY <1>1, <1>5
\* Nobody behind an aclose is a connect, and who waits is behind the head.
<1>7. ASSUME NEW d \in Calls, pc'[d] = "daemon"
      PROVE  \E i \in 1 .. Len(Queue') : Queue'[i] = d
  <2>1. d # c /\ pc[d] = "daemon"
    BY <1>6, <1>7
  <2>2. PICK i \in 1 .. Len(Queue) : Queue[i] = d
    BY <2>1 DEF ClosingInv, ClosingCall
  <2>3. i - 1 \in 1 .. Len(Queue') /\ (i - 1) + 1 = i
    BY <1>4, <2>1, <2>2
  <2>. QED BY <1>4, <2>2, <2>3
<1>8. QueueInv'
  <2>1. \A i \in 1 .. Len(Queue') : pc'[Queue'[i]] # "idle"
    BY <1>1, <1>4, <1>6 DEF ClosingInv, QueueInv
  <2>2. ASSUME NEW i \in 1 .. Len(Queue'), NEW j \in 1 .. Len(Queue'),
               i < j, method[Queue'[i]] = "aclose"
        PROVE  method[Queue'[j]] # "connect"
    <3>1. i + 1 < j + 1
      BY <1>4, <2>2
    <3>. QED BY <1>4, <2>2, <3>1 DEF ClosingInv, QueueInv
  <2>. QED BY <1>2, <2>1, <2>2 DEF QueueInv
<1>9. ASSUME method[c] = "aclose", NEW d \in Calls, method[d] = "connect"
      PROVE  pc'[d] \notin {"daemon", "spawn"}
  <2>1. pc[d] # "spawn" /\ d # c /\ pc'[d] = pc[d]
    BY <1>3, <1>6, <1>9
  <2>2. ASSUME pc[d] = "daemon" PROVE FALSE
    <3>1. PICK i \in 1 .. Len(Queue) : Queue[i] = d
      BY <2>2 DEF ClosingInv, ClosingCall
    <3>2. 1 < i /\ 1 \in 1 .. Len(Queue)
      BY <1>4, <2>1, <3>1
    <3>. QED BY <1>4, <1>9, <3>1, <3>2 DEF ClosingInv, QueueInv
  <2>. QED BY <2>1, <2>2
<1>10. ASSUME NEW d \in Calls PROVE ClosingCall(d)'
  <2>1. ClosingCall(d)
    BY DEF ClosingInv
  <2>2. ASSUME Closes(d)', NEW e \in Calls, method[e] = "connect"
        PROVE  pc'[e] \notin {"daemon", "spawn"}
    <3>1. CASE d = c
      BY <1>2, <1>9, <2>2, <3>1 DEF Closes
    <3>2. CASE d # c
      <4>1. Closes(d)
        BY <1>2, <1>5, <1>6, <2>2, <3>2 DEF Closes
      <4>2. pc[e] \notin {"daemon", "spawn"}
        BY <2>1, <2>2, <4>1 DEF ClosingCall
      <4>. QED BY <1>2, <1>6, <4>2
    <3>. QED BY <3>1, <3>2
  <2>3. outcome'[d] = "closed" => method[d] = "aclose" /\ pc'[d] \in {"stopping", "done"}
    <3>1. CASE d = c
      BY <1>2, <1>5, <1>6, <2>1, <3>1 DEF ClosingCall
    <3>2. CASE d # c
      BY <1>5, <1>6, <2>1, <3>2 DEF ClosingCall
    <3>. QED BY <3>1, <3>2
  <2>. QED BY <1>2, <1>5, <1>6, <1>7, <2>1, <2>2, <2>3 DEF ClosingCall
<1>11. ClosedForGood'
  <2> SUFFICES ASSUME NEW d \in Calls, pc'[d] = "done", outcome'[d] = "closed",
                      NEW w \in Workers, proc[w] = "running"
               PROVE  FALSE
    BY <1>5 DEF ClosedForGood
  <2>1. CASE d = c
    BY <1>5, <1>6, <2>1, SentinelAssumption DEF IInv, Discipline, NoStrayWorker, Live
  <2>2. CASE d # c
    BY <1>5, <1>6, <2>2 DEF ClosingInv, ClosedForGood
  <2>. QED BY <2>1, <2>2
<1>. QED BY <1>8, <1>10, <1>11 DEF ClosingInv

\* A call joins the queue: it is let in while nothing is closed, or is none of
\* the calls that start a worker.
LEMMA ClosingJoins ==
  ASSUME IInv, ClosingInv, NEW c \in Calls, NEW m \in Methods,
         pc[c] = "idle" \/ (pc[c] = "operation" /\ method[c] = m),
         m = "connect" => ~closed, m = "aclose" => closed',
         closed => closed',
         method' = [method EXCEPT ![c] = m], UNCHANGED <<outcome, proc>>,
         pc' = [pc EXCEPT ![c] = "daemon"], Queue' = Append(Queue, c)
  PROVE  ClosingInv'
<1>1. /\ pc \in [Calls -> Pcs] /\ Queue \in Seq(Calls)
      /\ method \in [Calls -> Methods \union {"none"}]
  BY DEF IInv, TypeInv, TypeOK, Locks, Queue
<1>2. /\ pc'[c] = "daemon" /\ method'[c] = m
      /\ \A d \in Calls \ {c} : pc'[d] = pc[d] /\ method'[d] = method[d]
  BY <1>1
<1>3. /\ Len(Queue') = Len(Queue) + 1 /\ Len(Queue) \in Nat
      /\ \A i \in 1 .. Len(Queue) : Queue'[i] = Queue[i] /\ Queue[i] \in Calls
      /\ Queue'[Len(Queue) + 1] = c
  BY <1>1, AppendEntries
<1>4. \A d \in Calls : method[d] = "aclose" => closed
  BY DEF ClosingInv, ClosingCall
<1>5. pc[c] = "operation" => m \notin {"connect", "aclose"}
  BY <1>1 DEF ClosingInv, ClosingCall
<1>6. \A i \in 1 .. Len(Queue) : method'[Queue[i]] = method[Queue[i]]
  BY <1>2, <1>3 DEF ClosingInv, QueueInv
<1>7. QueueInv'
  <2>1. \A i \in 1 .. Len(Queue') : pc'[Queue'[i]] # "idle"
    BY <1>2, <1>3 DEF ClosingInv, QueueInv
  <2>2. ASSUME NEW i \in 1 .. Len(Queue'), NEW j \in 1 .. Len(Queue'),
               i < j, method'[Queue'[i]] = "aclose"
        PROVE  method'[Queue'[j]] # "connect"
    <3>1. i \in 1 .. Len(Queue) /\ method[Queue[i]] = "aclose"
      BY <1>3, <1>6, <2>2
    <3>2. CASE j \in 1 .. Len(Queue)
      BY <1>3, <1>6, <2>2, <3>1, <3>2 DEF ClosingInv, QueueInv
    <3>3. CASE j = Len(Queue) + 1
      BY <1>2, <1>3, <1>4, <3>1, <3>3
    <3>. QED BY <1>3, <3>2, <3>3
  <2>. QED BY <2>1, <2>2 DEF QueueInv
<1>8. ASSUME NEW d \in Calls, pc'[d] = "daemon"
      PROVE  \E i \in 1 .. Len(Queue') : Queue'[i] = d
  <2>1. CASE d = c
    BY <1>3, <2>1
  <2>2. CASE d # c
    <3>1. PICK i \in 1 .. Len(Queue) : Queue[i] = d
      BY <1>2, <1>8, <2>2 DEF ClosingInv, ClosingCall
    <3>. QED BY <1>3, <3>1
  <2>. QED BY <2>1, <2>2
<1>9. ASSUME NEW d \in Calls PROVE ClosingCall(d)'
  <2>1. ClosingCall(d) /\ ClosingCall(c)
    BY DEF ClosingInv
  <2>2. outcome[d] = "closed" => d # c
    BY <2>1 DEF ClosingCall
  <2>3. Closes(d)' => Closes(d) /\ d # c
    BY <1>2, <2>2 DEF Closes
  <2>4. Closes(d)' => \A e \in Calls : method'[e] = "connect" => pc'[e] \notin {"daemon", "spawn"}
    BY <1>2, <1>4, <1>5, <2>1, <2>3 DEF ClosingCall, Closes
  <2>. QED BY <1>2, <1>4, <1>8, <2>1, <2>2, <2>4 DEF ClosingCall
<1>10. ClosedForGood'
  BY <1>2 DEF ClosingInv, ClosedForGood
<1>. QED BY <1>7, <1>9, <1>10 DEF ClosingInv

\* A call leaves the queue, or ends without having been in it.
LEMMA ClosingLeaves ==
  ASSUME IInv, ClosingInv, NEW c \in Calls,
         pc' = [pc EXCEPT ![c] = "done"], outcome'[c] # "closed",
         \A d \in Calls \ {c} : outcome'[d] = outcome[d],
         \/ UNCHANGED method /\ pc[c] \in Locks
         \/ \E m \in Methods : /\ method' = [method EXCEPT ![c] = m]
                               /\ m = "aclose" => closed
                               /\ pc[c] = "idle",
         UNCHANGED <<closed, proc>>,
         Remains(Queue', Queue, c)
  PROVE  ClosingInv'
<1>1. /\ pc \in [Calls -> Pcs] /\ Queue \in Seq(Calls)
      /\ method \in [Calls -> Methods \union {"none"}]
  BY DEF IInv, TypeInv, TypeOK, Locks, Queue
<1>2. /\ pc'[c] = "done" /\ \A d \in Calls \ {c} : pc'[d] = pc[d] /\ method'[d] = method[d]
      /\ method'[c] = "aclose" => closed
  BY <1>1 DEF ClosingInv, ClosingCall
<1>3. Remains(Queue', Queue, c)
  OBVIOUS
<1>4. \A i \in 1 .. Len(Queue) : pc[Queue[i]] # "idle" /\ Queue[i] \in Calls
  BY <1>1 DEF ClosingInv, QueueInv
<1>5. \A i \in 1 .. Len(Queue) : method'[Queue[i]] = method[Queue[i]]
  BY <1>1, <1>2, <1>4 DEF Locks
<1>6. QueueInv'
  <2>1. \A i \in 1 .. Len(Queue') : pc'[Queue'[i]] # "idle"
    BY <1>2, <1>3, <1>4 DEF Remains
  <2>2. ASSUME NEW i \in 1 .. Len(Queue'), NEW j \in 1 .. Len(Queue'),
               i < j, method'[Queue'[i]] = "aclose"
        PROVE  method'[Queue'[j]] # "connect"
    <3>1. PICK n \in 1 .. Len(Queue), p \in 1 .. Len(Queue) :
            n < p /\ Queue'[i] = Queue[n] /\ Queue'[j] = Queue[p]
      BY <1>3, <2>2 DEF Remains
    <3>. QED BY <1>5, <2>2, <3>1 DEF ClosingInv, QueueInv
  <2>. QED BY <2>1, <2>2 DEF QueueInv
<1>7. ASSUME NEW d \in Calls PROVE ClosingCall(d)'
  <2>1. ClosingCall(d)
    BY DEF ClosingInv
  <2>2. Closes(d)' => Closes(d) /\ d # c
    BY <1>2 DEF Closes
  <2>3. Closes(d)' => \A e \in Calls : method'[e] = "connect" => pc'[e] \notin {"daemon", "spawn"}
    BY <1>2, <2>1, <2>2 DEF ClosingCall
  <2>4. pc'[d] = "daemon" => \E i \in 1 .. Len(Queue') : Queue'[i] = d
    BY <1>2, <1>3, <2>1 DEF ClosingCall, Remains
  <2>. QED BY <1>2, <2>1, <2>3, <2>4 DEF ClosingCall
<1>8. ClosedForGood'
  BY <1>2 DEF ClosingInv, ClosedForGood
<1>. QED BY <1>6, <1>7, <1>8 DEF ClosingInv

\* What a call does on its way, whatever comes of its command.
LEMMA ClosingProgress ==
  ASSUME IInv, ClosingInv, NEW c \in Calls, Progress(c)
  PROVE  ClosingInv'
<1>1. /\ pc \in [Calls -> Pcs] /\ outcome \in [Calls -> Outcomes]
      /\ method \in [Calls -> Methods \union {"none"}] /\ proc \in [Workers -> ProcStates]
      /\ waiters \in [Locks -> Seq(Calls)]
  BY DEF IInv, TypeInv, TypeOK
<1>2. CASE TakeOperationLock(c)
  <2>1. /\ pc[c] = "operation" /\ method[c] \in {"account", "market_request"}
        /\ Queue' = Append(Queue, c)
    BY <1>1, <1>2 DEF TakeOperationLock, Granted, Queue, Locks, ClosingInv, ClosingCall
  <2>2. method[c] \in Methods /\ method' = [method EXCEPT ![c] = method[c]]
    BY <1>1, <1>2, <2>1 DEF TakeOperationLock, Methods
  <2>. QED BY <1>2, <2>1, <2>2, ClosingJoins DEF TakeOperationLock, workerVars
<1>3. CASE EnterLive(c) \/ EnterAbsent(c) \/ EnterSpawn(c)
  BY <1>3, ClosingEnters
<1>4. ASSUME NEW w \in Workers, Spawned(c, w) PROVE ClosingInv'
  <2>1. method[c] = "connect" /\ pc[c] = "spawn" /\ outcome[c] # "closed"
    BY <1>4 DEF Spawned, ClosingInv, ClosingCall
  <2>. QED BY <1>4, <2>1, ClosingGoesOn DEF Spawned, lockVars
<1>5. CASE SpawnFails(c)
  BY <1>1, <1>5, ClosingGoesOn DEF SpawnFails, Finish, workerVars
<1>6. CASE ReadStatusThenSend(c)
  <2>1. outcome[c] # "closed"
    BY <1>6 DEF ReadStatusThenSend, Read, ClosingInv, ClosingCall
  <2>2. CASE Live(peer[c])
    <3>1. pc' = [pc EXCEPT ![c] = "reply"] /\ pc[c] = "reply"
      BY <1>1, <1>6, <2>2 DEF ReadStatusThenSend, Read
    <3>. QED BY <1>6, <2>1, <2>2, <3>1, ClosingGoesOn DEF ReadStatusThenSend, Read
  <2>3. CASE ~Live(peer[c])
    BY <1>1, <1>6, <2>3, ClosingGoesOn DEF ReadStatusThenSend, Read, Finish
  <2>. QED BY <2>2, <2>3
<1>7. CASE ReadStatusThenRefuse(c) \/ ReadAnswer(c)
  BY <1>1, <1>7, ClosingGoesOn DEF ReadStatusThenRefuse, ReadAnswer, Read, Finish
<1>8. CASE ReadShutdown(c)
  BY <1>1, <1>8, ClosingGoesOn DEF ReadShutdown, Read, Terminated
<1>9. CASE ReadMismatch(c) \/ NoAnswer(c)
  <2>1. /\ pc[c] = "reply" /\ Retire(c, FailureOf(c)) /\ UNCHANGED <<method, waiters, closed>>
    BY <1>9 DEF ReadMismatch, NoAnswer, Read
  <2>. QED BY <1>1, <2>1, ClosingGoesOn DEF Retire, Terminated, FailureOf
<1>10. CASE Stopped(c)
  <2>1. /\ pc[c] = "stopping" /\ proc[peer[c]] = "reaped" /\ UNCHANGED <<method, waiters, closed, proc>>
        /\ pc' = [pc EXCEPT ![c] = "done"] /\ outcome' = [outcome EXCEPT ![c] = outcome[c]]
    BY <1>10 DEF Stopped, Finish, workerVars
  <2>2. slot = NoWorker \/ slot = peer[c]
    BY <2>1 DEF IInv, Discipline, PeerInv
  <2>3. \A w \in Workers : proc[w] # "running"
    BY <2>1, <2>2, SentinelAssumption DEF IInv, Discipline, NoStrayWorker
  <2>4. outcome'[c] = "closed" => method[c] = "aclose"
    BY <1>1, <2>1 DEF ClosingInv, ClosingCall
  <2>. QED BY <1>1, <2>1, <2>3, <2>4, ClosingGoesOn
<1>. QED BY <1>2, <1>3, <1>4, <1>5, <1>6, <1>7, <1>8, <1>9, <1>10 DEF Progress

LEMMA ClosingNext == IInv /\ ClosingInv /\ [Next]_vars => ClosingInv'
<1> SUFFICES ASSUME IInv, ClosingInv, [Next]_vars PROVE ClosingInv'
  OBVIOUS
<1>1. /\ pc \in [Calls -> Pcs] /\ outcome \in [Calls -> Outcomes]
      /\ method \in [Calls -> Methods \union {"none"}] /\ proc \in [Workers -> ProcStates]
      /\ waiters \in [Locks -> Seq(Calls)]
  BY DEF IInv, TypeInv, TypeOK
<1>2. ASSUME NEW c \in Calls, NEW m \in Methods, Begin(c, m) PROVE ClosingInv'
  <2>1. CASE FirstLock(m) = "daemon"
    <3>1. Queue' = Append(Queue, c) /\ pc' = [pc EXCEPT ![c] = "daemon"]
      BY <1>1, <1>2, <2>1 DEF Begin, Enqueue, Queue, Locks
    <3>. QED BY <1>2, <3>1, ClosingJoins DEF Begin, workerVars
  <2>2. CASE FirstLock(m) = "operation"
    <3>1. /\ Queue' = Queue /\ pc[c] = "idle" /\ pc' = [pc EXCEPT ![c] = "operation"]
          /\ m \in {"account", "market_request"} /\ method' = [method EXCEPT ![c] = m]
          /\ UNCHANGED <<outcome, proc, closed>>
      <4>1. m \in {"account", "market_request"}
        BY <2>2 DEF FirstLock
      <4>2. waiters' = [waiters EXCEPT !["operation"] = Append(@, c)]
        BY <1>2, <2>2 DEF Begin, Enqueue
      <4>3. Queue' = Queue
        BY <1>1, <4>2 DEF Queue
      <4>4. closed' = closed
        BY <1>2, <4>1 DEF Begin, IInv, TypeInv, TypeOK
      <4>. QED BY <1>2, <2>2, <4>1, <4>3, <4>4 DEF Begin, workerVars
    <3>2. \A i \in 1 .. Len(Queue) : Queue[i] \in Calls \ {c}
      BY <1>1, <3>1 DEF ClosingInv, QueueInv, Queue, Locks
    <3>3. /\ pc'[c] = "operation" /\ method'[c] = m
          /\ \A d \in Calls \ {c} : pc'[d] = pc[d] /\ method'[d] = method[d]
      BY <1>1, <3>1
    <3>4. QueueInv'
      BY <3>1, <3>2, <3>3 DEF ClosingInv, QueueInv
    <3>5. ASSUME NEW d \in Calls PROVE ClosingCall(d)'
      <4>1. ClosingCall(d) /\ ClosingCall(c)
        BY DEF ClosingInv
      <4>2. Closes(d)' => Closes(d)
        BY <3>1, <3>3 DEF Closes
      <4>. QED BY <3>1, <3>3, <4>1, <4>2 DEF ClosingCall
    <3>6. ClosedForGood'
      BY <3>1, <3>3 DEF ClosingInv, ClosedForGood
    <3>. QED BY <3>4, <3>5, <3>6 DEF ClosingInv
  <2>. QED BY <2>1, <2>2 DEF FirstLock
<1>3. ASSUME NEW c \in Calls, NEW m \in Methods, BeginClosed(c, m) PROVE ClosingInv'
  <2>1. Queue' = Queue
    BY <1>3 DEF BeginClosed, lockVars, Queue
  <2>2. Remains(Queue', Queue, c)
    BY <2>1 DEF Remains
  <2>. QED BY <1>1, <1>3, <2>2, ClosingLeaves DEF BeginClosed, workerVars
<1>4. ASSUME NEW c \in Calls, NEW l \in Locks, CancelWaiting(c, l) PROVE ClosingInv'
  <2>1. /\ pc[c] \in Locks /\ pc' = [pc EXCEPT ![c] = "done"]
        /\ outcome' = [outcome EXCEPT ![c] = "cancelled"]
        /\ UNCHANGED <<method, closed, proc>>
    BY <1>4 DEF CancelWaiting, Finish, workerVars
  <2>2. Remains(Queue', Queue, c)
    <3>1. PICK k \in 1 .. Len(waiters[l]) :
            /\ waiters[l][k] = c
            /\ waiters' = [waiters EXCEPT ![l] = SubSeq(@, 1, k - 1) \o SubSeq(@, k + 1, Len(@))]
      BY <1>4 DEF CancelWaiting
    <3>2. CASE l = "daemon"
      <4>1. /\ Queue \in Seq(Calls) /\ k \in 1 .. Len(Queue) /\ Queue[k] = c
            /\ Queue' = SubSeq(Queue, 1, k - 1) \o SubSeq(Queue, k + 1, Len(Queue))
        BY <1>1, <3>1, <3>2 DEF Queue
      <4>. QED BY <4>1, RemovalRemains
    <3>3. CASE l # "daemon"
      <4>1. Queue' = Queue
        BY <1>1, <3>1, <3>3 DEF Queue, Locks
      <4>. QED BY <4>1 DEF Remains
    <3>. QED BY <3>2, <3>3
  <2>. QED BY <1>1, <2>1, <2>2, ClosingLeaves
<1>5. ASSUME NEW c \in Calls, CancelSpawn(c) \/ CancelReply(c) \/ CancelStopping(c)
      PROVE  ClosingInv'
  <2>1. PICK x \in {"stopping", "done"} :
          /\ pc[c] \in {"spawn", "reply", "stopping"} /\ pc' = [pc EXCEPT ![c] = x]
          /\ outcome' = [outcome EXCEPT ![c] = "cancelled"]
          /\ UNCHANGED <<method, waiters, closed>>
          /\ \A w \in Workers : proc'[w] = "running" => proc[w] = "running"
    BY <1>1, <1>5 DEF CancelSpawn, CancelReply, CancelStopping, Finish, Retire, Terminated,
       workerVars
  <2>. QED BY <1>1, <2>1, ClosingGoesOn
<1>6. ASSUME UNCHANGED <<callVars, waiters, closed>>,
             \A w \in Workers : proc'[w] = "running" => proc[w] = "running"
      PROVE  ClosingInv'
  BY <1>6 DEF callVars, ClosingInv, QueueInv, ClosingCall, ClosedForGood, Queue, Closes
<1>7. ASSUME NEW w \in Workers, WorkerStep(w) PROVE ClosingInv'
  BY <1>1, <1>6, <1>7 DEF WorkerStep, WorkerAnswer, WorkerFlow, WorkerExits, Reaped, lockVars
<1>8. CASE UNCHANGED vars
  BY <1>6, <1>8 DEF vars, workerVars, lockVars
<1>. QED BY <1>2, <1>3, <1>4, <1>5, <1>7, <1>8, ClosingProgress DEF Next, CallStep, Cancel

\* Once aclose has returned no daemon runs, and none is started by a connect that
\* was waiting for the lock (aclose and connect of broker.py).
THEOREM StaysClosed == Spec => []ClosedForGood
<1>1. Init => ClosingInv
  BY DEF Init, ClosingInv, QueueInv, ClosingCall, ClosedForGood, Queue, Closes, Locks
<1>2. ClosingInv => ClosedForGood
  BY DEF ClosingInv
<1>. QED BY <1>1, <1>2, IInvariant, ClosingNext, PTL DEF Spec

-----------------------------------------------------------------------------
(* The contract of the callers.  The command that is a call's own is written   *)
(* at most once, to the process the call is left with, so there is one answer  *)
(* to it at most: in the pipe of that process, or consumed by the call.        *)

Own(c)      == [call |-> c, action |-> ActionOf[method[c]]]
Asked(c, w) == inbox[w] # <<>> /\ Head(inbox[w]) = Own(c)
Sends(c, w) == outbox[w] # <<>> /\ Head(outbox[w]).cmd = Own(c)
Has(c)      == got[c] # NoFrame /\ got[c].cmd = Own(c)

PipeInv(w) ==
  /\ proc[w] \in {"exited", "reaped"} => inbox[w] = <<>>
  /\ inbox[w] # <<>> => pc[Head(inbox[w]).call] # "idle"
  /\ outbox[w] # <<>> => pc[Head(outbox[w]).cmd.call] # "idle"

\* Nobody is left who could carry out the command of a call that has failed.
OwnInv(c) ==
  /\ pc[c] \in {"idle", "operation", "daemon", "spawn"} => sent[c] = "none"
  /\ Has(c) => sent[c] = ActionOf[method[c]]
  /\ \A w \in Workers : Asked(c, w) \/ Sends(c, w) =>
       /\ w = peer[c] /\ sent[c] = ActionOf[method[c]] /\ ~Has(c)
       /\ Asked(c, w) /\ pc[c] = "done" => outcome[c] = "cancelled"
  /\ pc[c] = "done" /\ outcome[c] = "answered" => Has(c)

CommandInv == (\A w \in Workers : PipeInv(w)) /\ (\A c \in Calls : OwnInv(c))

\* The types the steps below rest on.
LEMMA CommandTypes ==
  ASSUME IInv
  PROVE  /\ pc \in [Calls -> Pcs] /\ outcome \in [Calls -> Outcomes]
         /\ method \in [Calls -> Methods \union {"none"}]
         /\ peer \in [Calls -> Workers \union {NoWorker}]
         /\ sent \in [Calls -> Actions \union {"none"}]
         /\ got \in [Calls -> Frame \union {NoFrame}]
         /\ proc \in [Workers -> ProcStates]
         /\ inbox \in [Workers -> Seq(Command)] /\ outbox \in [Workers -> Seq(Frame)]
BY DEF IInv, TypeInv, TypeOK

\* What is at the head of a pipe is a command, or an answer to one.
LEMMA PipeHeads ==
  ASSUME IInv, NEW w \in Workers
  PROVE  /\ inbox[w] # <<>> => Head(inbox[w]) \in Command /\ Head(inbox[w]).call \in Calls
         /\ outbox[w] # <<>> => /\ Head(outbox[w]) \in Frame /\ Head(outbox[w]).cmd \in Command
                                /\ Head(outbox[w]).cmd.call \in Calls
<1>1. inbox[w] \in Seq(Command) /\ outbox[w] \in Seq(Frame)
  BY CommandTypes
<1>2. /\ inbox[w] # <<>> => Head(inbox[w]) \in Command
      /\ outbox[w] # <<>> => Head(outbox[w]) \in Frame
  BY <1>1, HeadType
<1>. QED BY <1>2 DEF Command, Frame

\* A call that has begun has a command of its own.
LEMMA OwnIsCommand ==
  ASSUME IInv, NEW c \in Calls, pc[c] # "idle"
  PROVE  ActionOf[method[c]] \in Actions /\ ActionOf[method[c]] # "none"
BY FirstActionType DEF IInv, TypeInv, PeerType, Actions, StatusActions, ResultActions

\* A call goes on, or begins, without touching a pipe.
LEMMA CommandStill ==
  ASSUME IInv, CommandInv, NEW c \in Calls, NEW x \in Pcs \ {"idle"},
         pc' = [pc EXCEPT ![c] = x], UNCHANGED <<inbox, outbox, sent, got, peer>>,
         \A w \in Workers : proc'[w] \in {"exited", "reaped"} => proc[w] \in {"exited", "reaped"},
         \/ method' = method
         \/ pc[c] = "idle" /\ \E m \in Methods : method' = [method EXCEPT ![c] = m],
         x \in {"operation", "daemon", "spawn"} => sent[c] = "none",
         \A d \in Calls \ {c} : outcome'[d] = outcome[d],
         x = "done" => \/ outcome'[c] = "cancelled"
                       \/ outcome'[c] # "answered" /\ \A w \in Workers : ~Asked(c, w)
  PROVE  CommandInv'
<1>1. pc'[c] = x /\ \A d \in Calls \ {c} : pc'[d] = pc[d] /\ method'[d] = method[d]
  BY CommandTypes
<1>2. pc[c] = "idle" => got[c] = NoFrame
  BY DEF IInv, Discipline, OpenInv
<1>3. ASSUME NEW w \in Workers PROVE PipeInv(w)'
  BY <1>1, PipeHeads DEF CommandInv, PipeInv
<1>4. ASSUME NEW d \in Calls \ {c} PROVE OwnInv(d)'
  BY <1>1 DEF CommandInv, OwnInv, Asked, Sends, Has, Own
<1>5. OwnInv(c)'
  <2>1. CASE pc[c] = "idle"
    <3>1. ASSUME NEW w \in Workers PROVE ~Asked(c, w)' /\ ~Sends(c, w)'
      BY <2>1 DEF CommandInv, PipeInv, Asked, Sends, Own
    <3>2. ~Has(c)'
      BY <1>2, <2>1 DEF Has
    <3>3. x = "done" => outcome'[c] # "answered"
      OBVIOUS
    <3>. QED BY <1>1, <2>1, <3>1, <3>2, <3>3 DEF CommandInv, OwnInv
  <2>2. CASE method' = method
    <3>1. /\ Has(c)' <=> Has(c)
          /\ \A w \in Workers : (Asked(c, w)' <=> Asked(c, w)) /\ (Sends(c, w)' <=> Sends(c, w))
      BY <2>2 DEF Has, Asked, Sends, Own
    <3>2. OwnInv(c)
      BY DEF CommandInv
    <3>. QED BY <1>1, <2>2, <3>1, <3>2 DEF OwnInv
  <2>. QED BY <2>1, <2>2
<1>. QED BY <1>3, <1>4, <1>5 DEF CommandInv

\* A call consumes the frame that was in the pipe.
LEMMA CommandRead ==
  ASSUME IInv, CommandInv, NEW c \in Calls, NEW x \in {"stopping", "done"}, Read(c),
         pc' = [pc EXCEPT ![c] = x], UNCHANGED <<inbox, sent, peer>>,
         \A w \in Workers : proc'[w] \in {"exited", "reaped"} => proc[w] \in {"exited", "reaped"},
         \A d \in Calls \ {c} : outcome'[d] = outcome[d],
         x = "done" /\ outcome'[c] = "answered" => sent[c] = ActionOf[method[c]]
  PROVE  CommandInv'
<1>1. ReadFacts(c) /\ method' = method
  BY ReadIsOwn DEF Read
<1>2. pc'[c] = x /\ \A d \in Calls \ {c} : pc'[d] = pc[d] /\ got'[d] = got[d]
  BY <1>1, CommandTypes DEF ReadFacts
<1>3. \A w \in Workers : outbox'[w] = outbox[w] \/ outbox'[w] = <<>>
  BY <1>1, CommandTypes DEF ReadFacts
<1>4. outbox'[slot] = <<>> /\ got'[c] = Head(outbox[slot]) /\ got'[c] # NoFrame
  BY <1>1, CommandTypes, FrameAssumption DEF ReadFacts
<1>5. ASSUME NEW w \in Workers PROVE PipeInv(w)'
  BY <1>2, <1>3, PipeHeads DEF CommandInv, PipeInv
<1>6. ASSUME NEW d \in Calls \ {c} PROVE OwnInv(d)'
  <2>1. OwnInv(d)
    BY DEF CommandInv
  <2>2. /\ Has(d)' <=> Has(d)
        /\ \A w \in Workers : (Asked(d, w)' <=> Asked(d, w)) /\ (Sends(d, w)' => Sends(d, w))
    BY <1>1, <1>2, <1>3 DEF Has, Asked, Sends, Own
  <2>. QED BY <1>1, <1>2, <2>1, <2>2 DEF OwnInv
<1>7. OwnInv(c)'
  <2>1. ASSUME NEW w \in Workers PROVE ~Asked(c, w)' /\ ~Sends(c, w)'
    <3>1. CASE w = slot
      BY <1>1, <1>4, <3>1 DEF ReadFacts, Asked, Sends
    <3>2. CASE w # slot
      BY <1>1, <1>3, <3>2 DEF CommandInv, OwnInv, ReadFacts, Asked, Sends, Own
    <3>. QED BY <3>1, <3>2
  <2>2. Has(c)' <=> sent[c] = ActionOf[method[c]]
    BY <1>1, <1>4 DEF Has, Own, ReadFacts
  <2>3. /\ pc'[c] \notin {"idle", "operation", "daemon", "spawn"}
        /\ Has(c)' => sent'[c] = ActionOf[method'[c]]
        /\ pc'[c] = "done" /\ outcome'[c] = "answered" => Has(c)'
    <3>1. sent'[c] = ActionOf[method'[c]] <=> sent[c] = ActionOf[method[c]]
      BY <1>1
    <3>. QED BY <1>2, <2>2, <3>1
  <2>. QED BY <2>1, <2>3 DEF OwnInv
<1>. QED BY <1>5, <1>6, <1>7 DEF CommandInv

\* A call writes a command, its own or the question for the status, to a worker
\* with nothing in its pipes; it may have read the answer to the question before.
LEMMA CommandWrite ==
  ASSUME IInv, CommandInv, NEW c \in Calls, NEW w \in Workers, NEW a \in Actions,
         Write(c, w, a), inbox[w] = <<>>, proc'[w] \notin {"exited", "reaped"},
         pc[c] # "idle", pc' = [pc EXCEPT ![c] = "reply"],
         sent[c] # ActionOf[method[c]],
         UNCHANGED <<method, outcome>>,
         \A v \in Workers : proc'[v] \in {"exited", "reaped"} => proc[v] \in {"exited", "reaped"},
         \A v \in Workers : outbox'[v] = outbox[v] \/ outbox'[v] = <<>>,
         \A d \in Calls \ {c} : got'[d] = got[d], ~Has(c)'
  PROVE  CommandInv'
<1>1. /\ inbox' = inbox \/ inbox' = [inbox EXCEPT ![w] = <<[call |-> c, action |-> a]>>]
      /\ sent' = [sent EXCEPT ![c] = a] /\ peer' = [peer EXCEPT ![c] = w]
  BY WriteOnEmpty DEF IInv, TypeInv
<1>2. /\ \A v \in Workers \ {w} : inbox'[v] = inbox[v]
      /\ \/ inbox'[w] = <<>>
         \/ inbox'[w] # <<>> /\ Head(inbox'[w]) = [call |-> c, action |-> a]
  BY <1>1, CommandTypes
<1>3. /\ pc'[c] = "reply" /\ sent'[c] = a /\ peer'[c] = w
      /\ \A d \in Calls \ {c} : pc'[d] = pc[d] /\ sent'[d] = sent[d] /\ peer'[d] = peer[d]
  BY <1>1, CommandTypes
<1>4. ASSUME NEW v \in Workers PROVE PipeInv(v)'
  <2>1. outbox'[v] # <<>> => pc'[Head(outbox'[v]).cmd.call] # "idle"
    BY <1>3, PipeHeads DEF CommandInv, PipeInv
  <2>2. CASE v = w
    BY <1>2, <1>3, <2>1, <2>2 DEF PipeInv
  <2>3. CASE v # w
    BY <1>2, <1>3, <2>1, <2>3, PipeHeads DEF CommandInv, PipeInv
  <2>. QED BY <2>2, <2>3
<1>5. ASSUME NEW d \in Calls \ {c} PROVE OwnInv(d)'
  <2>1. OwnInv(d)
    BY DEF CommandInv
  <2>2. Has(d)' <=> Has(d)
    BY DEF Has, Own
  <2>3. ASSUME NEW v \in Workers PROVE (Asked(d, v)' => Asked(d, v)) /\ (Sends(d, v)' => Sends(d, v))
    BY <1>2 DEF Asked, Sends, Own
  <2>. QED BY <1>3, <2>1, <2>2, <2>3 DEF OwnInv
<1>6. OwnInv(c)'
  <2>1. \A v \in Workers : ~Asked(c, v) /\ ~Sends(c, v)
    BY DEF CommandInv, OwnInv
  <2>2. ASSUME NEW v \in Workers PROVE ~Sends(c, v)' /\ (Asked(c, v)' => v = w /\ a = ActionOf[method[c]])
    BY <1>2, <2>1 DEF Asked, Sends, Own
  <2>. QED BY <1>3, <2>2 DEF OwnInv
<1>. QED BY <1>4, <1>5, <1>6 DEF CommandInv

\* What is written to a process that has exited is in no pipe.
LEMMA CommandLost ==
  ASSUME IInv, CommandInv, NEW c \in Calls, NEW w \in Workers, NEW a \in Actions,
         inbox' = inbox, sent' = [sent EXCEPT ![c] = a], peer' = [peer EXCEPT ![c] = w],
         pc[c] # "idle", pc' = [pc EXCEPT ![c] = "reply"],
         sent[c] # ActionOf[method[c]],
         UNCHANGED <<method, outcome, proc>>,
         \A v \in Workers : outbox'[v] = outbox[v] \/ outbox'[v] = <<>>,
         \A d \in Calls \ {c} : got'[d] = got[d], ~Has(c)'
  PROVE  CommandInv'
<1>1. /\ pc'[c] = "reply" /\ sent'[c] = a /\ peer'[c] = w
      /\ \A d \in Calls \ {c} : pc'[d] = pc[d] /\ sent'[d] = sent[d] /\ peer'[d] = peer[d]
  BY CommandTypes
<1>2. ASSUME NEW v \in Workers PROVE PipeInv(v)'
  BY <1>1, PipeHeads DEF CommandInv, PipeInv
<1>3. ASSUME NEW d \in Calls \ {c} PROVE OwnInv(d)'
  <2>1. OwnInv(d)
    BY DEF CommandInv
  <2>2. /\ Has(d)' <=> Has(d)
        /\ \A v \in Workers : (Asked(d, v)' <=> Asked(d, v)) /\ (Sends(d, v)' => Sends(d, v))
    BY DEF Has, Asked, Sends, Own
  <2>. QED BY <1>1, <2>1, <2>2 DEF OwnInv
<1>4. OwnInv(c)'
  <2>1. \A v \in Workers : ~Asked(c, v)' /\ ~Sends(c, v)'
    BY DEF CommandInv, OwnInv, Asked, Sends, Own
  <2>. QED BY <1>1, <2>1 DEF OwnInv
<1>. QED BY <1>2, <1>3, <1>4 DEF CommandInv

\* A worker carries out a command.
LEMMA CommandAnswered ==
  ASSUME IInv, CommandInv, NEW w \in Workers, WorkerAnswer(w)
  PROVE  /\ CommandInv'
         /\ inbox[w] # <<>> /\ outbox[w] = <<>> /\ inbox'[w] = <<>> /\ outbox'[w] # <<>>
         /\ \A v \in Workers \ {w} : inbox'[v] = inbox[v] /\ outbox'[v] = outbox[v]
         /\ Head(outbox'[w]).cmd = Head(inbox[w])
<1>1. /\ inbox[w] \in Seq(Command) /\ outbox[w] \in Seq(Frame) /\ inbox[w] # <<>>
      /\ Len(inbox[w]) + Len(outbox[w]) <= 1
  BY CommandTypes DEF WorkerAnswer, IInv, Discipline, SingleInv
<1>2. Tail(inbox[w]) = <<>> /\ outbox[w] = <<>>
  <2>1. /\ Len(inbox[w]) >= 1 /\ Len(Tail(inbox[w])) = Len(inbox[w]) - 1
        /\ Tail(inbox[w]) \in Seq(Command)
        /\ Len(inbox[w]) \in Nat /\ Len(outbox[w]) \in Nat
    BY <1>1, HeadType
  <2>2. Len(inbox[w]) = 1 /\ Len(outbox[w]) = 0
    BY ONLY <1>1, <2>1, LenOne
  <2>3. Len(Tail(inbox[w])) = 0
    BY <2>1, <2>2
  <2>. QED BY <1>1, <2>1, <2>2, <2>3, LenZero
<1>a. PICK s \in AuthAfter(Head(inbox[w]).action, auth[w]), k \in KindsOf(Head(inbox[w]).action) :
        outbox' = [outbox EXCEPT ![w] = Append(@, [cmd |-> Head(inbox[w]), kind |-> k, state |-> s])]
  BY DEF WorkerAnswer
<1> DEFINE f == [cmd |-> Head(inbox[w]), kind |-> k, state |-> s]
<1>3. /\ f.cmd = Head(inbox[w])
      /\ inbox' = [inbox EXCEPT ![w] = Tail(@)]
      /\ UNCHANGED <<callVars, lockVars, slot, closed, proc>>
  BY DEF WorkerAnswer
<1>4. outbox' = [outbox EXCEPT ![w] = <<f>>] /\ inbox' = [inbox EXCEPT ![w] = <<>>]
  <2>1. inbox' = [inbox EXCEPT ![w] = <<>>]
    BY <1>2, <1>3
  <2>2. Append(outbox[w], f) = <<f>>
    BY <1>2
  <2>. QED BY <1>a, <2>1, <2>2
<1> HIDE DEF f
<1>5. /\ inbox'[w] = <<>> /\ outbox'[w] # <<>> /\ Head(outbox'[w]) = f
      /\ \A v \in Workers \ {w} : inbox'[v] = inbox[v] /\ outbox'[v] = outbox[v]
  BY <1>4, CommandTypes
<1>6. ASSUME NEW v \in Workers PROVE PipeInv(v)'
  BY <1>1, <1>3, <1>5 DEF CommandInv, PipeInv, callVars
<1>7. ASSUME NEW c \in Calls PROVE OwnInv(c)'
  <2>1. OwnInv(c) /\ UNCHANGED <<method, pc, outcome, peer, sent, got>>
    BY <1>3 DEF CommandInv, callVars
  <2>2. Has(c)' <=> Has(c)
    BY <2>1 DEF Has, Own
  <2>3. ASSUME NEW v \in Workers
        PROVE  (Asked(c, v)' => Asked(c, v)) /\ (Sends(c, v)' => Sends(c, v) \/ Asked(c, v))
    BY <1>1, <1>3, <1>5, <2>1 DEF Asked, Sends, Own
  <2>. QED BY <2>1, <2>2, <2>3 DEF OwnInv
<1>. QED BY <1>1, <1>2, <1>3, <1>5, <1>6, <1>7 DEF CommandInv

\* A worker changes without answering.
LEMMA CommandIdle ==
  ASSUME IInv, CommandInv, UNCHANGED <<callVars, outbox>>,
         \A w \in Workers : inbox'[w] = inbox[w] \/ inbox'[w] = <<>>,
         \A w \in Workers : proc'[w] \in {"exited", "reaped"} =>
           proc[w] \in {"exited", "reaped"} \/ inbox'[w] = <<>>
  PROVE  CommandInv'
<1>1. ASSUME NEW w \in Workers PROVE PipeInv(w)'
  BY DEF CommandInv, PipeInv, callVars
<1>2. ASSUME NEW c \in Calls PROVE OwnInv(c)'
  <2>1. OwnInv(c) /\ UNCHANGED <<method, pc, outcome, peer, sent, got>>
    BY DEF CommandInv, callVars
  <2>2. /\ Has(c)' <=> Has(c)
        /\ \A v \in Workers : (Asked(c, v)' => Asked(c, v)) /\ (Sends(c, v)' <=> Sends(c, v))
    BY <2>1 DEF Has, Asked, Sends, Own, callVars
  <2>. QED BY <2>1, <2>2 DEF OwnInv
<1>. QED BY <1>1, <1>2 DEF CommandInv

\* A call that has not written its command, or whose worker is gone, is not waited
\* for by anybody.
LEMMA NotAsked ==
  ASSUME IInv, CommandInv, NEW c \in Calls
  PROVE  /\ pc[c] \in {"idle", "operation", "daemon", "spawn"} =>
              \A w \in Workers : ~Asked(c, w) /\ ~Sends(c, w)
         /\ sent[c] # ActionOf[method[c]] =>
              ~Has(c) /\ \A w \in Workers : ~Asked(c, w) /\ ~Sends(c, w)
         /\ pc[c] = "stopping" /\ proc[peer[c]] = "reaped" => \A w \in Workers : ~Asked(c, w)
<1>1. OwnInv(c)
  BY DEF CommandInv
<1>2. ASSUME pc[c] = "idle", NEW w \in Workers PROVE ~Asked(c, w) /\ ~Sends(c, w)
  BY <1>2 DEF CommandInv, PipeInv, Asked, Sends, Own
<1>3. ASSUME pc[c] \in {"operation", "daemon", "spawn"} PROVE sent[c] # ActionOf[method[c]]
  BY <1>1, <1>3, OwnIsCommand DEF OwnInv
<1>4. ASSUME pc[c] = "stopping", proc[peer[c]] = "reaped", NEW w \in Workers PROVE ~Asked(c, w)
  <2>1. CASE w = peer[c]
    BY <1>4, <2>1 DEF CommandInv, PipeInv, Asked
  <2>2. CASE w # peer[c]
    BY <1>1, <2>2 DEF OwnInv
  <2>. QED BY <2>1, <2>2
<1>. QED BY <1>1, <1>2, <1>3, <1>4 DEF OwnInv

LEMMA CommandProgress ==
  ASSUME IInv, CommandInv, NEW c \in Calls, Progress(c)
  PROVE  CommandInv'
<1> USE CommandTypes
<1>q. QuietWhenUnlocked
  BY FreeMeansQuiet
<1>s. pc[c] \in {"idle", "operation", "daemon", "spawn"} => sent[c] = "none"
  BY DEF CommandInv, OwnInv
<1>1. CASE TakeOperationLock(c)
  BY <1>1, <1>s, CommandStill DEF TakeOperationLock, Granted, workerVars, Pcs
<1>2. CASE EnterLive(c)
  <2>1. /\ pc[c] = "daemon" /\ Write(c, slot, FirstAction(c)) /\ Live(slot)
        /\ pc' = [pc EXCEPT ![c] = "reply"] /\ UNCHANGED <<method, got, outbox, outcome, proc>>
        /\ holder["daemon"] = NoCall
    BY <1>2 DEF EnterLive, DaemonLockTaken, Granted
  <2>2. slot \in Workers /\ inbox[slot] = <<>> /\ outbox[slot] = <<>>
    BY <1>q, <2>1 DEF Live, QuietWhenUnlocked, IInv, TypeInv, TypeOK
  <2>3. FirstAction(c) \in Actions /\ sent[c] # ActionOf[method[c]] /\ ~Has(c)
    BY <1>s, <2>1, OwnIsCommand, FirstActionType, NotAsked DEF IInv, TypeInv, PeerType
  <2>4. ~Has(c)'
    BY <2>1, <2>3 DEF Has, Own
  <2>5. CASE proc[slot] \notin {"exited", "reaped"}
    BY <2>1, <2>2, <2>3, <2>4, <2>5, CommandWrite
  <2>6. CASE proc[slot] = "exited"
    <3>1. /\ inbox' = inbox /\ sent' = [sent EXCEPT ![c] = FirstAction(c)]
          /\ peer' = [peer EXCEPT ![c] = slot]
      BY <2>1, <2>6 DEF Write
    <3>. QED BY <2>1, <2>2, <2>3, <2>4, <3>1, CommandLost
  <2>. QED BY <2>1, <2>5, <2>6 DEF Live
<1>3. CASE EnterAbsent(c)
  <2>1. /\ pc[c] = "daemon" /\ pc' = [pc EXCEPT ![c] = "done"]
        /\ outcome' = [outcome EXCEPT ![c] = IF method[c] = "aclose" THEN "closed" ELSE "refused"]
        /\ UNCHANGED <<method, got, outbox, inbox, sent, peer, proc>>
    BY <1>3 DEF EnterAbsent, DaemonLockTaken, Granted, Finish
  <2>2. \A w \in Workers : ~Asked(c, w)
    BY <2>1, NotAsked
  <2>. QED BY <2>1, <2>2, CommandStill DEF Pcs
<1>4. CASE EnterSpawn(c)
  BY <1>4, <1>s, CommandStill DEF EnterSpawn, DaemonLockTaken, Granted, Pcs
<1>5. ASSUME NEW w \in Workers, Spawned(c, w) PROVE CommandInv'
  <2>1. /\ pc[c] = "spawn" /\ Write(c, w, FirstAction(c)) /\ proc[w] = "unborn"
        /\ proc' = [proc EXCEPT ![w] = "running"]
        /\ pc' = [pc EXCEPT ![c] = "reply"] /\ UNCHANGED <<method, got, outbox, outcome>>
    BY <1>5 DEF Spawned
  <2>2. inbox[w] = <<>>
    BY <2>1 DEF IInv, Discipline, SingleInv
  <2>3. FirstAction(c) \in Actions /\ sent[c] # ActionOf[method[c]] /\ ~Has(c)
    BY <1>s, <2>1, OwnIsCommand, FirstActionType, NotAsked DEF IInv, TypeInv, PeerType
  <2>4. ~Has(c)'
    BY <2>1, <2>3 DEF Has, Own
  <2>. QED BY <2>1, <2>2, <2>3, <2>4, CommandWrite
<1>6. CASE SpawnFails(c)
  <2>1. /\ pc[c] = "spawn" /\ pc' = [pc EXCEPT ![c] = "done"]
        /\ outcome' = [outcome EXCEPT ![c] = "failed"]
        /\ UNCHANGED <<method, got, outbox, inbox, sent, peer, proc>>
    BY <1>6 DEF SpawnFails, Finish, workerVars
  <2>2. \A w \in Workers : ~Asked(c, w)
    BY <2>1, NotAsked
  <2>. QED BY <2>1, <2>2, CommandStill DEF Pcs
<1>7. CASE ReadStatusThenSend(c)
  <2>1. /\ Read(c) /\ StatusFirst(c) /\ sent[c] = "status" /\ UNCHANGED <<proc, method>>
        /\ ReadFacts(c)
    BY <1>7, ReadIsOwn DEF ReadStatusThenSend, Read
  <2>2. sent[c] # ActionOf[method[c]]
    BY <2>1 DEF StatusFirst, ActionOf
  <2>3. CASE ~Live(peer[c])
    BY <1>7, <2>1, <2>3, CommandRead DEF ReadStatusThenSend, Finish
  <2>4. CASE Live(peer[c])
    <3>1. /\ pc' = [pc EXCEPT ![c] = "reply"] /\ pc[c] = "reply" /\ UNCHANGED outcome
          /\ Write(c, slot, ActionOf[method[c]])
      BY <1>7, <2>1, <2>4 DEF ReadStatusThenSend, ReadFacts
    <3>2. /\ slot \in Workers /\ inbox[slot] = <<>> /\ ActionOf[method[c]] \in Actions
          /\ \A v \in Workers : outbox'[v] = outbox[v] \/ outbox'[v] = <<>>
          /\ \A d \in Calls \ {c} : got'[d] = got[d]
          /\ got'[c].cmd = [call |-> c, action |-> sent[c]]
      BY <2>1, <3>1, OwnIsCommand DEF ReadFacts
    <3>3. ~Has(c)'
      BY <2>1, <2>2, <3>2 DEF Has, Own
    <3>4. CASE proc[slot] # "exited"
      BY <2>1, <2>2, <2>4, <3>1, <3>2, <3>3, <3>4, CommandWrite DEF Live, ReadFacts
    <3>5. CASE proc[slot] = "exited"
      <4>1. /\ inbox' = inbox /\ sent' = [sent EXCEPT ![c] = ActionOf[method[c]]]
            /\ peer' = [peer EXCEPT ![c] = slot]
        BY <3>1, <3>5 DEF Write
      <4>. QED BY <2>1, <2>2, <3>1, <3>2, <3>3, <4>1, CommandLost
    <3>. QED BY <3>4, <3>5
  <2>. QED BY <2>3, <2>4
<1>8. CASE ReadStatusThenRefuse(c)
  BY <1>8, CommandRead DEF ReadStatusThenRefuse, Finish
<1>9. CASE ReadAnswer(c)
  BY <1>9, CommandRead DEF ReadAnswer, Finish
<1>10. CASE ReadShutdown(c) \/ ReadMismatch(c)
  BY <1>10, CommandRead DEF ReadShutdown, ReadMismatch, Retire, Terminated
<1>11. CASE NoAnswer(c)
  BY <1>11, CommandStill DEF NoAnswer, Retire, Terminated, Pcs
<1>12. CASE Stopped(c)
  <2>1. /\ pc[c] = "stopping" /\ proc[peer[c]] = "reaped" /\ pc' = [pc EXCEPT ![c] = "done"]
        /\ outcome' = [outcome EXCEPT ![c] = outcome[c]]
        /\ UNCHANGED <<method, got, outbox, inbox, sent, peer, proc>>
    BY <1>12 DEF Stopped, Finish, workerVars
  <2>2. outcome'[c] # "answered" /\ \A w \in Workers : ~Asked(c, w)
    BY <2>1, NotAsked DEF IInv, Discipline, OpenInv
  <2>. QED BY <2>1, <2>2, CommandStill DEF Pcs
<1>. QED BY <1>1, <1>2, <1>3, <1>4, <1>5, <1>6, <1>7, <1>8, <1>9, <1>10, <1>11, <1>12 DEF Progress

LEMMA CommandNext == IInv /\ CommandInv /\ [Next]_vars => CommandInv'
<1> SUFFICES ASSUME IInv, CommandInv, [Next]_vars PROVE CommandInv'
  OBVIOUS
<1> USE CommandTypes
<1>1. ASSUME NEW c \in Calls, NEW m \in Methods, Begin(c, m) \/ BeginClosed(c, m)
      PROVE  CommandInv'
  <2>1. sent[c] = "none" /\ pc[c] = "idle"
    BY <1>1 DEF Begin, BeginClosed, CommandInv, OwnInv
  <2>2. \A w \in Workers : ~Asked(c, w)
    BY <2>1, NotAsked
  <2>3. CASE Begin(c, m)
    BY <2>1, <2>3, CommandStill DEF Begin, workerVars, FirstLock, Pcs
  <2>4. CASE BeginClosed(c, m)
    BY <2>1, <2>2, <2>4, CommandStill DEF BeginClosed, workerVars, Pcs
  <2>. QED BY <1>1, <2>3, <2>4
<1>2. ASSUME NEW c \in Calls, Cancel(c) PROVE CommandInv'
  <2>1. PICK x \in {"stopping", "done"} :
          /\ pc' = [pc EXCEPT ![c] = x] /\ outcome' = [outcome EXCEPT ![c] = "cancelled"]
          /\ UNCHANGED <<method, got, outbox, inbox, sent, peer>>
          /\ \A w \in Workers : proc'[w] \in {"exited", "reaped"} => proc[w] \in {"exited", "reaped"}
    BY <1>2 DEF Cancel, CancelWaiting, CancelSpawn, CancelReply, CancelStopping, Finish, Retire,
       Terminated, workerVars
  <2>. QED BY <2>1, CommandStill DEF Pcs
<1>3. ASSUME NEW w \in Workers, WorkerStep(w) PROVE CommandInv'
  <2>1. CASE WorkerAnswer(w)
    BY <2>1, CommandAnswered
  <2>2. CASE WorkerFlow(w)
    BY <2>2, CommandIdle DEF WorkerFlow
  <2>3. CASE WorkerExits(w)
    BY <2>3, CommandIdle DEF WorkerExits
  <2>4. CASE Reaped(w)
    BY <2>4, CommandIdle DEF Reaped
  <2>. QED BY <1>3, <2>1, <2>2, <2>3, <2>4 DEF WorkerStep
<1>4. CASE UNCHANGED vars
  BY <1>4, CommandIdle DEF vars, workerVars
<1>. QED BY <1>1, <1>2, <1>3, <1>4, CommandProgress DEF Next, CallStep

\* What the refinement mapping takes for the answer to a call.
AnswersFollow ==
  \A c \in Calls :
    /\ Has(c) => AnswerOf(c) = got[c]
    /\ \A w \in Workers : Sends(c, w) => AnswerOf(c) = Head(outbox[w])
    /\ ~Has(c) /\ (\A w \in Workers : ~Sends(c, w)) => AnswerOf(c) = NoFrame

\* A pipe that holds one frame at most holds its head.
LEMMA SingleEntry ==
  ASSUME NEW S, NEW q \in Seq(S), Len(q) <= 1
  PROVE  /\ \A i \in DOMAIN q : q # <<>> /\ q[i] = Head(q)
         /\ q # <<>> => 1 \in DOMAIN q /\ q[1] = Head(q)
  OBVIOUS

\* There is one answer at most, so the choice of the mapping is none.
LEMMA AnswerIs == IInv /\ CommandInv => AnswersFollow
<1> SUFFICES ASSUME IInv, CommandInv, NEW c \in Calls
             PROVE  /\ Has(c) => AnswerOf(c) = got[c]
                    /\ \A w \in Workers : Sends(c, w) => AnswerOf(c) = Head(outbox[w])
                    /\ ~Has(c) /\ (\A w \in Workers : ~Sends(c, w)) => AnswerOf(c) = NoFrame
  BY DEF AnswersFollow
<1>1. ASSUME NEW w \in Workers
      PROVE  /\ \A i \in DOMAIN outbox[w] : outbox[w] # <<>> /\ outbox[w][i] = Head(outbox[w])
             /\ outbox[w] # <<>> => 1 \in DOMAIN outbox[w] /\ outbox[w][1] = Head(outbox[w])
             /\ outbox[w] # <<>> => Head(outbox[w]) # NoFrame
  <2>1. outbox[w] \in Seq(Frame) /\ inbox[w] \in Seq(Command)
    BY CommandTypes
  <2>2. Len(outbox[w]) <= 1
    <3>1. Len(inbox[w]) + Len(outbox[w]) <= 1
      BY DEF IInv, Discipline, SingleInv
    <3>2. Len(outbox[w]) \in Nat /\ Len(inbox[w]) \in Nat
      BY <2>1
    <3>. QED BY ONLY <3>1, <3>2, PartOfOne
  <2>3. outbox[w] # <<>> => Head(outbox[w]) # NoFrame
    BY PipeHeads, FrameAssumption
  <2>. QED BY <2>1, <2>2, <2>3, SingleEntry
<1>2. (Has(c) \/ \E w \in Workers : Sends(c, w)) => method[c] # "none"
  BY NotAsked DEF IInv, TypeInv, PeerType, Discipline, OpenInv, Has
<1>3. \A f : f \in AnswersTo(c) <=>
        /\ method[c] # "none"
        /\ \/ Has(c) /\ f = got[c]
           \/ \E w \in Workers : Sends(c, w) /\ f = Head(outbox[w])
  <2>1. ASSUME NEW f PROVE f \in AnswersTo(c) <=>
          /\ f = got[c] \/ \E w \in Workers : \E i \in DOMAIN outbox[w] : f = outbox[w][i]
          /\ f # NoFrame /\ method[c] # "none" /\ f.cmd = Own(c)
    BY DEF AnswersTo, Own
  <2>. QED BY <1>1, <2>1 DEF Has, Sends
<1>4. CASE Has(c)
  <2>1. \A w \in Workers : ~Sends(c, w)
    BY <1>4 DEF CommandInv, OwnInv
  <2>2. AnswersTo(c) = {got[c]}
    BY <1>2, <1>3, <1>4, <2>1
  <2>. QED BY <1>4, <2>1, <2>2 DEF AnswerOf
<1>5. ASSUME NEW w \in Workers, Sends(c, w) PROVE AnswerOf(c) = Head(outbox[w]) /\ ~Has(c)
  <2>1. ~Has(c) /\ \A v \in Workers : Sends(c, v) => v = w
    BY <1>5 DEF CommandInv, OwnInv
  <2>2. AnswersTo(c) = {Head(outbox[w])}
    BY <1>2, <1>3, <1>5, <2>1
  <2>. QED BY <2>1, <2>2 DEF AnswerOf
<1>6. ASSUME ~Has(c), \A w \in Workers : ~Sends(c, w) PROVE AnswerOf(c) = NoFrame
  <2>1. AnswersTo(c) = {}
    BY <1>3, <1>6
  <2>. QED BY <2>1 DEF AnswerOf
<1>. QED BY <1>4, <1>5, <1>6

SameAnswers == \A d \in Calls : AnswerOf(d)' = AnswerOf(d)

\* Without a frame moving, no answer comes or goes.
LEMMA AnswersStill ==
  ASSUME IInv, CommandInv, AnswersFollow, AnswersFollow', UNCHANGED <<got, outbox>>,
         \A d \in Calls : pc[d] # "idle" => method'[d] = method[d]
  PROVE  SameAnswers
<1> SUFFICES ASSUME NEW d \in Calls PROVE AnswerOf(d)' = AnswerOf(d)
  BY DEF SameAnswers
<1>1. /\ Has(d)' <=> Has(d)
      /\ \A w \in Workers : Sends(d, w)' <=> Sends(d, w)
  <2>1. CASE pc[d] # "idle"
    BY <2>1 DEF Has, Sends, Own
  <2>2. CASE pc[d] = "idle"
    <3>1. got[d] = NoFrame
      BY <2>2 DEF IInv, Discipline, OpenInv
    <3>2. \A w \in Workers : outbox[w] # <<>> => Head(outbox[w]).cmd.call # d
      BY <2>2 DEF CommandInv, PipeInv
    <3>. QED BY <3>1, <3>2 DEF Has, Sends, Own
  <2>. QED BY <2>1, <2>2
<1>. QED BY <1>1 DEF AnswersFollow

\* A frame that is read is the same answer in another place.
LEMMA AnswersRead ==
  ASSUME IInv, CommandInv, AnswersFollow, AnswersFollow', NEW c \in Calls, Read(c)
  PROVE  SameAnswers
<1>1. ReadFacts(c) /\ method' = method
  BY ReadIsOwn DEF Read
<1>2. /\ outbox'[slot] = <<>> /\ got'[c] = Head(outbox[slot]) /\ got'[c] # NoFrame
      /\ \A w \in Workers \ {slot} : outbox'[w] = outbox[w]
      /\ \A d \in Calls \ {c} : got'[d] = got[d]
  BY <1>1, CommandTypes, FrameAssumption DEF ReadFacts
<1>3. ASSUME NEW d \in Calls \ {c} PROVE AnswerOf(d)' = AnswerOf(d)
  <2>1. Has(d)' <=> Has(d)
    BY <1>1, <1>2 DEF Has, Own
  <2>2. ASSUME NEW w \in Workers PROVE Sends(d, w)' <=> Sends(d, w)
    BY <1>1, <1>2 DEF Sends, Own, ReadFacts
  <2>3. \A w \in Workers : Sends(d, w) => outbox'[w] = outbox[w]
    BY <1>1, <1>2 DEF Sends, Own, ReadFacts
  <2>. QED BY <1>2, <2>1, <2>2, <2>3 DEF AnswersFollow
<1>4. AnswerOf(c)' = AnswerOf(c)
  <2>1. CASE sent[c] = ActionOf[method[c]]
    <3>1. Sends(c, slot) /\ Has(c)' /\ slot \in Workers
      BY <1>1, <1>2, <2>1 DEF ReadFacts, Sends, Has, Own, Read
    <3>. QED BY <1>2, <3>1 DEF AnswersFollow
  <2>2. CASE sent[c] # ActionOf[method[c]]
    <3>1. ~Has(c) /\ \A w \in Workers : ~Sends(c, w)
      BY <2>2, NotAsked
    <3>2. ~Has(c)'
      BY <1>1, <1>2, <2>2 DEF Has, Own, ReadFacts
    <3>3. ASSUME NEW w \in Workers PROVE ~Sends(c, w)'
      BY <1>1, <1>2, <3>1 DEF Sends, Own
    <3>. QED BY <3>1, <3>2, <3>3 DEF AnswersFollow
  <2>. QED BY <2>1, <2>2
<1>. QED BY <1>3, <1>4 DEF SameAnswers

\* One call moves on and the answers are the same.
LEMMA ContractMove ==
  ASSUME IInv, IInv', CommandInv', AnswersFollow', NEW c \in Calls, SameAnswers,
         \A d \in Calls \ {c} : pc'[d] = pc[d] /\ outcome'[d] = outcome[d],
         pc[c] # "done", pc'[c] # "idle",
         pc[c] = "idle" /\ pc'[c] = "done" => outcome'[c] = "refused"
  PROVE  [Contract!Next]_(Contract!vars)
<1> DEFINE phase == [d \in Calls |-> PhaseOf(d)]
           answer == [d \in Calls |-> AnswerOf(d)]
<1>1. answer' = answer
  BY DEF SameAnswers
<1>2. \A d \in Calls \ {c} : PhaseOf(d)' = PhaseOf(d)
  BY DEF PhaseOf
<1>3. phase' = [phase EXCEPT ![c] = PhaseOf(c)']
  BY <1>2
<1>4. /\ PhaseOf(c) \in {"idle", "pending"}
      /\ PhaseOf(c)' \in {"pending", "returned", "cancelled", "ended"}
      /\ PhaseOf(c) = "idle" => PhaseOf(c)' \in {"pending", "ended"}
  BY DEF PhaseOf
<1>5. PhaseOf(c)' = "returned" => AnswerOf(c) # NoFrame
  <2>1. PhaseOf(c)' = "returned" => pc'[c] = "done" /\ outcome'[c] = "answered"
    BY DEF PhaseOf
  <2>2. PhaseOf(c)' = "returned" => Has(c)'
    BY <2>1 DEF CommandInv, OwnInv
  <2>. QED BY <2>2 DEF Has, AnswersFollow, SameAnswers
<1>6. /\ phase[c] = PhaseOf(c) /\ answer[c] = AnswerOf(c)
  OBVIOUS
<1>. HIDE DEF phase, answer
<1>7. CASE PhaseOf(c) = "idle"
  BY <1>1, <1>3, <1>4, <1>6, <1>7
  DEF Contract!Next, Contract!Begin, Contract!Refuse, Contract!Moves, phase, answer
<1>8. CASE PhaseOf(c) = "pending" /\ PhaseOf(c)' = "pending"
  <2>1. phase' = phase
    BY <1>2, <1>8 DEF phase
  <2>. QED BY <1>1, <2>1 DEF Contract!vars, phase, answer
<1>9. CASE PhaseOf(c) = "pending" /\ PhaseOf(c)' # "pending"
  BY <1>1, <1>3, <1>4, <1>5, <1>6, <1>9
  DEF Contract!Next, Contract!Return, Contract!Fail, Contract!Cancel, Contract!Moves, phase, answer
<1>. QED BY <1>4, <1>7, <1>8, <1>9

\* A worker carries out a command: the one a call is waiting for or was cancelled
\* in, or a question for the status, which the callers do not see.
LEMMA ContractServe ==
  ASSUME IInv, CommandInv, IInv', AnswersFollow, AnswersFollow',
         NEW w \in Workers, WorkerAnswer(w)
  PROVE  [Contract!Next]_(Contract!vars)
<1> DEFINE phase == [d \in Calls |-> PhaseOf(d)]
           answer == [d \in Calls |-> AnswerOf(d)]
           cmd == Head(inbox[w])
<1>1. /\ inbox[w] # <<>> /\ outbox[w] = <<>> /\ outbox'[w] # <<>>
      /\ \A v \in Workers \ {w} : outbox'[v] = outbox[v]
      /\ Head(outbox'[w]).cmd = cmd
  BY CommandAnswered
<1>2. cmd \in Command /\ cmd.call \in Calls /\ Head(outbox'[w]) \in Frame
  <2>1. outbox' \in [Workers -> Seq(Frame)]
    BY DEF IInv, TypeInv, TypeOK
  <2>2. Head(outbox'[w]) \in Frame
    BY <1>1, <2>1, HeadType
  <2>. QED BY <1>1, <2>2, PipeHeads
<1>3. UNCHANGED <<method, pc, outcome, got>>
  BY DEF WorkerAnswer, callVars
<1>4. phase' = phase
  BY <1>3 DEF PhaseOf
<1>5. ASSUME NEW d \in Calls
      PROVE  /\ Has(d)' <=> Has(d)
             /\ \A v \in Workers \ {w} : Sends(d, v)' <=> Sends(d, v)
             /\ Sends(d, w)' <=> cmd = Own(d)
             /\ ~Sends(d, w)
  BY <1>1, <1>3 DEF Has, Sends, Own
<1>. HIDE DEF cmd
<1>6. ASSUME NEW d \in Calls, cmd # Own(d) PROVE AnswerOf(d)' = AnswerOf(d)
  <2>1. \A v \in Workers : Sends(d, v)' <=> Sends(d, v)
    BY <1>5, <1>6
  <2>. QED BY <1>1, <1>3, <1>5, <2>1 DEF AnswersFollow, Sends
<1>c. PICK c \in Calls : c = cmd.call
  BY <1>2
<1>7. CASE cmd # Own(c)
  <2>1. \A d \in Calls : cmd # Own(d)
    BY <1>7, <1>c DEF Own
  <2>2. answer' = answer
    BY <1>6, <2>1
  <2>. QED BY <1>4, <2>2 DEF Contract!vars
<1>8. CASE cmd = Own(c)
  <2>1. Asked(c, w)
    BY <1>1, <1>8 DEF Asked, cmd
  <2>2. ~Has(c) /\ (\A v \in Workers : ~Sends(c, v))
        /\ (pc[c] = "done" => outcome[c] = "cancelled")
    BY <1>2, <1>5, <2>1 DEF CommandInv, OwnInv
  <2>3. AnswerOf(c) = NoFrame
    BY <1>2, <2>2 DEF AnswersFollow
  <2>4. AnswerOf(c)' \in Frame
    BY <1>2, <1>5, <1>8 DEF AnswersFollow
  <2>5. PhaseOf(c) \in {"pending", "cancelled"}
    <3>1. pc[c] # "idle"
      BY <1>1, <1>c DEF CommandInv, PipeInv, cmd
    <3>. QED BY <2>2, <3>1 DEF PhaseOf
  <2>6. \A d \in Calls \ {c} : AnswerOf(d)' = AnswerOf(d)
    BY <1>6, <1>8 DEF Own
  <2>7. /\ answer' = [answer EXCEPT ![c] = answer'[c]]
        /\ answer[c] = NoFrame /\ answer'[c] \in Frame /\ phase[c] \in {"pending", "cancelled"}
    BY <1>2, <2>3, <2>4, <2>5, <2>6
  <2>. HIDE DEF phase, answer
  <2>8. Contract!Serve(c)
    BY <1>4, <2>7 DEF Contract!Serve, phase, answer
  <2>. QED BY <2>8 DEF Contract!Next
<1>. QED BY <1>7, <1>8

\* Every step is a step of the contract, or none.
LEMMA ContractStep ==
  IInv /\ CommandInv /\ AnswersFollow /\ IInv' /\ CommandInv' /\ AnswersFollow' /\ [Next]_vars
    => [Contract!Next]_(Contract!vars)
<1> SUFFICES ASSUME IInv, CommandInv, AnswersFollow, IInv', CommandInv', AnswersFollow', [Next]_vars
             PROVE  [Contract!Next]_(Contract!vars)
  OBVIOUS
<1>t. pc \in [Calls -> Pcs] /\ outcome \in [Calls -> Outcomes] /\ method \in [Calls -> Methods \union {"none"}]
  BY CommandTypes
<1>1. ASSUME NEW c \in Calls, NEW m \in Methods, Begin(c, m) \/ BeginClosed(c, m)
      PROVE  [Contract!Next]_(Contract!vars)
  <2>1. SameAnswers
    BY <1>1, <1>t, AnswersStill DEF Begin, BeginClosed, workerVars
  <2>. QED BY <1>1, <1>t, <2>1, ContractMove DEF Begin, BeginClosed, FirstLock
<1>2. ASSUME NEW c \in Calls, Progress(c) \/ Cancel(c) PROVE [Contract!Next]_(Contract!vars)
  <2>1. SameAnswers
    <3>1. CASE Read(c)
      BY <3>1, AnswersRead
    <3>2. CASE ~Read(c)
      <4>1. UNCHANGED <<method, got, outbox>>
        BY <1>2, <3>2 DEF Progress, Cancel, TakeOperationLock, EnterLive, EnterAbsent, EnterSpawn,
           DaemonLockTaken, Spawned, SpawnFails, ReadStatusThenSend, ReadStatusThenRefuse, ReadAnswer,
           ReadShutdown, ReadMismatch, NoAnswer, Stopped, CancelWaiting, CancelSpawn, CancelReply,
           CancelStopping, workerVars
      <4>. QED BY <4>1, AnswersStill
    <3>. QED BY <3>1, <3>2
  <2>2. /\ pc[c] \notin {"idle", "done"} /\ pc'[c] # "idle"
        /\ \A d \in Calls \ {c} : pc'[d] = pc[d] /\ outcome'[d] = outcome[d]
    BY <1>2, <1>t DEF Progress, Cancel, TakeOperationLock, EnterLive, EnterAbsent, EnterSpawn,
       DaemonLockTaken, Spawned, SpawnFails, ReadStatusThenSend, ReadStatusThenRefuse, ReadAnswer,
       ReadShutdown, ReadMismatch, NoAnswer, Stopped, CancelWaiting, CancelSpawn, CancelReply,
       CancelStopping, Finish, Retire, Read, Granted, Locks
  <2>. QED BY <2>1, <2>2, ContractMove
<1>3. ASSUME UNCHANGED <<callVars, outbox>> PROVE [Contract!Next]_(Contract!vars)
  <2>1. SameAnswers
    BY <1>3, AnswersStill DEF callVars
  <2>2. \A d \in Calls : PhaseOf(d)' = PhaseOf(d)
    BY <1>3 DEF callVars, PhaseOf
  <2>. QED BY <2>1, <2>2 DEF SameAnswers, Contract!vars
<1>4. ASSUME NEW w \in Workers, WorkerStep(w) PROVE [Contract!Next]_(Contract!vars)
  <2>1. CASE WorkerAnswer(w)
    BY <2>1, ContractServe
  <2>2. CASE WorkerFlow(w) \/ WorkerExits(w) \/ Reaped(w)
    BY <1>3, <2>2 DEF WorkerFlow, WorkerExits, Reaped
  <2>. QED BY <1>4, <2>1, <2>2 DEF WorkerStep
<1>5. CASE UNCHANGED vars
  BY <1>3, <1>5 DEF vars, workerVars
<1>. QED BY <1>1, <1>2, <1>4, <1>5 DEF Next, CallStep

\* No call has begun, and nothing is answered.
LEMMA ContractInit == Init => CommandInv /\ Contract!Init
<1> SUFFICES ASSUME Init PROVE CommandInv /\ Contract!Init
  OBVIOUS
<1>1. CommandInv
  BY DEF Init, CommandInv, PipeInv, OwnInv, Has, Asked, Sends
<1>2. ASSUME NEW c \in Calls PROVE PhaseOf(c) = "idle" /\ AnswerOf(c) = NoFrame
  <2>1. AnswersTo(c) = {}
    BY DEF Init, AnswersTo
  <2>. QED BY <2>1 DEF Init, PhaseOf, AnswerOf
<1>. QED BY <1>1, <1>2 DEF Contract!Init

\* A caller of the broker finds its command to take effect at most once, gets the
\* answer that effect produced, and meets no effect after a failure: for any number of
\* calls and processes, and wherever they are cancelled, time out or crash.
THEOREM ContractKept == Spec => KeepsContract
BY IInvariant, CommandNext, AnswerIs, ContractInit, ContractStep, PTL
DEF Spec, KeepsContract, Contract!Spec

-----------------------------------------------------------------------------
(* Persistent mode.                                                         *)

\* The methods that hold the operation lock while their worker runs.
Locking == {"connect", "disconnect", "health_status", "account", "market"}

Given ==
  /\ PersistentMethods \subseteq Locking \union {"status", "aclose"}
  /\ Cancelled \subseteq Uses /\ None \notin Uses /\ None \notin Nat

Holding == {"locked", "stop_market", "spawn", "reply", "killing"}
Closing == {"closing", "close_market", "close_ui"}
Before  == {"idle", "queued", "locked", "stop_market", "spawn"} \union Closing
Busy    == {"load", "validate", "save", "delete", "operate"}

Types ==
  /\ asked \in [Uses -> Locking \union {"status", "aclose", "none"}]
  /\ at \in [Uses -> PcLabels]
  /\ lock \in Uses \union {None}
  /\ ui \in Uses \union {None} /\ marketDaemon \in Uses \union {None}
  /\ whom \in [Uses -> Uses \union {None}]
  /\ kind \in [Uses -> {"none", "once", "ui", "market"}]
  /\ wpc \in [Uses -> WorkerLabels]
  /\ loose \subseteq Uses

LoginTypes ==
  /\ logins \in Nat
  /\ store \in (1 .. logins) \union {None}
  /\ held \in [Uses -> (1 .. logins) \union {None}]
  /\ removed \subseteq 1 .. logins

Market(w) == Alive(w) /\ kind[w] = "market"
Disconnects(w) == Alive(w) /\ kind[w] = "ui" /\ asked[w] = "disconnect"

\* A call of a locking method holds the operation lock from its grant to its
\* end, and with it stops the market daemon before it spawns a worker.
CallInv(c) ==
  /\ lock = c => at[c] \in Holding /\ asked[c] \in Locking
  /\ at[c] \in Holding /\ asked[c] \in Locking => lock = c
  /\ at[c] \in Closing => asked[c] = "aclose"
  /\ at[c] \in {"queued", "locked", "stop_market"} => asked[c] \in Locking
  /\ at[c] \in {"spawn", "reply"} => asked[c] \in Locking \union {"status"}
  /\ at[c] \in {"stop_market", "spawn"} => asked[c] # "market"
  /\ at[c] \in Before => kind[c] = "none" /\ c \notin answered
  /\ at[c] = "reply" =>
       /\ whom[c] \in Uses /\ kind[whom[c]] = KindOf(asked[c])
       /\ asked[c] # "market" => whom[c] = c
  /\ at[c] = "killing" =>
       /\ whom[c] \in Uses /\ kind[whom[c]] # "none"
       /\ kind[c] \in {"once", "ui"} => whom[c] = c
  /\ at[c] \in {"stop_market", "close_market"} =>
       whom[c] \in Uses /\ kind[whom[c]] = "market"
  /\ at[c] = "reply" /\ c \in answered => wpc[whom[c]] \notin Busy
  /\ at[c] = "spawn" /\ asked[c] # "status" => \A w \in Uses \ loose : ~Market(w)
  /\ at[c] = "stop_market" => \A w \in Uses \ loose : Market(w) => w = whom[c]

\* Who stops the market daemon w, and whose worker the lock's holder waits for.
Stopping(c, w) ==
  whom[c] = w /\ at[c] \in {"stop_market", "close_market", "killing"}
Served(w) == lock # None /\ at[lock] \in {"reply", "killing"} /\ whom[lock] = w

\* A worker that is not loose has a place in the broker as long as it is alive;
\* while it works the holder of the lock waits for it, or a disconnect worker
\* that was left behind keeps the others out.
WorkerInv(w) ==
  /\ kind[w] = "none" => wpc[w] = "unused" /\ w \notin loose
  /\ kind[w] # "none" =>
       asked[w] \in Locking \union {"status"} /\ kind[w] = KindOf(asked[w])
  /\ kind[w] # "none" /\ asked[w] = "status" => w \in loose
  /\ w \notin loose =>
       /\ Alive(w) /\ kind[w] = "ui" => ui = w
       /\ Alive(w) /\ kind[w] = "once" => at[w] \in {"reply", "killing"}
       /\ Market(w) => marketDaemon = w \/ \E c \in Uses : Stopping(c, w)
       /\ wpc[w] \in Busy => Served(w) \/ Disconnects(w)

\* Beside a disconnect worker nobody works that is not loose, nor is about to.
ExclusiveInv(u) ==
  u \notin loose /\ Disconnects(u) =>
    /\ \A w \in Uses \ loose : ~Working(w)
    /\ lock # None => asked[lock] \notin {"account", "market"}

DaemonInv == marketDaemon # None => kind[marketDaemon] = "market"

Structure ==
  /\ Given /\ Types /\ DaemonInv
  /\ \A c \in Uses : CallInv(c) /\ WorkerInv(c) /\ ExclusiveInv(c)

\* The credential in the store is the one a worker that will write has loaded;
\* there is none while the user is asked to log in.
StoreInv(w) ==
  /\ wpc[w] \in {"validate", "save", "delete"} => held[w] # None /\ store = held[w]
  /\ wpc[w] = "operate" /\ kind[w] = "once" => held[w] # None /\ store = held[w]
  /\ wpc[w] = "page" => kind[w] = "ui" /\ (asked[w] = "connect" => store = None)
  /\ kind[w] # "ui" => (~Alive(w) => held[w] = None) /\ held[w] \notin removed

\* As long as no loose worker has changed the store.
Uncrossed == ~crossed => store \notin removed /\ \A w \in Uses \ loose : StoreInv(w)

Data == LoginTypes /\ crossed \in BOOLEAN /\ Uncrossed

Inv == Structure /\ Data

LEMMA InitInv == PersistentInit => Inv
<1> SUFFICES ASSUME PersistentInit PROVE Inv
  OBVIOUS
<1>0. Given
  BY PersistentAssumption DEF Given, AllMethods, Locking
<1>1. Types /\ DaemonInv
  BY DEF PersistentInit, Types, DaemonInv, Locking, PcLabels, WorkerLabels
<1>2. ASSUME NEW c \in Uses PROVE CallInv(c) /\ WorkerInv(c) /\ ExclusiveInv(c)
  BY <1>0 DEF PersistentInit, Given, CallInv, WorkerInv, ExclusiveInv, Holding, Closing, Before,
     Alive, Market, Disconnects, Working, Busy
<1>3. Data
  <2>1. /\ logins \in Nat /\ store \in (1 .. logins) \union {None}
        /\ removed = {} /\ crossed = FALSE
    BY <1>0 DEF PersistentInit
  <2>2. held \in [Uses -> (1 .. logins) \union {None}]
    BY DEF PersistentInit
  <2>3. ASSUME NEW w \in Uses PROVE StoreInv(w)
    <3>1. wpc[w] = "unused" /\ held[w] = None /\ removed = {}
      BY DEF PersistentInit
    <3>. QED BY <3>1 DEF StoreInv
  <2>. QED BY <2>1, <2>2, <2>3 DEF Data, Uncrossed, LoginTypes
<1>4. Structure
  BY <1>0, <1>1, <1>2 DEF Structure
<1>. QED BY <1>3, <1>4 DEF Inv

-----------------------------------------------------------------------------
(* Steps of the workers.  To the broker each of them is one worker that does *)
(* not come back to life, works only if it did, and may answer.             *)

Works(w) ==
  /\ UNCHANGED <<brokerVars, kind, loose>>
  /\ Alive(w)
  /\ \E l \in WorkerLabels \ {"unused"} :
       /\ wpc' = [wpc EXCEPT ![w] = l]
       /\ l \in Busy => wpc[w] \in Busy /\ answered' = answered
  /\ answered' \subseteq answered \union {c \in Uses : at[c] = "reply" /\ whom[c] = w}

LEMMA WorkersStep ==
  ASSUME Inv, NEW w \in Uses, ProcessStep(w) \/ UserStep(w) \/ Dies(w)
  PROVE  Works(w)
<1>1. Alive(w)
  BY DEF ProcessStep, UserStep, Load, LoadFails, Validated, Rejected, ValidationFails, Save,
     Delete, StoreFails, Operate, OperateExpired, LogOut, UiExits, LogIn, ConfirmRemoval,
     PageEnds, Dies, Alive, Inv, Structure, Given
<1>2. UNCHANGED <<brokerVars, kind, loose>>
  BY DEF ProcessStep, UserStep, Load, LoadFails, Validated, Rejected, ValidationFails, Save,
     Delete, StoreFails, Operate, OperateExpired, LogOut, UiExits, LogIn, ConfirmRemoval,
     PageEnds, Dies, history
<1>3. \E l \in WorkerLabels \ {"unused"} :
        \/ wpc[w] \in Busy /\ Move(w, l) /\ UNCHANGED answered
        \/ l \notin Busy /\ Answer(w, l)
        \/ l \notin Busy /\ Move(w, l) /\ UNCHANGED answered
  BY DEF ProcessStep, UserStep, Load, LoadFails, Validated, Rejected, ValidationFails, Save,
     Delete, StoreFails, Operate, OperateExpired, LogOut, UiExits, LogIn, ConfirmRemoval,
     PageEnds, Dies, WithoutSession, WithError, WithSession, Busy, WorkerLabels
<1>. QED BY <1>1, <1>2, <1>3 DEF Works, Move, Answer

LEMMA WorksKeeps ==
  ASSUME Inv, NEW w \in Uses, Works(w)
  PROVE  Structure'
<1>0. /\ Given /\ Types /\ DaemonInv
      /\ \A c \in Uses : CallInv(c) /\ WorkerInv(c) /\ ExclusiveInv(c)
  BY DEF Inv, Structure
<1>1. UNCHANGED <<asked, at, whom, lock, ui, marketDaemon, kind, loose>>
  BY DEF Works, brokerVars
<1>2. PICK l \in WorkerLabels \ {"unused"} :
        /\ wpc' = [wpc EXCEPT ![w] = l]
        /\ l \in Busy => wpc[w] \in Busy /\ answered' = answered
  BY DEF Works
<1>3. Types'
  BY <1>0, <1>1, <1>2 DEF Types
<1>4. \A x \in Uses :
        /\ wpc'[x] \notin {"unused", "exited"} => wpc[x] \notin {"unused", "exited"}
        /\ wpc'[x] \in Busy => wpc[x] \in Busy
  BY <1>0, <1>2 DEF Works, Types, Alive
<1>5. ASSUME NEW c \in Uses, at[c] = "reply", c \in answered', whom[c] \in Uses,
             wpc'[whom[c]] \in Busy
      PROVE  c \in answered
  BY <1>0, <1>2, <1>5 DEF Works, Types
<1>6. ASSUME NEW c \in Uses, c \in answered', c \notin answered PROVE at[c] = "reply"
  BY <1>6 DEF Works
<1>7. ASSUME NEW c \in Uses PROVE CallInv(c)'
  <2>1. CallInv(c)
    BY <1>0
  <2>2. /\ at[c] \in Before => c \notin answered'
        /\ at[c] = "reply" /\ c \in answered' => wpc'[whom[c]] \notin Busy
    BY <1>4, <1>5, <1>6, <2>1 DEF CallInv, Before, Closing
  <2>. QED BY <1>1, <1>4, <2>1, <2>2 DEF CallInv, Market, Alive
<1>8. kind[w] # "none"
  BY <1>0 DEF Works, WorkerInv, Alive
<1>9. ASSUME NEW x \in Uses PROVE WorkerInv(x)'
  <2>1. WorkerInv(x) /\ (kind[x] = "none" => wpc'[x] = wpc[x])
    BY <1>0, <1>2, <1>8 DEF Types
  <2>2. \A c \in Uses : Stopping(c, x) => Stopping(c, x)'
    BY <1>1 DEF Stopping
  <2>3. Served(x) => Served(x)'
    BY <1>1 DEF Served
  <2>4. Disconnects(x) /\ wpc'[x] \in Busy => Disconnects(x)'
    BY <1>1 DEF Disconnects, Alive, Busy
  <2>. QED BY <1>1, <1>4, <2>1, <2>2, <2>3, <2>4 DEF WorkerInv, Market, Alive
<1>10. ASSUME NEW x \in Uses PROVE ExclusiveInv(x)'
  BY <1>0, <1>1, <1>4 DEF ExclusiveInv, Disconnects, Working, Alive
<1>. QED BY <1>0, <1>1, <1>3, <1>7, <1>9, <1>10 DEF Structure, Given, DaemonInv

-----------------------------------------------------------------------------
(* Steps of the broker.                                                     *)

LEMMA BeginKeeps ==
  ASSUME Structure, NEW c \in Uses, NEW m \in PersistentMethods, BeginPersistent(c, m)
  PROVE  Structure'
<1>0. /\ Given /\ Types /\ DaemonInv
      /\ \A d \in Uses : CallInv(d) /\ WorkerInv(d) /\ ExclusiveInv(d)
  BY DEF Structure
<1>1. /\ at[c] = "idle" /\ m \in Locking \union {"status", "aclose"}
      /\ asked' = [asked EXCEPT ![c] = m]
      /\ \E l \in {"closing", "queued", "spawn", "done"} :
           /\ at' = [at EXCEPT ![c] = l]
           /\ l = "closing" => m = "aclose"
           /\ l = "queued" => m \in Locking
           /\ l = "spawn" => m = "status"
      /\ UNCHANGED <<whom, lock, ui, marketDaemon, kind, wpc, answered, loose>>
  BY <1>0 DEF BeginPersistent, Goto, Given, Locking, procVars, history
<1>2. Types'
  BY <1>0, <1>1 DEF Types, PcLabels
<1>3. /\ at'[c] \in {"closing", "queued", "spawn", "done"} /\ asked'[c] = m
      /\ at'[c] = "closing" => m = "aclose"
      /\ at'[c] = "queued" => m \in Locking
      /\ at'[c] = "spawn" => m = "status"
      /\ \A d \in Uses \ {c} : at'[d] = at[d] /\ asked'[d] = asked[d]
  BY <1>0, <1>1 DEF Types
<1>4. kind[c] = "none" /\ c \notin answered /\ lock # c /\ "status" \notin Locking
  BY <1>0, <1>1 DEF CallInv, Before, Holding, Locking
<1>5. ASSUME NEW d \in Uses PROVE CallInv(d)'
  <2>1. CASE d = c
    BY <1>1, <1>3, <1>4, <2>1 DEF CallInv, Before, Holding, Closing
  <2>2. CASE d # c
    BY <1>0, <1>1, <1>3, <2>2 DEF CallInv, Market, Alive
  <2>. QED BY <2>1, <2>2
<1>6. ASSUME NEW x \in Uses PROVE WorkerInv(x)'
  <2>1. \A d \in Uses : Stopping(d, x) => Stopping(d, x)'
    BY <1>1, <1>3 DEF Stopping
  <2>2. Served(x) => Served(x)'
    BY <1>0, <1>1, <1>3, <1>4 DEF Served, Types
  <2>3. CASE x = c
    BY <1>0, <1>1, <1>4, <2>3 DEF WorkerInv, Market, Alive, Busy
  <2>4. CASE x # c
    BY <1>0, <1>1, <1>3, <2>1, <2>2, <2>4 DEF WorkerInv, Market, Alive, Disconnects
  <2>. QED BY <2>3, <2>4
<1>7. ASSUME NEW x \in Uses PROVE ExclusiveInv(x)'
  <2>1. WorkerInv(x) /\ ExclusiveInv(x)
    BY <1>0
  <2>2. Disconnects(x)' => Disconnects(x)
    BY <1>1, <1>3, <1>4, <2>1 DEF Disconnects, Alive, WorkerInv
  <2>3. lock # None => asked'[lock] = asked[lock]
    BY <1>0, <1>3, <1>4 DEF Types
  <2>. QED BY <1>1, <2>1, <2>2, <2>3 DEF ExclusiveInv, Working, Alive
<1>. QED BY <1>0, <1>1, <1>2, <1>5, <1>6, <1>7 DEF Structure, Given, DaemonInv

\* TakeLock, GiveUp and CancelStop: only the call moves.
LEMMA TakeLockKeeps ==
  ASSUME Structure, NEW c \in Uses, TakeLock(c)
  PROVE  Structure'
<1>0. /\ Given /\ Types /\ DaemonInv
      /\ \A d \in Uses : CallInv(d) /\ WorkerInv(d) /\ ExclusiveInv(d)
  BY DEF Structure
<1>1. /\ at[c] = "queued" /\ lock = None
      /\ \/ at' = [at EXCEPT ![c] = "done"] /\ lock' = lock
         \/ /\ at' = [at EXCEPT ![c] = "locked"] /\ lock' = c
            /\ asked[c] \in {"account", "market"} => ~DisconnectActive
      /\ UNCHANGED <<asked, whom, ui, marketDaemon, kind, wpc, answered, loose>>
  BY DEF TakeLock, Goto, procVars, history
<1>2. Types'
  BY <1>0, <1>1 DEF Types, PcLabels
<1>3. /\ at'[c] \in {"done", "locked"} /\ (at'[c] = "locked" <=> lock' = c)
      /\ \A d \in Uses \ {c} : at'[d] = at[d] /\ lock' # d
  BY <1>0, <1>1 DEF Types, Given
<1>4. kind[c] = "none" /\ c \notin answered /\ asked[c] \in Locking
  BY <1>0, <1>1 DEF CallInv, Before
<1>5. ASSUME NEW d \in Uses PROVE CallInv(d)'
  <2>1. CASE d = c
    BY <1>1, <1>3, <1>4, <2>1 DEF CallInv, Before, Holding, Closing
  <2>2. CASE d # c
    <3>1. (at[d] \in Holding => asked[d] \notin Locking) /\ lock' # d
      BY <1>0, <1>1, <1>3, <2>2 DEF CallInv, Given
    <3>. QED BY <1>0, <1>1, <1>3, <2>2, <3>1 DEF CallInv, Market, Alive
  <2>. QED BY <2>1, <2>2
<1>6. ASSUME NEW x \in Uses PROVE WorkerInv(x)'
  <2>1. \A d \in Uses : Stopping(d, x) => Stopping(d, x)'
    BY <1>1, <1>3 DEF Stopping
  <2>2. ~Served(x)
    BY <1>1 DEF Served
  <2>3. CASE x = c
    BY <1>0, <1>1, <1>4, <2>3 DEF WorkerInv, Market, Alive, Busy
  <2>4. CASE x # c
    BY <1>0, <1>1, <1>3, <2>1, <2>2, <2>4 DEF WorkerInv, Market, Alive, Disconnects
  <2>. QED BY <2>3, <2>4
<1>7. ASSUME NEW x \in Uses PROVE ExclusiveInv(x)'
  <2>1. x \notin loose /\ Disconnects(x) => DisconnectActive
    BY <1>0 DEF Disconnects, DisconnectActive, WorkerInv, Alive, Types
  <2>. QED BY <1>0, <1>1, <1>4, <2>1 DEF ExclusiveInv, Disconnects, Working, Alive, Locking
<1>. QED BY <1>0, <1>1, <1>2, <1>5, <1>6, <1>7 DEF Structure, Given, DaemonInv

\* The end of a call: whoever is left at its service is loose, or no longer at
\* work.
LEMMA LeaveKeeps ==
  ASSUME Structure, NEW c \in Uses, Leave(c),
         at[c] \in Holding \union Closing \union {"queued"},
         UNCHANGED <<asked, whom, marketDaemon, kind, wpc, answered>>,
         ui' \in Uses \union {None}, loose \subseteq loose', loose' \subseteq Uses,
         \A w \in loose' : kind[w] # "none",
         \A w \in Uses \ loose' : Alive(w) /\ kind[w] = "ui" => ui' = ui,
         \A w \in Uses \ loose' : lock = c /\ Served(w) /\ wpc[w] \in Busy => Disconnects(w),
         \A w \in Uses \ loose' : Stopping(c, w) => ~Market(w),
         c \notin loose' /\ kind[c] = "once" => ~Alive(c)
  PROVE  Structure'
<1>0. /\ Given /\ Types /\ DaemonInv
      /\ \A d \in Uses : CallInv(d) /\ WorkerInv(d) /\ ExclusiveInv(d)
  BY DEF Structure
<1>1. /\ at' = [at EXCEPT ![c] = "done"]
      /\ lock' = IF lock = c THEN None ELSE lock
  BY DEF Leave, Goto
<1>2. Types'
  BY <1>0, <1>1 DEF Types, PcLabels
<1>3. /\ at'[c] = "done" /\ lock' # c
      /\ \A d \in Uses \ {c} : at'[d] = at[d]
      /\ \A d \in Uses \ {c} : (lock' = d => lock = d) /\ (lock = d => lock' = d)
  BY <1>0, <1>1 DEF Types, Given
<1>4. ASSUME NEW d \in Uses PROVE CallInv(d)'
  <2>1. CASE d = c
    BY <1>3, <2>1 DEF CallInv, Before, Holding, Closing
  <2>2. CASE d # c
    BY <1>0, <1>3, <2>2 DEF CallInv, Market, Alive
  <2>. QED BY <2>1, <2>2
<1>5. ASSUME NEW x \in Uses PROVE WorkerInv(x)'
  <2>1. WorkerInv(x) /\ x # None
    BY <1>0 DEF Given
  <2>2. \A d \in Uses : Stopping(d, x) => Stopping(d, x)' \/ (d = c /\ Stopping(c, x))
    BY <1>3 DEF Stopping
  <2>3. Served(x) => Served(x)' \/ lock = c
    BY <1>0, <1>1, <1>3 DEF Served, Types
  <2>4. x \notin loose' =>
          /\ Market(x) => marketDaemon = x \/ \E d \in Uses : Stopping(d, x)'
          /\ wpc[x] \in Busy => Served(x)' \/ Disconnects(x)
    BY <2>1, <2>2, <2>3 DEF WorkerInv, Market
  <2>5. x \notin loose' /\ Alive(x) /\ kind[x] = "once" => at'[x] \in {"reply", "killing"}
    BY <1>3, <2>1 DEF WorkerInv
  <2>6. x \notin loose' /\ Alive(x) /\ kind[x] = "ui" => ui' = x
    BY <2>1 DEF WorkerInv
  <2>. QED BY <2>1, <2>4, <2>5, <2>6 DEF WorkerInv, Market, Alive, Disconnects
<1>6. ASSUME NEW x \in Uses PROVE ExclusiveInv(x)'
  BY <1>0, <1>1 DEF ExclusiveInv, Disconnects, Working, Alive
<1>. QED BY <1>0, <1>2, <1>4, <1>5, <1>6 DEF Structure, Given, DaemonInv

LEMMA EndKeeps ==
  ASSUME Structure, NEW c \in Uses,
         UiBusy(c) \/ Receive(c) \/ Killed(c) \/ CancelQueued(c) \/ CancelAgain(c)
  PROVE  Structure'
<1>0. /\ Given /\ Types /\ CallInv(c) /\ WorkerInv(c)
      /\ \A d \in Uses : WorkerInv(d)
  BY DEF Structure
<1>1. /\ Leave(c) /\ UNCHANGED <<asked, whom, marketDaemon, kind, wpc, answered, ui>>
      /\ at[c] \in Holding \union Closing \union {"queued"}
  BY DEF UiBusy, Receive, Killed, CancelQueued, CancelAgain, procVars, Holding, Closing
<1>2. ui' \in Uses \union {None}
  BY <1>0, <1>1 DEF Types
<1>3. \A w \in Uses : Alive(w) => kind[w] # "none"
  BY <1>0 DEF WorkerInv, Alive
<1>4. loose \subseteq loose' /\ loose' \subseteq Uses /\ \A w \in loose' : kind[w] # "none"
  <2>1. loose \subseteq Uses /\ \A w \in loose : kind[w] # "none"
    BY <1>0 DEF WorkerInv, Types
  <2>2. CASE CancelAgain(c)
    <3>1. /\ whom[c] \in Uses
          /\ loose' = loose \/ (Alive(whom[c]) /\ loose' = loose \union {whom[c]})
      BY <1>0, <2>2 DEF CancelAgain, CallInv
    <3>. QED BY <1>3, <2>1, <3>1
  <2>3. CASE ~CancelAgain(c)
    BY <2>1, <2>3 DEF UiBusy, Receive, Killed, CancelQueued, history
  <2>. QED BY <2>2, <2>3
<1>5. CASE UiBusy(c) \/ CancelQueued(c)
  <2>1. at[c] \in {"queued", "locked", "spawn", "closing", "close_ui"}
    BY <1>5 DEF UiBusy, CancelQueued
  <2>2. \A w \in Uses : ~(lock = c /\ Served(w)) /\ ~Stopping(c, w)
    BY <2>1 DEF Served, Stopping
  <2>3. kind[c] # "once"
    BY <1>0, <2>1 DEF CallInv, Before, Closing
  <2>. QED BY <1>1, <1>2, <1>4, <2>2, <2>3, LeaveKeeps
<1>6. CASE Receive(c)
  <2>1. /\ at[c] = "reply" /\ c \in answered
        /\ kind[whom[c]] = "once" => ~Alive(whom[c])
    BY <1>6 DEF Receive
  <2>2. \A w \in Uses : /\ ~Stopping(c, w)
                        /\ lock = c /\ Served(w) => wpc[w] \notin Busy
    BY <1>0, <2>1 DEF Served, Stopping, CallInv
  <2>3. kind[c] = "once" => ~Alive(c)
    BY <1>0, <2>1 DEF CallInv, WorkerInv, KindOf
  <2>. QED BY <1>1, <1>2, <1>4, <2>2, <2>3, LeaveKeeps
<1>7. CASE Killed(c)
  <2>1. at[c] = "killing" /\ ~Alive(whom[c]) /\ whom[c] \in Uses
    BY <1>0, <1>7 DEF Killed, CallInv
  <2>2. \A w \in Uses : /\ Stopping(c, w) => ~Market(w)
                        /\ lock = c /\ Served(w) => wpc[w] \notin Busy
    BY <1>0, <2>1 DEF Served, Stopping, Market, Alive, Busy, Given
  <2>3. kind[c] = "once" => ~Alive(c)
    BY <1>0, <2>1 DEF CallInv
  <2>. QED BY <1>1, <1>2, <1>4, <2>2, <2>3, LeaveKeeps
<1>8. CASE CancelAgain(c)
  <2>1. /\ at[c] = "killing" /\ whom[c] \in Uses /\ kind[whom[c]] # "none"
        /\ whom[c] \notin loose' => ~Alive(whom[c]) \/ (DisconnectActive /\ whom[c] = ui)
    BY <1>0, <1>8 DEF CancelAgain, CallInv
  <2>2. DisconnectActive /\ whom[c] = ui => Disconnects(whom[c])
    BY <1>0, <2>1 DEF DisconnectActive, Disconnects, WorkerInv, KindOf
  <2>3. \A w \in Uses \ loose' :
          /\ Stopping(c, w) => w = whom[c]
          /\ lock = c /\ Served(w) => w = whom[c]
    BY DEF Served, Stopping
  <2>4. c \notin loose' /\ kind[c] = "once" => ~Alive(c)
    BY <1>0, <2>1, <2>2 DEF CallInv, Disconnects
  <2>5. \A w \in Uses \ loose' : lock = c /\ Served(w) /\ wpc[w] \in Busy => Disconnects(w)
    BY <1>0, <2>1, <2>2, <2>3 DEF Alive, Busy, Given
  <2>6. \A w \in Uses \ loose' : Stopping(c, w) => ~Market(w)
    BY <2>1, <2>2, <2>3 DEF Market, Disconnects
  <2>. QED BY <1>1, <1>2, <1>4, <2>4, <2>5, <2>6, LeaveKeeps
<1>. QED BY <1>5, <1>6, <1>7, <1>8

LEMMA CloseUiKeeps ==
  ASSUME Structure, NEW c \in Uses, CloseUi(c)
  PROVE  Structure'
<1>0. /\ Given /\ Types /\ DaemonInv
      /\ \A d \in Uses : CallInv(d) /\ WorkerInv(d) /\ ExclusiveInv(d)
  BY DEF Structure
<1>1. /\ at[c] = "close_ui" /\ ui' = None
      /\ UNCHANGED <<asked, marketDaemon, kind, wpc, answered>>
  BY DEF CloseUi, procVars
<1>2. \A w \in Uses \ loose : Alive(w) /\ kind[w] = "ui" => ui = w
  BY <1>0 DEF WorkerInv
<1>3. kind[c] = "none" /\ asked[c] = "aclose" /\ lock # c /\ c \notin answered
  BY <1>0, <1>1 DEF CallInv, Before, Closing, Holding
<1>4. loose \subseteq Uses /\ \A w \in loose : kind[w] # "none"
  BY <1>0 DEF Types, WorkerInv
<1>5. CASE ~Alive(ui)
  <2>1. Leave(c) /\ UNCHANGED <<whom, loose>>
    BY <1>5 DEF CloseUi
  <2>2. \A w \in Uses : /\ ~(lock = c /\ Served(w)) /\ ~Stopping(c, w)
                        /\ w \notin loose /\ Alive(w) /\ kind[w] = "ui" => ui' = ui
    BY <1>1, <1>2, <1>5 DEF Served, Stopping
  <2>. QED BY <1>1, <1>3, <1>4, <2>1, <2>2, LeaveKeeps DEF Closing
<1>6. CASE Alive(ui)
  <2>1. /\ at' = [at EXCEPT ![c] = "killing"] /\ lock' = lock
        /\ whom' = [whom EXCEPT ![c] = ui] /\ loose' = loose \union {ui}
    BY <1>6 DEF CloseUi, Goto
  <2>2. ui \in Uses /\ kind[ui] # "none"
    BY <1>0, <1>6 DEF Types, Alive, WorkerInv
  <2>3. Types'
    BY <1>0, <1>1, <2>1, <2>2 DEF Types, PcLabels
  <2>4. /\ at'[c] = "killing" /\ whom'[c] = ui
        /\ \A d \in Uses \ {c} : at'[d] = at[d] /\ whom'[d] = whom[d]
    BY <1>0, <2>1 DEF Types
  <2>5. ASSUME NEW d \in Uses PROVE CallInv(d)'
    <3>1. CASE d = c
      BY <1>1, <1>3, <2>1, <2>2, <2>4, <3>1 DEF CallInv, Before, Holding, Closing, Locking
    <3>2. CASE d # c
      BY <1>0, <1>1, <2>1, <2>4, <3>2 DEF CallInv, Market, Alive
    <3>. QED BY <3>1, <3>2
  <2>6. ASSUME NEW x \in Uses PROVE WorkerInv(x)'
    <3>1. WorkerInv(x) /\ ~Stopping(c, x)
      BY <1>0, <1>1 DEF Stopping
    <3>2. \A d \in Uses : Stopping(d, x) => Stopping(d, x)'
      BY <2>4, <3>1 DEF Stopping
    <3>3. Served(x) => Served(x)'
      BY <1>0, <1>3, <2>1, <2>4 DEF Served, Types
    <3>4. at[x] \in {"reply", "killing"} => at'[x] = at[x]
      BY <1>1, <2>4
    <3>5. x \notin loose' => ~(Alive(x) /\ kind[x] = "ui")
      BY <2>1, <3>1 DEF WorkerInv
    <3>. QED BY <1>1, <2>1, <2>2, <3>1, <3>2, <3>3, <3>4, <3>5
           DEF WorkerInv, Market, Alive, Disconnects
  <2>7. ASSUME NEW x \in Uses PROVE ExclusiveInv(x)'
    BY <1>0, <1>1, <2>1 DEF ExclusiveInv, Disconnects, Working, Alive
  <2>. QED BY <1>0, <1>1, <2>3, <2>5, <2>6, <2>7 DEF Structure, Given, DaemonInv
<1>. QED BY <1>5, <1>6

\* With the market daemon's lock free, the only market worker is the daemon.
LEMMA MarketFree ==
  ASSUME Structure, ~MarketLocked, NEW w \in Uses \ loose, Market(w)
  PROVE  marketDaemon = w
<1>1. WorkerInv(w)
  BY DEF Structure
<1>2. \A c \in Uses : ~Stopping(c, w)
  BY DEF MarketLocked, Stopping, Market
<1>. QED BY <1>1, <1>2 DEF WorkerInv

LEMMA StopMarketKeeps ==
  ASSUME Structure, NEW c \in Uses, StopMarket(c)
  PROVE  Structure'
<1>0. /\ Given /\ Types /\ DaemonInv
      /\ \A d \in Uses : CallInv(d) /\ WorkerInv(d) /\ ExclusiveInv(d)
  BY DEF Structure
<1>1. /\ (at[c] = "locked" /\ asked[c] # "market") \/ at[c] = "closing"
      /\ marketDaemon' = None
      /\ UNCHANGED <<asked, lock, ui, answered, kind, wpc, loose>>
  BY DEF StopMarket, procVars, history
<1>2. \A w \in Uses \ loose : Market(w) => w = marketDaemon
  BY MarketFree DEF StopMarket
<1>3. \/ /\ Alive(marketDaemon)
         /\ at' = [at EXCEPT ![c] = IF at[c] = "locked" THEN "stop_market" ELSE "close_market"]
         /\ whom' = [whom EXCEPT ![c] = marketDaemon]
      \/ /\ ~Alive(marketDaemon)
         /\ at' = [at EXCEPT ![c] = IF at[c] = "locked" THEN "spawn" ELSE "close_ui"]
         /\ whom' = whom
  BY DEF StopMarket, Goto
<1>4. Types'
  BY <1>0, <1>1, <1>3 DEF Types, PcLabels, Alive
<1>5. /\ at'[c] \in {"stop_market", "close_market", "spawn", "close_ui"}
      /\ at'[c] \in {"stop_market", "spawn"} => at[c] = "locked"
      /\ at'[c] \in {"close_market", "close_ui"} => at[c] = "closing"
      /\ at'[c] \in {"stop_market", "close_market"} =>
           Alive(marketDaemon) /\ whom'[c] = marketDaemon
      /\ at'[c] \in {"spawn", "close_ui"} => ~Alive(marketDaemon)
      /\ \A d \in Uses \ {c} : at'[d] = at[d] /\ whom'[d] = whom[d]
  BY <1>0, <1>1, <1>3 DEF Types
<1>6. Alive(marketDaemon) => marketDaemon \in Uses /\ kind[marketDaemon] = "market"
  BY <1>0 DEF Types, DaemonInv, Alive
<1>7. ASSUME NEW d \in Uses PROVE CallInv(d)'
  <2>1. CASE d = c
    <3>1. CallInv(c)
      BY <1>0
    <3>2. at'[c] = "spawn" => \A w \in Uses \ loose : ~Market(w)
      BY <1>2, <1>5 DEF Market
    <3>3. at'[c] = "stop_market" => \A w \in Uses \ loose : Market(w) => w = whom'[c]
      BY <1>2, <1>5
    <3>. QED BY <1>1, <1>5, <1>6, <2>1, <3>1, <3>2, <3>3
           DEF CallInv, Before, Holding, Closing, Market, Alive
  <2>2. CASE d # c
    BY <1>0, <1>1, <1>5, <2>2 DEF CallInv, Market, Alive
  <2>. QED BY <2>1, <2>2
<1>8. ASSUME NEW x \in Uses PROVE WorkerInv(x)'
  <2>1. Served(x) => Served(x)'
    BY <1>0, <1>1, <1>5 DEF Served, Types
  <2>2. x \notin loose /\ Market(x) => Stopping(c, x)'
    BY <1>2, <1>5 DEF Stopping, Market
  <2>3. at[x] \in {"reply", "killing"} => at'[x] = at[x]
    BY <1>1, <1>5
  <2>. QED BY <1>0, <1>1, <2>1, <2>2, <2>3 DEF WorkerInv, Market, Alive, Disconnects
<1>9. ASSUME NEW x \in Uses PROVE ExclusiveInv(x)'
  BY <1>0, <1>1 DEF ExclusiveInv, Disconnects, Working, Alive
<1>. QED BY <1>0, <1>1, <1>4, <1>7, <1>8, <1>9 DEF Structure, Given, DaemonInv

LEMMA MarketStoppedKeeps ==
  ASSUME Structure, NEW c \in Uses, MarketStopped(c)
  PROVE  Structure'
<1>0. /\ Given /\ Types /\ DaemonInv
      /\ \A d \in Uses : CallInv(d) /\ WorkerInv(d) /\ ExclusiveInv(d)
  BY DEF Structure
<1>1. /\ at[c] \in {"stop_market", "close_market"} /\ ~Alive(whom[c])
      /\ at' = [at EXCEPT ![c] = IF at[c] = "stop_market" THEN "spawn" ELSE "close_ui"]
      /\ UNCHANGED <<asked, whom, lock, ui, marketDaemon, answered, kind, wpc, loose>>
  BY DEF MarketStopped, Goto, procVars, history
<1>2. Types'
  BY <1>0, <1>1 DEF Types, PcLabels
<1>3. /\ at[c] = "stop_market" => at'[c] = "spawn"
      /\ at[c] = "close_market" => at'[c] = "close_ui"
      /\ \A d \in Uses \ {c} : at'[d] = at[d]
  BY <1>0, <1>1 DEF Types
<1>4. CallInv(c)
  BY <1>0
<1>5. ASSUME NEW d \in Uses PROVE CallInv(d)'
  <2>1. CASE d = c
    BY <1>1, <1>3, <1>4, <2>1 DEF CallInv, Before, Holding, Closing, Market, Alive
  <2>2. CASE d # c
    BY <1>0, <1>1, <1>3, <2>2 DEF CallInv, Market, Alive
  <2>. QED BY <2>1, <2>2
<1>6. ASSUME NEW x \in Uses PROVE WorkerInv(x)'
  <2>1. /\ Served(x) => Served(x)'
        /\ \A d \in Uses : Stopping(d, x) => Stopping(d, x)' \/ ~Alive(x)
    BY <1>0, <1>1, <1>3 DEF Served, Stopping, Types
  <2>2. at[x] \in {"reply", "killing"} => at'[x] = at[x]
    BY <1>1, <1>3
  <2>. QED BY <1>0, <1>1, <2>1, <2>2 DEF WorkerInv, Market, Alive, Disconnects
<1>7. ASSUME NEW x \in Uses PROVE ExclusiveInv(x)'
  BY <1>0, <1>1 DEF ExclusiveInv, Disconnects, Working, Alive
<1>. QED BY <1>0, <1>1, <1>2, <1>5, <1>6, <1>7 DEF Structure, Given, DaemonInv

LEMMA GiveUpKeeps ==
  ASSUME Structure, NEW c \in Uses, GiveUp(c) \/ CancelStop(c)
  PROVE  Structure'
<1>0. /\ Given /\ Types /\ DaemonInv
      /\ \A d \in Uses : CallInv(d) /\ WorkerInv(d) /\ ExclusiveInv(d)
  BY DEF Structure
<1>1. /\ at[c] \in {"reply", "stop_market", "close_market"}
      /\ at' = [at EXCEPT ![c] = "killing"]
      /\ \/ marketDaemon' = marketDaemon
         \/ marketDaemon = whom[c] /\ marketDaemon' = None
      /\ UNCHANGED <<asked, whom, lock, ui, answered, kind, wpc, loose>>
  BY DEF GiveUp, CancelStop, Goto, procVars, history
<1>2. Types'
  BY <1>0, <1>1 DEF Types, PcLabels
<1>3. at'[c] = "killing" /\ \A d \in Uses \ {c} : at'[d] = at[d]
  BY <1>0, <1>1 DEF Types
<1>4. /\ whom[c] \in Uses /\ kind[whom[c]] # "none"
      /\ kind[c] \in {"once", "ui"} => whom[c] = c
  <2>1. CASE at[c] = "reply"
    BY <1>0, <2>1 DEF CallInv, WorkerInv, KindOf
  <2>2. CASE at[c] # "reply"
    BY <1>0, <1>1, <2>2 DEF CallInv, Before, Closing
  <2>. QED BY <2>1, <2>2
<1>5. ASSUME NEW d \in Uses PROVE CallInv(d)'
  <2>1. CASE d = c
    <3>1. CallInv(c) /\ at[c] \in Holding \union Closing
      BY <1>0, <1>1 DEF Holding, Closing
    <3>2. lock = c => asked[c] \in Locking
      BY <3>1 DEF CallInv
    <3>3. asked[c] \in Locking => lock = c
      BY <1>1, <3>1 DEF CallInv, Holding, Closing, Locking
    <3>. QED BY <1>1, <1>3, <1>4, <2>1, <3>2, <3>3 DEF CallInv, Before, Holding, Closing
  <2>2. CASE d # c
    BY <1>0, <1>1, <1>3, <2>2 DEF CallInv, Market, Alive
  <2>. QED BY <2>1, <2>2
<1>6. ASSUME NEW x \in Uses PROVE WorkerInv(x)'
  <2>1. /\ Served(x) => Served(x)'
        /\ \A d \in Uses : Stopping(d, x) => Stopping(d, x)'
    BY <1>0, <1>1, <1>3 DEF Served, Stopping, Types
  <2>2. marketDaemon = x => marketDaemon' = x \/ Stopping(c, x)'
    BY <1>1, <1>3 DEF Stopping
  <2>3. at[x] \in {"reply", "killing"} => at'[x] \in {"reply", "killing"}
    BY <1>1, <1>3
  <2>. QED BY <1>0, <1>1, <2>1, <2>2, <2>3 DEF WorkerInv, Market, Alive, Disconnects
<1>7. ASSUME NEW x \in Uses PROVE ExclusiveInv(x)'
  BY <1>0, <1>1 DEF ExclusiveInv, Disconnects, Working, Alive
<1>. QED BY <1>0, <1>1, <1>2, <1>5, <1>6, <1>7 DEF Structure, Given, DaemonInv

\* The holder of the operation lock that has not sent its command yet is alone
\* with the loose workers and a disconnect worker left behind.
LEMMA HolderAlone ==
  ASSUME Structure, NEW c \in Uses, lock = c, at[c] \in {"locked", "spawn"},
         NEW w \in Uses \ loose
  PROVE  /\ ~(Alive(w) /\ kind[w] = "once")
         /\ wpc[w] \in Busy => Disconnects(w)
<1>0. Given /\ \A d \in Uses : CallInv(d) /\ WorkerInv(d)
  BY DEF Structure
<1>1. ~Served(w)
  BY DEF Served
<1>2. Alive(w) /\ kind[w] = "once" => at[w] \in Holding /\ asked[w] \in Locking
  BY <1>0 DEF WorkerInv, Holding
<1>3. Alive(w) /\ kind[w] = "once" => w = c /\ at[c] \in {"reply", "killing"}
  BY <1>0, <1>2 DEF CallInv, WorkerInv
<1>. QED BY <1>0, <1>1, <1>3 DEF WorkerInv

LEMMA SpawnKeeps ==
  ASSUME Structure, NEW c \in Uses, Spawn(c)
  PROVE  Structure'
<1>0. /\ Given /\ Types /\ DaemonInv
      /\ \A d \in Uses : CallInv(d) /\ WorkerInv(d) /\ ExclusiveInv(d)
  BY DEF Structure
<1>1. /\ at[c] \in {"locked", "spawn"}
      /\ kind' = [kind EXCEPT ![c] = KindOf(asked[c])]
      /\ whom' = [whom EXCEPT ![c] = c]
      /\ wpc' = [wpc EXCEPT ![c] = "load"]
      /\ ui' = IF KindOf(asked[c]) = "ui" THEN c ELSE ui
      /\ marketDaemon' = IF asked[c] = "market" THEN c ELSE marketDaemon
      /\ at' = [at EXCEPT ![c] = "reply"]
      /\ loose' = IF Unguarded(c) THEN loose \union {c} ELSE loose
      /\ UNCHANGED <<asked, lock, answered>>
  BY DEF Spawn, Move, Goto
<1>2. /\ KindOf(asked[c]) \in {"ui", "once", "market"}
      /\ KindOf(asked[c]) = "ui" <=> asked[c] \in {"connect", "disconnect"}
      /\ KindOf(asked[c]) = "market" <=> asked[c] = "market"
  BY DEF KindOf
<1>3. Types'
  BY <1>0, <1>1, <1>2 DEF Types, PcLabels, WorkerLabels
<1>4. /\ at'[c] = "reply" /\ kind'[c] = KindOf(asked[c]) /\ whom'[c] = c /\ wpc'[c] = "load"
      /\ \A d \in Uses \ {c} :
           at'[d] = at[d] /\ kind'[d] = kind[d] /\ whom'[d] = whom[d] /\ wpc'[d] = wpc[d]
  BY <1>0, <1>1 DEF Types
<1>5. /\ kind[c] = "none" /\ wpc[c] = "unused" /\ c \notin answered /\ c \notin loose
      /\ asked[c] \in Locking \union {"status"}
      /\ asked[c] # "status" => asked[c] \in Locking /\ lock = c
      /\ asked[c] = "status" => lock # c /\ c \in loose' /\ at[c] = "spawn"
  BY <1>0, <1>1 DEF CallInv, WorkerInv, Before, Holding, Unguarded, Locking
<1>6. asked[c] # "status" => \A w \in Uses \ loose : ~Market(w)
  <2>1. CASE at[c] = "spawn"
    BY <1>0, <2>1 DEF CallInv
  <2>2. CASE at[c] = "locked"
    <3>1. ~MarketLocked /\ ~Alive(marketDaemon)
      BY <2>2 DEF Spawn
    <3>. QED BY <3>1, MarketFree DEF Market
  <2>. QED BY <1>1, <2>1, <2>2
<1>7. asked[c] # "status" =>
        \A w \in Uses \ loose : /\ ~(Alive(w) /\ kind[w] = "once")
                                /\ wpc[w] \in Busy => Disconnects(w)
  BY <1>1, <1>5, HolderAlone
<1>8. \A w \in Uses \ loose : Alive(w) /\ kind[w] = "ui" => ui' = w
  <2>1. CASE KindOf(asked[c]) = "ui"
    <3>1. ~Alive(ui)
      BY <1>2, <2>1 DEF Spawn
    <3>. QED BY <1>0, <3>1 DEF WorkerInv
  <2>2. CASE KindOf(asked[c]) # "ui"
    BY <1>0, <1>1, <2>2 DEF WorkerInv
  <2>. QED BY <2>1, <2>2
<1>9. \A d \in Uses \ {c} : asked[c] # "status" /\ at[d] \in Holding => asked[d] \notin Locking
  BY <1>0, <1>5 DEF CallInv
<1>10. ASSUME NEW d \in Uses PROVE CallInv(d)'
  <2>1. CASE d = c
    <3>1. lock = c <=> asked[c] \in Locking
      BY <1>5 DEF Locking
    <3>. QED BY <1>1, <1>4, <1>5, <2>1, <3>1 DEF CallInv, Before, Holding, Closing, KindOf
  <2>2. CASE d # c
    <3>1. CallInv(d)
      BY <1>0
    <3>2. at[d] \in {"killing", "stop_market", "close_market"} => whom[d] # c
      BY <1>5, <3>1
        DEF CallInv
    <3>3. at[d] = "reply" => whom[d] # c
      BY <1>2, <1>5, <3>1 DEF CallInv, KindOf
    <3>4. asked[d] # "status" /\ at[d] = "spawn" => asked[c] = "status"
      BY <1>9, <2>2, <3>1 DEF CallInv, Holding
    <3>5. at[d] = "stop_market" => asked[c] = "status"
      BY <1>9, <2>2, <3>1 DEF CallInv, Holding
    <3>6. asked[c] = "status" => c \in loose'
      BY <1>5
    <3>7. \A w \in Uses \ loose' : Market(w)' => w = c \/ Market(w)
      BY <1>1, <1>4 DEF Market, Alive
    <3>8. loose \subseteq loose'
      BY <1>1
    <3>9. (at[d] = "spawn" /\ asked[d] # "status") => \A w \in Uses \ loose' : ~Market(w)'
      BY <3>1, <3>4, <3>6, <3>7, <3>8 DEF CallInv
    <3>10. at[d] = "stop_market" => \A w \in Uses \ loose' : Market(w)' => w = whom[d]
      BY <3>1, <3>5, <3>6, <3>7, <3>8 DEF CallInv
    <3>. QED BY <1>1, <1>4, <2>2, <3>1, <3>2, <3>3, <3>9, <3>10 DEF CallInv
  <2>. QED BY <2>1, <2>2
<1>11. ASSUME NEW x \in Uses PROVE WorkerInv(x)'
  <2>1. CASE x = c
    <3>1. c \notin loose' => Served(c)' /\ (kind'[c] = "ui" => ui' = c)
             /\ (kind'[c] = "market" => marketDaemon' = c)
      BY <1>0, <1>1, <1>2, <1>4, <1>5 DEF Served, Given
    <3>. QED BY <1>1, <1>2, <1>4, <1>5, <2>1, <3>1 DEF WorkerInv, Market, Alive
  <2>2. CASE x # c
    <3>1. /\ Alive(x)' <=> Alive(x)
          /\ Market(x)' <=> Market(x)
          /\ Disconnects(x)' <=> Disconnects(x)
      BY <1>1, <1>4, <2>2 DEF Alive, Market, Disconnects
    <3>2. WorkerInv(x) /\ (x \in loose' <=> x \in loose)
      BY <1>0, <1>1, <2>2
    <3>3. x \notin loose /\ wpc[x] \in Busy => Served(x)' \/ Disconnects(x)
      <4>1. CASE asked[c] = "status"
        <5>1. Served(x) => Served(x)'
          BY <1>0, <1>1, <1>4, <1>5, <4>1 DEF Served, Types
        <5>. QED BY <3>2, <5>1 DEF WorkerInv
      <4>2. CASE asked[c] # "status"
        BY <1>7, <4>2
      <4>. QED BY <4>1, <4>2
    <3>4. x \notin loose /\ Alive(x) /\ kind[x] = "once" => at'[x] \in {"reply", "killing"}
      BY <1>4, <2>2, <3>2 DEF WorkerInv
    <3>5. x \notin loose /\ Market(x) =>
            marketDaemon' = x \/ \E d \in Uses : Stopping(d, x)'
      <4>1. CASE asked[c] = "status"
        <5>1. \A d \in Uses : Stopping(d, x) => Stopping(d, x)'
          BY <1>1, <1>4 DEF Stopping
        <5>. QED BY <1>1, <3>2, <4>1, <5>1 DEF WorkerInv
      <4>2. CASE asked[c] # "status"
        BY <1>6, <4>2
      <4>. QED BY <4>1, <4>2
    <3>. QED BY <1>1, <1>4, <1>8, <2>2, <3>1, <3>2, <3>3, <3>4, <3>5 DEF WorkerInv
  <2>. QED BY <2>1, <2>2
<1>12. ASSUME NEW x \in Uses \ loose', Disconnects(x)'
       PROVE  /\ \A w \in Uses \ loose' : ~Working(w)'
              /\ lock' # None => asked'[lock'] \notin {"account", "market"}
  <2>1. CASE x = c
    <3>1. asked[c] = "disconnect" /\ kind'[c] = "ui"
      BY <1>1, <1>12, <2>1 DEF Disconnects
    <3>2. lock = c /\ \A w \in Uses \ loose : ~Working(w)
      BY <1>0, <1>5, <1>6, <1>7, <3>1 DEF Working, Market
    <3>. QED BY <1>1, <1>4, <3>1, <3>2 DEF Working, Alive
  <2>2. CASE x # c
    <3>1. Disconnects(x) /\ x \notin loose
      BY <1>1, <1>4, <1>12, <2>2 DEF Disconnects, Alive
    <3>2. /\ \A w \in Uses \ loose : ~Working(w)
          /\ lock # None => asked[lock] \notin {"account", "market"}
      BY <1>0, <3>1 DEF ExclusiveInv
    <3>3. ui = x /\ DisconnectActive /\ Alive(ui)
      BY <1>0, <3>1 DEF WorkerInv, Disconnects, DisconnectActive
    <3>4. c \in loose'
      <4>1. KindOf(asked[c]) # "ui"
        BY <3>3 DEF Spawn, KindOf
      <4>2. asked[c] \in {"status", "health_status"}
        BY <1>0, <1>2, <1>5, <3>2, <4>1 DEF Given, Locking
      <4>. QED BY <1>1, <3>3, <4>2 DEF Unguarded
    <3>. QED BY <1>1, <1>4, <3>2, <3>4 DEF Working, Alive
  <2>. QED BY <2>1, <2>2
<1>13. \A x \in Uses : ExclusiveInv(x)'
  BY <1>12 DEF ExclusiveInv
<1>14. DaemonInv'
  BY <1>0, <1>1, <1>2, <1>4, <1>5 DEF DaemonInv, Types
<1>. QED BY <1>0, <1>3, <1>10, <1>11, <1>13, <1>14 DEF Structure, Given

LEMMA SendMarketKeeps ==
  ASSUME Structure, NEW c \in Uses, SendMarket(c)
  PROVE  Structure'
<1>0. /\ Given /\ Types /\ DaemonInv
      /\ \A d \in Uses : CallInv(d) /\ WorkerInv(d) /\ ExclusiveInv(d)
  BY DEF Structure
<1> DEFINE md == marketDaemon
<1>1. /\ at[c] = "locked" /\ asked[c] = "market" /\ ~MarketLocked /\ Alive(md)
      /\ whom' = [whom EXCEPT ![c] = md] /\ at' = [at EXCEPT ![c] = "reply"]
      /\ UNCHANGED <<asked, lock, ui, marketDaemon, answered, kind, loose>>
  BY DEF SendMarket, Goto, history
<1>2. PICK l \in {"load", "operate"} : wpc' = [wpc EXCEPT ![md] = l]
  BY DEF SendMarket, Move
<1>3. md \in Uses /\ kind[md] = "market"
  BY <1>0, <1>1 DEF Types, DaemonInv, Alive
<1>4. Types'
  BY <1>0, <1>1, <1>2, <1>3 DEF Types, PcLabels, WorkerLabels
<1>5. /\ at'[c] = "reply" /\ whom'[c] = md /\ wpc'[md] \in {"load", "operate"}
      /\ \A d \in Uses \ {c} : at'[d] = at[d] /\ whom'[d] = whom[d]
      /\ \A w \in Uses \ {md} : wpc'[w] = wpc[w]
  BY <1>0, <1>1, <1>2, <1>3 DEF Types
<1>6. \A w \in Uses : Alive(w)' <=> Alive(w)
  BY <1>1, <1>5 DEF Alive
<1>7. /\ lock = c /\ c \notin answered
      /\ \A d \in Uses \ {c} : at[d] \in Holding => asked[d] \notin Locking
      /\ \A w \in Uses \ loose : /\ ~(Alive(w) /\ kind[w] = "once")
                                 /\ wpc[w] \in Busy => Disconnects(w)
  <2>1. lock = c /\ c \notin answered
    BY <1>0, <1>1 DEF CallInv, Holding, Before
  <2>. QED BY <1>0, <1>1, <2>1, HolderAlone DEF CallInv
<1>8. ASSUME NEW d \in Uses PROVE CallInv(d)'
  <2>1. CASE d = c
    BY <1>0, <1>1, <1>3, <1>5, <1>7, <2>1 DEF CallInv, Before, Holding, Closing, KindOf, Locking
  <2>2. CASE d # c
    <3>1. CallInv(d)
      BY <1>0
    <3>2. at[d] = "reply" => whom[d] # md
      <4>1. at[d] = "reply" => asked[d] = "status"
        BY <1>7, <2>2, <3>1 DEF CallInv, Holding
      <4>. QED BY <1>3, <3>1, <4>1 DEF CallInv, KindOf
    <3>3. \A w \in Uses : Market(w)' <=> Market(w)
      BY <1>1, <1>6 DEF Market
    <3>. QED BY <1>1, <1>5, <2>2, <3>1, <3>2, <3>3 DEF CallInv
  <2>. QED BY <2>1, <2>2
<1>9. ASSUME NEW x \in Uses PROVE WorkerInv(x)'
  <2>1. x = md => Served(x)'
    BY <1>0, <1>1, <1>5, <1>7 DEF Served, Given
  <2>2. x # md => wpc'[x] = wpc[x]
    BY <1>5
  <2>3. x \notin loose /\ Market(x) => marketDaemon = x
    BY <1>1, MarketFree
  <2>4. /\ WorkerInv(x) /\ (Alive(x)' <=> Alive(x)) /\ (Disconnects(x)' <=> Disconnects(x))
        /\ x \notin loose => /\ ~(Alive(x) /\ kind[x] = "once")
                             /\ wpc[x] \in Busy => Disconnects(x)
    BY <1>0, <1>1, <1>6, <1>7 DEF Disconnects
  <2>5. kind[x] = "none" => wpc'[x] = "unused"
    BY <1>3, <1>5, <2>4 DEF WorkerInv
  <2>. QED BY <1>1, <2>1, <2>2, <2>3, <2>4, <2>5 DEF WorkerInv, Market
<1>10. ASSUME NEW x \in Uses PROVE ExclusiveInv(x)'
  BY <1>0, <1>1, <1>6 DEF ExclusiveInv, Disconnects, Working
<1>. QED BY <1>0, <1>1, <1>4, <1>8, <1>9, <1>10 DEF Structure, Given, DaemonInv

LEMMA CallsKeep ==
  ASSUME Structure, NEW c \in Uses, BrokerStep(c) \/ GiveUp(c) \/ CancelUse(c)
  PROVE  Structure'
BY TakeLockKeeps, StopMarketKeeps, EndKeeps, CloseUiKeeps, SpawnKeeps, SendMarketKeeps,
   MarketStoppedKeeps, GiveUpKeeps DEF BrokerStep, CancelUse

-----------------------------------------------------------------------------
(* The credential.                                                          *)

LEMMA NoneIsNoLogin ==
  ASSUME Given, NEW n \in Nat, NEW S, S \subseteq 1 .. n
  PROVE  None \notin S
<1>1. \A i \in S : i \in Nat
  OBVIOUS
<1>. QED BY <1>1 DEF Given

\* A call or a step of the broker starts a worker, or leaves it alone.
LEMMA BrokerData ==
  ASSUME Inv, UNCHANGED <<storeVars, held, crossed>>, loose \subseteq loose',
         ~crossed => \A x \in Uses \ loose :
           \/ wpc'[x] = wpc[x] /\ kind'[x] = kind[x] /\ asked'[x] = asked[x]
           \/ wpc'[x] = "unused" /\ held[x] = None
           \/ wpc'[x] = "load" /\ held[x] \notin removed
           \/ wpc'[x] = "operate" /\ kind'[x] = "market" /\ held[x] \notin removed
  PROVE  Data'
<1>1. None \notin Uses /\ None \notin removed /\ Data
  BY NoneIsNoLogin DEF Inv, Structure, Given, Data, LoginTypes
<1>2. ASSUME ~crossed, NEW x \in Uses \ loose PROVE StoreInv(x)'
  BY <1>1, <1>2 DEF StoreInv, Alive, storeVars, Data, Uncrossed
<1>. QED BY <1>1, <1>2 DEF Data, Uncrossed, LoginTypes, storeVars

LEMMA CallsKeepData ==
  ASSUME Inv, NEW c \in Uses, BrokerStep(c) \/ GiveUp(c) \/ CancelUse(c)
  PROVE  Data'
<1>0. /\ Given /\ Types /\ DaemonInv /\ LoginTypes
      /\ CallInv(c) /\ WorkerInv(c)
      /\ ~crossed => \A d \in Uses \ loose : StoreInv(d)
  BY DEF Inv, Structure, Data, Uncrossed
<1>1. None \notin removed
  BY <1>0, NoneIsNoLogin DEF LoginTypes
<1>2. UNCHANGED <<storeVars, held, crossed, asked>> /\ loose \subseteq loose'
  BY DEF BrokerStep, CancelUse, TakeLock, UiBusy, Receive, Killed, GiveUp, StopMarket,
     MarketStopped, CloseUi, CancelQueued, CancelStop, CancelAgain, Spawn, SendMarket,
     procVars, history
<1>3. CASE Spawn(c)
  <2>1. /\ kind' = [kind EXCEPT ![c] = KindOf(asked[c])]
        /\ wpc' = [wpc EXCEPT ![c] = "load"] /\ at[c] \in {"locked", "spawn"}
    BY <1>3 DEF Spawn, Move
  <2>2. ~crossed => held[c] = None
    BY <1>0, <2>1 DEF CallInv, WorkerInv, StoreInv, Alive, Before
  <2>3. ~crossed => \A x \in Uses \ loose :
           \/ wpc'[x] = wpc[x] /\ kind'[x] = kind[x] /\ asked'[x] = asked[x]
           \/ wpc'[x] = "load" /\ held[x] \notin removed
    BY <1>0, <1>1, <1>2, <2>1, <2>2 DEF Types
  <2>. QED BY <1>2, <2>3, BrokerData
<1>4. CASE SendMarket(c)
  <2>1. /\ kind' = kind /\ Alive(marketDaemon)
        /\ \E l \in {"load", "operate"} : wpc' = [wpc EXCEPT ![marketDaemon] = l]
    BY <1>4 DEF SendMarket, Move
  <2>2. marketDaemon \in Uses /\ kind[marketDaemon] = "market"
    BY <1>0, <2>1 DEF Types, DaemonInv, Alive
  <2>3. ~crossed /\ marketDaemon \notin loose => held[marketDaemon] \notin removed
    BY <1>0, <2>2 DEF StoreInv
  <2>4. ~crossed => \A x \in Uses \ loose :
           \/ wpc'[x] = wpc[x] /\ kind'[x] = kind[x] /\ asked'[x] = asked[x]
           \/ wpc'[x] = "load" /\ held[x] \notin removed
           \/ wpc'[x] = "operate" /\ kind'[x] = "market" /\ held[x] \notin removed
    BY <1>0, <1>2, <2>1, <2>2, <2>3 DEF Types
  <2>. QED BY <1>2, <2>4, BrokerData
<1>5. CASE ~Spawn(c) /\ ~SendMarket(c)
  <2>1. UNCHANGED <<kind, wpc>>
    BY <1>5 DEF BrokerStep, CancelUse, TakeLock, UiBusy, Receive, Killed, GiveUp, StopMarket,
     MarketStopped, CloseUi, CancelQueued, CancelStop, CancelAgain, procVars
  <2>. QED BY <1>2, <2>1, BrokerData
<1>. QED BY <1>3, <1>4, <1>5

LEMMA BeginKeepsData ==
  ASSUME Inv, NEW c \in Uses, NEW m \in PersistentMethods, BeginPersistent(c, m)
  PROVE  Data'
<1>1. /\ at[c] = "idle" /\ asked' = [asked EXCEPT ![c] = m]
      /\ UNCHANGED <<kind, wpc, held, storeVars, crossed, loose>>
  BY DEF BeginPersistent, procVars, history
<1>2. Types /\ Given /\ CallInv(c) /\ WorkerInv(c)
      /\ (~crossed => \A x \in Uses \ loose : StoreInv(x))
  BY DEF Inv, Structure, Data, Uncrossed
<1>3. wpc[c] = "unused" /\ c \notin loose /\ (~crossed => held[c] = None)
  BY <1>1, <1>2 DEF CallInv, WorkerInv, StoreInv, Alive, Before
<1>4. ~crossed => \A x \in Uses \ loose :
           \/ wpc'[x] = wpc[x] /\ kind'[x] = kind[x] /\ asked'[x] = asked[x]
           \/ wpc'[x] = "unused" /\ held[x] = None
  BY <1>1, <1>2, <1>3 DEF Types
<1>. QED BY <1>1, <1>4, BrokerData

\* At most one worker that is not loose is at work: the one the holder of the
\* operation lock waits for, or a disconnect worker that was left behind.
LEMMA OneAtWork ==
  ASSUME Structure, NEW w \in Uses \ loose, NEW x \in Uses \ loose,
         wpc[w] \in Busy, wpc[x] \in Busy
  PROVE  w = x
<1>1. \A d \in Uses : Types /\ Given /\ WorkerInv(d) /\ ExclusiveInv(d)
  BY DEF Structure
<1>2. ASSUME NEW y \in Uses \ loose, NEW z \in Uses \ loose, wpc[z] \in Busy, Disconnects(y)
      PROVE  y = z
  <2>1. Alive(z) /\ kind[z] \in {"once", "market", "ui"}
    BY <1>1, <1>2 DEF Alive, Busy, WorkerInv, Types, Given
  <2>2. kind[z] = "ui"
    BY <1>1, <1>2, <2>1 DEF ExclusiveInv, Working
  <2>. QED BY <1>1, <1>2, <2>1, <2>2 DEF WorkerInv, Disconnects
<1>3. Served(w) \/ Disconnects(w)
  BY <1>1 DEF WorkerInv
<1>4. Served(x) \/ Disconnects(x)
  BY <1>1 DEF WorkerInv
<1>. QED BY <1>2, <1>3, <1>4 DEF Served

\* A worker's step changes its own place and memory; the others keep theirs.
\* That of a loose worker leaves the store alone, or everything is crossed.
LEMMA WorkerData ==
  ASSUME Inv, NEW w \in Uses, UNCHANGED <<asked, kind, loose>>, LoginTypes',
         crossed' \in BOOLEAN, crossed => crossed',
         \A x \in Uses \ {w} : wpc'[x] = wpc[x] /\ held'[x] = held[x],
         ~crossed' => store' \notin removed',
         ~crossed' /\ w \notin loose => StoreInv(w)',
         ~crossed' => \A x \in Uses \ (loose \union {w}) :
           held[x] \in removed' => held[x] \in removed \/ ~Working(x),
         ~crossed' => store' = store \/ \A x \in Uses \ (loose \union {w}) :
           wpc[x] \notin {"validate", "save", "delete"}
           /\ (wpc[x] = "operate" => kind[x] # "once")
           /\ (wpc[x] = "page" /\ asked[x] = "connect" => store' = None)
  PROVE  Data'
<1>1. Given /\ Types /\ \A x \in Uses : WorkerInv(x)
  BY DEF Inv, Structure
<1>2. None \notin removed' /\ None \notin Uses
  BY <1>1, NoneIsNoLogin DEF LoginTypes, Given
<1>3. ASSUME ~crossed', NEW x \in Uses \ (loose \union {w}) PROVE StoreInv(x)'
  <2>1. StoreInv(x) /\ wpc'[x] = wpc[x] /\ held'[x] = held[x] /\ kind'[x] = kind[x]
        /\ asked'[x] = asked[x]
    BY <1>1, <1>3 DEF Inv, Data, Uncrossed
  <2>2. kind[x] \notin {"ui", "none"} => held[x] \notin removed'
    BY <1>1, <1>2, <1>3, <2>1 DEF StoreInv, Working, Types
  <2>3. kind[x] = "none" => held[x] = None
    BY <1>1, <2>1 DEF StoreInv, WorkerInv, Alive
  <2>4. store' = store \/ /\ wpc[x] \notin {"validate", "save", "delete"}
                          /\ wpc[x] = "operate" => kind[x] # "once"
                          /\ wpc[x] = "page" /\ asked[x] = "connect" => store' = None
    BY <1>3
  <2>. QED BY <1>2, <2>1, <2>2, <2>3, <2>4 DEF StoreInv, Alive
<1>. QED BY <1>3 DEF Data, Uncrossed

\* Where a worker goes, in terms of what it is and was asked.
LEMMA Turns ==
  ASSUME Structure, NEW w \in Uses, Alive(w)
  PROVE  /\ WithError(w) => wpc'[w] = (IF kind[w] = "market" THEN "rest" ELSE "exited")
         /\ WithoutSession(w) => wpc'[w] = (IF kind[w] = "market" THEN "rest"
                                   ELSE IF kind[w] = "ui" /\ asked[w] = "connect" THEN "page"
                                   ELSE "exited")
         /\ WithSession(w) => wpc'[w] = (IF kind[w] # "ui" /\ asked[w] # "status" THEN "operate"
                                ELSE IF asked[w] = "disconnect" THEN "page" ELSE "exited")
         /\ WithError(w) \/ WithoutSession(w) \/ WithSession(w) =>
              \A x \in Uses \ {w} : wpc'[x] = wpc[x]
         /\ \A l : Move(w, l) =>
              wpc'[w] = l /\ \A x \in Uses \ {w} : wpc'[x] = wpc[x]
<1>1. Types /\ WorkerInv(w) /\ kind[w] # "none"
  BY DEF Structure, WorkerInv, Alive
<1>. QED BY <1>1 DEF WithError, WithoutSession, WithSession, Answer, Move, Types, WorkerInv,
       Locking

LEMMA Drops ==
  ASSUME LoginTypes, NEW w \in Uses, DropSession(w)
  PROVE  /\ held' \in [Uses -> (1 .. logins) \union {None}] /\ held'[w] = None
         /\ \A x \in Uses \ {w} : held'[x] = held[x]
BY DEF LoginTypes, DropSession

LEMMA WorkersKeepData ==
  ASSUME Inv, NEW w \in Uses, ProcessStep(w) \/ UserStep(w) \/ Dies(w)
  PROVE  Data'
<1>0. /\ Given /\ Types /\ LoginTypes /\ Structure /\ crossed \in BOOLEAN
      /\ WorkerInv(w) /\ CallInv(w) /\ None \notin removed /\ w # None
      /\ ~crossed => store \notin removed
      /\ ~crossed /\ w \notin loose => StoreInv(w)
  BY NoneIsNoLogin DEF Inv, Structure, Data, Uncrossed, LoginTypes, Given
<1>1. /\ Alive(w) /\ UNCHANGED <<asked, kind, loose>> /\ kind[w] # "none"
      /\ w \notin loose => asked[w] # "status"
  BY <1>0, WorkersStep DEF Works, brokerVars, WorkerInv, Alive
\* The steps that leave the store alone.
<1>2. ASSUME UNCHANGED <<store, removed, logins, crossed>>,
             ~crossed /\ w \notin loose => StoreInv(w)',
             held' \in [Uses -> (1 .. logins) \union {None}],
             \A x \in Uses \ {w} : wpc'[x] = wpc[x] /\ held'[x] = held[x]
      PROVE  Data'
  <2>1. LoginTypes' /\ (~crossed' => store' \notin removed')
    BY <1>0, <1>2 DEF LoginTypes
  <2>. QED BY <1>0, <1>1, <1>2, <2>1, WorkerData
\* The steps that change it, of a worker that is loose.
<1>22. ASSUME LoginTypes', Writes(w), crossed \/ w \in loose PROVE Data'
  BY <1>22 DEF Data, Uncrossed, Writes
<1>3. CASE Load(w)
  <2>1. /\ held' = [held EXCEPT ![w] = store] /\ UNCHANGED <<storeVars, crossed>>
        /\ \/ store = None /\ WithoutSession(w)
           \/ store # None /\ Move(w, "validate")
    BY <1>3 DEF Load, history
  <2>2. /\ held'[w] = store /\ held' \in [Uses -> (1 .. logins) \union {None}]
        /\ \A x \in Uses \ {w} : wpc'[x] = wpc[x] /\ held'[x] = held[x]
    BY <1>0, <1>1, <2>1, Turns DEF LoginTypes
  <2>3. ~crossed /\ w \notin loose => StoreInv(w)'
    BY <1>0, <1>1, <2>1, <2>2, Turns DEF StoreInv, storeVars, Alive
  <2>. QED BY <1>2, <2>1, <2>2, <2>3 DEF storeVars
<1>4. CASE LoadFails(w) \/ ValidationFails(w) \/ StoreFails(w)
  <2>1. DropSession(w) /\ WithError(w) /\ UNCHANGED <<storeVars, crossed>>
    BY <1>4 DEF LoadFails, ValidationFails, StoreFails, history
  <2>2. /\ held'[w] = None /\ held' \in [Uses -> (1 .. logins) \union {None}]
        /\ \A x \in Uses \ {w} : wpc'[x] = wpc[x] /\ held'[x] = held[x]
        /\ wpc'[w] \in {"rest", "exited"}
    BY <1>0, <1>1, <2>1, Turns, Drops
  <2>3. ~crossed /\ w \notin loose => StoreInv(w)'
    BY <1>0, <2>1, <2>2 DEF StoreInv, storeVars
  <2>. QED BY <1>2, <2>1, <2>2, <2>3 DEF storeVars
<1>5. CASE Validated(w) \/ Rejected(w)
  <2>1. /\ wpc[w] = "validate" /\ UNCHANGED <<held, storeVars, crossed>>
        /\ \/ Move(w, "save") \/ Move(w, "delete")
           \/ kind[w] # "ui" /\ asked[w] # "status" /\ WithSession(w)
    BY <1>5 DEF Validated, Rejected, history
  <2>2. /\ \A x \in Uses \ {w} : wpc'[x] = wpc[x] /\ held'[x] = held[x]
        /\ wpc'[w] \in {"save", "delete", "operate"}
    BY <1>0, <1>1, <2>1, Turns
  <2>3. ~crossed /\ w \notin loose => StoreInv(w)'
    BY <1>0, <1>1, <2>1, <2>2 DEF StoreInv, storeVars, Alive
  <2>. QED BY <1>0, <1>2, <2>1, <2>2, <2>3 DEF storeVars, LoginTypes
<1>6. CASE Save(w)
  <2>1. /\ wpc[w] = "save" /\ store' = held[w] /\ WithSession(w) /\ Writes(w)
        /\ UNCHANGED <<held, logins, removed>>
    BY <1>6 DEF Save
  <2>2. /\ \A x \in Uses \ {w} : wpc'[x] = wpc[x] /\ held'[x] = held[x]
        /\ wpc'[w] = (IF kind[w] # "ui" /\ asked[w] # "status" THEN "operate"
                     ELSE IF asked[w] = "disconnect" THEN "page" ELSE "exited")
    BY <1>0, <1>1, <2>1, Turns
  <2>3. LoginTypes'
    BY <1>0, <2>1 DEF LoginTypes
  <2>4. CASE crossed \/ w \in loose
    BY <1>22, <2>1, <2>3, <2>4
  <2>5. CASE ~crossed /\ w \notin loose
    <3>1. store' = store /\ crossed' = crossed
      BY <1>0, <2>1, <2>5 DEF StoreInv, Writes
    <3>2. StoreInv(w)'
      BY <1>0, <1>1, <2>1, <2>2, <2>5, <3>1 DEF StoreInv, Alive
    <3>. QED BY <1>0, <1>2, <2>1, <2>2, <3>1, <3>2 DEF LoginTypes
  <2>. QED BY <2>4, <2>5
<1>7. CASE Delete(w)
  <2>1. /\ wpc[w] = "delete" /\ store' = None /\ WithoutSession(w) /\ DropSession(w)
        /\ Writes(w) /\ UNCHANGED <<logins, removed>>
    BY <1>7 DEF Delete
  <2>2. /\ held'[w] = None /\ held' \in [Uses -> (1 .. logins) \union {None}]
        /\ \A x \in Uses \ {w} : wpc'[x] = wpc[x] /\ held'[x] = held[x]
        /\ wpc'[w] = (IF kind[w] = "market" THEN "rest"
                     ELSE IF kind[w] = "ui" /\ asked[w] = "connect" THEN "page"
                     ELSE "exited")
    BY <1>0, <1>1, <2>1, Turns, Drops
  <2>3. LoginTypes' /\ store' \notin removed'
    BY <1>0, <2>1, <2>2 DEF LoginTypes
  <2>4. CASE crossed \/ w \in loose
    BY <1>22, <2>1, <2>3, <2>4
  <2>5. CASE ~crossed /\ w \notin loose
    <3>1. StoreInv(w)'
      BY <1>0, <1>1, <2>1, <2>2, <2>5 DEF StoreInv, Alive
    <3>2. \A x \in Uses \ (loose \union {w}) : wpc[x] \notin Busy
      BY <1>0, <2>1, <2>5, OneAtWork DEF Busy
    <3>3. crossed' = crossed
      BY <1>0, <2>1, <2>5 DEF Writes
    <3>. QED BY <1>0, <1>1, <2>1, <2>2, <2>3, <2>5, <3>1, <3>2, <3>3, WorkerData DEF Busy
  <2>. QED BY <2>4, <2>5
<1>8. CASE Operate(w) \/ OperateExpired(w)
  <2>1. /\ wpc[w] = "operate" /\ UNCHANGED <<storeVars, crossed>>
        /\ \/ WithError(w) /\ kind[w] = "market" /\ UNCHANGED held
           \/ WithError(w) /\ DropSession(w)
           \/ kind[w] = "once" /\ Move(w, "delete") /\ UNCHANGED held
           \/ kind[w] # "once" /\ Move(w, "load") /\ UNCHANGED held
    BY <1>8 DEF Operate, OperateExpired, history
  <2>2. /\ \A x \in Uses \ {w} : wpc'[x] = wpc[x] /\ held'[x] = held[x]
        /\ held' \in [Uses -> (1 .. logins) \union {None}]
    BY <1>0, <1>1, <2>1, Turns, Drops DEF LoginTypes
  <2>3. \/ wpc'[w] = "rest" /\ held'[w] = held[w]
        \/ wpc'[w] \in {"rest", "exited"} /\ held'[w] = None
        \/ kind[w] = "once" /\ wpc'[w] = "delete" /\ held'[w] = held[w]
        \/ wpc'[w] = "load" /\ held'[w] = held[w]
    BY <1>0, <1>1, <2>1, Turns, Drops
  <2>4. ~crossed /\ w \notin loose => StoreInv(w)'
    BY <1>0, <1>1, <2>1, <2>3 DEF StoreInv, storeVars, Alive
  <2>. QED BY <1>2, <2>1, <2>2, <2>4 DEF storeVars
<1>9. CASE LogOut(w) \/ PageEnds(w)
  <2>1. /\ Move(w, "shown") /\ UNCHANGED <<held, store, removed, logins, crossed>>
        /\ wpc[w] \in {"logout", "page"}
    BY <1>9 DEF LogOut, PageEnds, storeVars, history
  <2>2. /\ \A x \in Uses \ {w} : wpc'[x] = wpc[x] /\ held'[x] = held[x]
        /\ wpc'[w] = "shown"
    BY <1>0, <1>1, <2>1, Turns
  <2>3. ~crossed /\ w \notin loose => StoreInv(w)'
    BY <1>0, <1>1, <2>1, <2>2 DEF StoreInv, Alive
  <2>. QED BY <1>0, <1>2, <2>1, <2>2, <2>3 DEF LoginTypes
<1>10. CASE UiExits(w) \/ Dies(w)
  <2>1. Move(w, "exited") /\ DropSession(w) /\ UNCHANGED <<storeVars, crossed>>
    BY <1>10 DEF UiExits, Dies, history
  <2>2. /\ held'[w] = None /\ held' \in [Uses -> (1 .. logins) \union {None}]
        /\ \A x \in Uses \ {w} : wpc'[x] = wpc[x] /\ held'[x] = held[x]
        /\ wpc'[w] = "exited"
    BY <1>0, <1>1, <2>1, Turns, Drops
  <2>3. ~crossed /\ w \notin loose => StoreInv(w)'
    BY <1>0, <2>1, <2>2 DEF StoreInv, storeVars
  <2>. QED BY <1>2, <2>1, <2>2, <2>3 DEF storeVars
<1>11. CASE LogIn(w)
  <2>1. /\ wpc[w] = "page" /\ asked[w] = "connect" /\ logins' = logins + 1
        /\ store' = logins + 1 /\ Move(w, "shown") /\ Writes(w)
        /\ UNCHANGED <<held, removed>>
    BY <1>11 DEF LogIn
  <2>2. /\ \A x \in Uses \ {w} : wpc'[x] = wpc[x] /\ held'[x] = held[x]
        /\ wpc'[w] = "shown"
    BY <1>0, <1>1, <2>1, Turns
  <2>3. LoginTypes' /\ store' \notin removed'
    <3>1. \A i \in 1 .. logins : i \in 1 .. (logins + 1) /\ i # logins + 1
      BY <1>0 DEF LoginTypes
    <3>2. logins + 1 \in 1 .. (logins + 1) /\ logins + 1 \in Nat
      BY <1>0 DEF LoginTypes
    <3>. QED BY <1>0, <2>1, <3>1, <3>2 DEF LoginTypes
  <2>4. CASE crossed \/ w \in loose
    BY <1>22, <2>1, <2>3, <2>4
  <2>5. CASE ~crossed /\ w \notin loose
    <3>1. kind[w] = "ui" /\ store = None
      BY <1>0, <2>1, <2>5 DEF StoreInv
    <3>2. ASSUME NEW x \in Uses \ (loose \union {w})
          PROVE  /\ wpc[x] \notin {"validate", "save", "delete"}
                 /\ wpc[x] = "operate" => kind[x] # "once"
                 /\ ~(wpc[x] = "page" /\ asked[x] = "connect")
      <4>1. StoreInv(x) /\ WorkerInv(x) /\ x # None
        BY <2>5, <3>2 DEF Inv, Structure, Data, Uncrossed, Given
      <4>2. ~(Alive(x) /\ kind[x] = "ui")
        BY <1>0, <1>1, <2>5, <3>1, <3>2, <4>1 DEF WorkerInv
      <4>. QED BY <3>1, <4>1, <4>2 DEF StoreInv, Alive
    <3>3. StoreInv(w)'
      BY <1>1, <2>2, <3>1 DEF StoreInv
    <3>4. crossed' = crossed
      BY <1>0, <2>1, <2>5 DEF Writes
    <3>. QED BY <1>0, <1>1, <2>1, <2>2, <2>3, <2>5, <3>2, <3>3, <3>4, WorkerData
  <2>. QED BY <2>4, <2>5
<1>12. CASE ConfirmRemoval(w)
  <2>1. /\ wpc[w] = "page" /\ asked[w] = "disconnect" /\ store' = None
        /\ removed' = removed \union ({held[w], store} \ {None})
        /\ Move(w, "logout") /\ Writes(w) /\ UNCHANGED <<held, logins>>
    BY <1>12 DEF ConfirmRemoval
  <2>2. /\ \A x \in Uses \ {w} : wpc'[x] = wpc[x] /\ held'[x] = held[x]
        /\ wpc'[w] = "logout"
    BY <1>0, <1>1, <2>1, Turns
  <2>3. LoginTypes' /\ store' \notin removed'
    BY <1>0, <2>1 DEF LoginTypes
  <2>4. CASE crossed \/ w \in loose
    BY <1>22, <2>1, <2>3, <2>4
  <2>5. CASE ~crossed /\ w \notin loose
    <3>1. kind[w] = "ui"
      BY <1>0, <2>1, <2>5 DEF StoreInv
    <3>2. \A x \in Uses \ loose : ~Working(x)
      <4>1. ExclusiveInv(w)
        BY DEF Inv, Structure
      <4>. QED BY <1>1, <2>1, <2>5, <3>1, <4>1 DEF ExclusiveInv, Disconnects
    <3>3. ASSUME NEW x \in Uses \ (loose \union {w})
          PROVE  wpc[x] \notin {"validate", "save", "delete", "operate", "page"}
      <4>1. WorkerInv(x) /\ x # None /\ kind[x] \in {"none", "once", "ui", "market"}
        BY <1>0, <3>3 DEF Inv, Structure, Given, Types
      <4>2. ~(Alive(x) /\ kind[x] = "ui")
        BY <1>0, <1>1, <2>5, <3>1, <3>3, <4>1 DEF WorkerInv
      <4>3. ~Alive(x)
        BY <3>2, <3>3, <4>1, <4>2 DEF Working, WorkerInv, Alive
      <4>. QED BY <4>1, <4>3 DEF Alive
    <3>4. StoreInv(w)'
      BY <1>1, <2>1, <2>2, <3>1 DEF StoreInv
    <3>5. crossed' = crossed
      BY <1>0, <2>1, <2>5 DEF Writes
    <3>. QED BY <1>0, <1>1, <2>1, <2>2, <2>3, <2>5, <3>2, <3>3, <3>4, <3>5, WorkerData
  <2>. QED BY <2>4, <2>5
<1>. QED BY <1>3, <1>4, <1>5, <1>6, <1>7, <1>8, <1>9, <1>10, <1>11, <1>12
       DEF ProcessStep, UserStep

LEMMA InvIsInductive == Inv /\ [PersistentNext]_persistentVars => Inv'
<1> SUFFICES ASSUME Inv, [PersistentNext]_persistentVars PROVE Inv'
  OBVIOUS
<1>1. Structure /\ Given
  BY DEF Inv, Structure
<1>2. CASE \E c \in Uses, m \in PersistentMethods : BeginPersistent(c, m)
  BY <1>1, <1>2, BeginKeeps, BeginKeepsData DEF Inv
<1>3. CASE \E c \in Uses : BrokerStep(c) \/ GiveUp(c) \/ CancelUse(c)
  BY <1>1, <1>3, CallsKeep, CallsKeepData DEF Inv
<1>4. CASE \E w \in Uses : ProcessStep(w) \/ UserStep(w) \/ Dies(w)
  BY <1>4, WorkersStep, WorksKeeps, WorkersKeepData DEF Inv
<1>5. CASE UNCHANGED persistentVars
  <2>1. UNCHANGED <<asked, at, whom, lock, ui, marketDaemon, answered, kind, wpc, held, store,
                    logins, removed, loose, crossed>>
    BY <1>5 DEF persistentVars, brokerVars, procVars, storeVars, history
  <2>2. Structure'
    BY <1>1, <2>1 DEF Structure, Given, Types, DaemonInv, CallInv, WorkerInv, ExclusiveInv,
       Market, Disconnects, Working, Alive, Stopping, Served
  <2>3. Data'
    BY <2>1 DEF Inv, Data, Uncrossed, LoginTypes, StoreInv, Alive
  <2>. QED BY <2>2, <2>3 DEF Inv
<1>. QED BY <1>1, <1>2, <1>3, <1>4, <1>5 DEF PersistentNext, Given

-----------------------------------------------------------------------------
(* Theorems.                                                                *)

\* While the disconnect confirmation is open no other worker has the credential
\* (broker.py:120, "Wait for an already-started authenticated operation"), but
\* for one that a caller cancelled twice has left behind, or that was started
\* by status, or by health_status after its early test.
THEOREM Exclusive == PersistentSpec => []DisconnectIsExclusive
<1>1. Inv => DisconnectIsExclusive
  BY DEF Inv, Structure, ExclusiveInv, Disconnects, DisconnectIsExclusive
<1>. QED BY <1>1, InitInv, InvIsInductive, PTL DEF PersistentSpec

\* A credential that a disconnect removed does not return to the store, nor to a
\* worker that reads with it, as long as none of those has changed the store.
THEOREM RemovalLasts == PersistentSpec => []RemovedStaysRemoved
<1>1. Inv => RemovedStaysRemoved
  BY DEF Inv, Data, Uncrossed, StoreInv, RemovedStaysRemoved, RemovedCredentialStaysOut
<1>. QED BY <1>1, InitInv, InvIsInductive, PTL DEF PersistentSpec

\* A worker writes over the credential it has loaded, never over a newer one, as
\* long as none of those has changed the store.
THEOREM WritesOwn == PersistentSpec => []NoLostUpdate
<1>1. Inv => NoLostUpdate
  BY DEF Inv, Data, Uncrossed, StoreInv, NoLostUpdate
<1>. QED BY <1>1, InitInv, InvIsInductive, PTL DEF PersistentSpec

-----------------------------------------------------------------------------
(* The broker in whichever mode the server is started.                      *)

\* Either mode runs alone: the other's variables stay where they started.
LEMMA EitherMode == SpecBroker => Spec /\ PersistentSpec
<1>1. InitBroker => Init /\ PersistentInit
  BY DEF InitBroker
<1>2. [NextDaemon \/ NextPersistent]_allVars =>
        [Next]_vars /\ [PersistentNext]_persistentVars
  BY DEF NextDaemon, NextPersistent, allVars
<1>. QED BY <1>1, <1>2, PTL DEF SpecBroker, Spec, PersistentSpec

\* The composed broker keeps the contract of its callers and stays closed, in
\* whichever mode the server is started.
THEOREM BrokerKeepsContract == SpecBroker => KeepsContract /\ []ClosedForGood
BY EitherMode, ContractKept, StaysClosed, PTL

\* Its disconnects exclude the workers that are not loose, and until a loose one
\* changes the store a removed credential stays removed and no newer one is
\* written over.
THEOREM BrokerKeepsRemoved ==
  SpecBroker => []DisconnectIsExclusive /\ []RemovedStaysRemoved /\ []NoLostUpdate
BY EitherMode, Exclusive, RemovalLasts, WritesOwn, PTL
================================================================================
