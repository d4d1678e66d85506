------------------------ MODULE CredentialStoreProofs ------------------------
(* CredentialStore implements SharedRegister, for any processes and tasks.   *)
(* An operation of the store is several backend calls; that each has one     *)
(* moment rests on the file lock, which keeps the calls of other tasks out   *)
(* between them, and on what the operation has read by then.                 *)
EXTENDS CredentialStore, TLAPS

Locked == Backend \union {"release", "release_failed"}

\* The file lock is held by the task between its first and last call.
LockInv(t) == pc[t] \in Locked <=> flock = t

\* A task that does nothing, or whose process is dead, has left nothing.
IdleInv(t) ==
  /\ ~Runs(t) => pc[t] = "idle" /\ answer[t] = "none"
  /\ pc[t] = "idle" => /\ op[t] = "none" /\ read[t] = Nothing
                       /\ ~trouble[t] /\ ~effect[t]

\* Each call belongs to one operation, and the moment is behind it or not.
StageInv(t) ==
  /\ pc[t] # "idle" => op[t] \in {"load", "save", "delete"}
  /\ pc[t] = "get" => op[t] = "load"
  /\ pc[t] \in {"set", "saved"} => op[t] = "save"
  /\ pc[t] \in {"current", "remove", "remaining"} => op[t] = "delete"
  /\ pc[t] \in {"queue", "get", "set", "current", "remove"} => ~effect[t]
  /\ pc[t] \in {"saved", "remaining", "release"} => effect[t]
  /\ pc[t] \in {"release_failed", "failed"} => trouble[t]
  /\ op[t] = "load" /\ ~effect[t] => read[t] = Nothing

\* What is read back is what was written, unless somebody outside interfered.
ResultInv(t) ==
  /\ pc[t] = "saved" => stored = t \/ trouble[t]
  /\ pc[t] = "remaining" => stored = Nothing \/ trouble[t]
  /\ pc[t] = "release" /\ op[t] = "save" => read[t] = t \/ trouble[t]
  /\ pc[t] = "release" /\ op[t] = "delete" => read[t] = Nothing \/ trouble[t]

TaskInv(t) == LockInv(t) /\ IdleInv(t) /\ StageInv(t) /\ ResultInv(t)

Inv == TypeOK /\ \A t \in Tasks : TaskInv(t)

-----------------------------------------------------------------------------
LEMMA InitInv == Init => Inv
BY HomeAssumption DEF HomeAssumption, Init, Inv, TypeOK, TaskInv, LockInv,
   IdleInv, StageInv, ResultInv, Runs, Locked, Backend

\* The step of one task: what it may touch, and that it touches nobody else.
Touches(t) ==
  /\ \A u \in Tasks \ {t} :
       /\ op'[u] = op[u] /\ pc'[u] = pc[u] /\ read'[u] = read[u]
       /\ answer'[u] = answer[u] /\ trouble'[u] = trouble[u]
       /\ effect'[u] = effect[u]
  /\ UNCHANGED alive
  /\ stored' = stored \/ flock = t
  /\ \/ flock' = flock
     \/ flock' = t /\ flock = NoTask
     \/ flock' = NoTask /\ flock = t

LEMMA OthersStay ==
  ASSUME Inv, NEW t \in Tasks, NEW u \in Tasks, u # t, Touches(t)
  PROVE  TaskInv(u)'
<1>1. TaskInv(u)
  BY DEF Inv
<1>2. flock' = u <=> flock = u
  BY HomeAssumption DEF HomeAssumption, Touches
<1>3. flock = u \/ stored' = stored \/ pc[u] \notin Locked
  BY <1>1 DEF TaskInv, LockInv
<1>4. flock = u => stored' = stored
  BY HomeAssumption DEF HomeAssumption, Touches
<1>. QED
  BY <1>1, <1>2, <1>3, <1>4 DEF Touches, TaskInv, LockInv, IdleInv, StageInv,
     ResultInv, Runs, Locked, Backend

\* Step by step, for the task that takes it.
LEMMA StepTypes ==
  ASSUME Inv, NEW t \in Tasks, Step(t)
  PROVE  TypeOK' /\ Touches(t) /\ Runs(t) /\ Runs(t)'
<1> USE DEF Inv, TypeOK, Runs, At
<1>0. TaskInv(t)
  OBVIOUS
<1>1. CASE Begin(t)
  BY <1>1 DEF Begin, Touches
<1>2. CASE Acquire(t)
  BY <1>0, <1>2 DEF Acquire, Waits, First, Touches, Backend, TaskInv, StageInv
<1>3. CASE AcquireFails(t)
  BY <1>3 DEF AcquireFails, Waits, Touches
<1>4. CASE Returns(t)
  BY <1>0, <1>4 DEF Returns, Applies, After, Touches, Backend, TaskInv, LockInv,
     Locked
<1>5. CASE Raises(t)
  BY <1>0, <1>5 DEF Raises, Applies, Touches, Backend, TaskInv, LockInv, Locked
<1>6. CASE Release(t)
  BY <1>6 DEF Release, Ends, Unlocked, Touches
<1>7. CASE ReleaseRaises(t)
  BY <1>7 DEF ReleaseRaises, Unlocked, Touches
<1>8. CASE ReleaseFailed(t)
  BY <1>8 DEF ReleaseFailed, Ends, Unlocked, Touches
<1>9. CASE Fails(t)
  BY <1>9 DEF Fails, Ends, Touches
<1>. QED BY <1>1, <1>2, <1>3, <1>4, <1>5, <1>6, <1>7, <1>8, <1>9 DEF Step

\* What each backend call leaves behind.
LEMMA ReturnsShape ==
  ASSUME Inv, NEW t \in Tasks, Returns(t)
  PROVE  /\ op'[t] = op[t] /\ trouble'[t] = trouble[t] /\ answer'[t] = answer[t]
         /\ flock' = flock /\ alive' = alive
         /\ pc[t] = "get" => /\ pc'[t] = "release" /\ stored' = stored
                             /\ read'[t] = stored /\ effect'[t]
         /\ pc[t] = "set" => /\ pc'[t] = "saved" /\ stored' = t
                             /\ read'[t] = read[t] /\ effect'[t]
         /\ pc[t] = "saved" => /\ pc'[t] = "release" /\ stored' = stored
                               /\ read'[t] = stored /\ effect'[t] = effect[t]
         /\ pc[t] = "current" =>
              /\ stored' = stored /\ read'[t] = stored
              /\ \/ /\ stored = Nothing
                    /\ pc'[t] = "release" /\ effect'[t]
                 \/ /\ stored # Nothing
                    /\ pc'[t] = "remove" /\ effect'[t] = effect[t]
         /\ pc[t] = "remove" => /\ pc'[t] = "remaining" /\ stored' = Nothing
                                /\ read'[t] = read[t] /\ effect'[t]
         /\ pc[t] = "remaining" => /\ pc'[t] = "release" /\ stored' = stored
                                   /\ read'[t] = stored /\ effect'[t] = effect[t]
<1>1. /\ op'[t] = op[t] /\ trouble'[t] = trouble[t] /\ answer'[t] = answer[t]
      /\ flock' = flock /\ alive' = alive
  BY DEF Returns
<1>2. pc'[t] = IF pc[t] = "current" /\ stored = Nothing THEN "release"
               ELSE After[pc[t]]
  BY DEF Inv, TypeOK, Returns
<1>3. read'[t] = IF pc[t] \in {"set", "remove"} THEN read[t] ELSE stored
  BY DEF Inv, TypeOK, Returns
<1>4. (Takes(t) => effect'[t]) /\ (~Takes(t) => effect'[t] = effect[t])
  BY DEF Inv, TypeOK, Returns
<1>5. Applies(t)
  BY DEF Returns
<1> USE <1>2, <1>3, <1>4, <1>5 DEF After, Takes, Applies
<1>6. CASE pc[t] = "get"
  BY <1>1, <1>6
<1>7. CASE pc[t] = "set"
  BY <1>1, <1>7
<1>8. CASE pc[t] = "saved"
  BY <1>1, <1>8
<1>9. CASE pc[t] = "current"
  BY <1>1, <1>9
<1>10. CASE pc[t] = "remove"
  BY <1>1, <1>10
<1>11. CASE pc[t] = "remaining"
  BY <1>1, <1>11
<1>. QED BY <1>1, <1>6, <1>7, <1>8, <1>9, <1>10, <1>11 DEF Returns, Backend

LEMMA StepOwn ==
  ASSUME Inv, NEW t \in Tasks, Step(t)
  PROVE  TaskInv(t)'
<1> USE HomeAssumption DEF HomeAssumption, Inv, TypeOK, Runs, At
<1>0. TaskInv(t)
  OBVIOUS
<1> USE <1>0, StepTypes DEF TaskInv, LockInv, IdleInv, StageInv, ResultInv,
      Locked, Backend
<1>1. CASE Begin(t)
  BY <1>1 DEF Begin
<1>2. CASE Acquire(t)
  BY <1>2 DEF Acquire, Waits, First
<1>3. CASE AcquireFails(t)
  BY <1>3 DEF AcquireFails, Waits
<1>4. CASE Returns(t)
  <2>1. CASE pc[t] \in {"get", "set", "saved"}
    BY <1>4, <2>1, ReturnsShape
  <2>2. CASE pc[t] \in {"current", "remove", "remaining"}
    BY <1>4, <2>2, ReturnsShape
  <2>. QED BY <1>4, <2>1, <2>2 DEF Returns
<1>5. CASE Raises(t)
  BY <1>5 DEF Raises, Applies
<1>6. CASE Release(t)
  BY <1>6 DEF Release, Ends, Unlocked
<1>7. CASE ReleaseRaises(t)
  BY <1>7 DEF ReleaseRaises, Unlocked
<1>8. CASE ReleaseFailed(t)
  BY <1>8 DEF ReleaseFailed, Ends, Unlocked
<1>9. CASE Fails(t)
  BY <1>9 DEF Fails, Ends
<1>. QED BY <1>1, <1>2, <1>3, <1>4, <1>5, <1>6, <1>7, <1>8, <1>9 DEF Step

LEMMA KilledInv ==
  ASSUME Inv, NEW p \in Processes, Killed(p)
  PROVE  Inv'
<1>1. TypeOK'
  BY DEF Inv, TypeOK, Killed
<1>2. ASSUME NEW t \in Tasks PROVE TaskInv(t)'
  BY HomeAssumption DEF HomeAssumption, Inv, TypeOK, Killed, Runs, TaskInv,
     LockInv, IdleInv, StageInv, ResultInv, Locked, Backend
<1>. QED BY <1>1, <1>2 DEF Inv

LEMMA OutsideInv ==
  ASSUME Inv, Outside
  PROVE  Inv'
BY DEF Inv, TypeOK, Outside, task, Runs, TaskInv, LockInv, IdleInv, StageInv,
   ResultInv, Locked, Backend

LEMMA InvIsInductive == Inv /\ [Next]_vars => Inv'
<1> SUFFICES ASSUME Inv, [Next]_vars PROVE Inv'
  OBVIOUS
<1>1. ASSUME NEW t \in Tasks, Step(t) PROVE Inv'
  BY <1>1, StepTypes, StepOwn, OthersStay DEF Inv
<1>2. ASSUME NEW p \in Processes, Killed(p) PROVE Inv'
  BY <1>2, KilledInv
<1>3. CASE Outside
  BY <1>3, OutsideInv
<1>4. CASE UNCHANGED vars
  BY <1>4 DEF vars, task, Inv, TypeOK, Runs, TaskInv, LockInv, IdleInv, StageInv,
     ResultInv
<1>. QED BY <1>1, <1>2, <1>3, <1>4 DEF Next

-----------------------------------------------------------------------------
(* The refinement.                                                          *)

LEMMA InitMaps == Init => Register!RegisterInit
BY HomeAssumption DEF HomeAssumption, Init, Register!RegisterInit, Phase, Seen

\* What a step of a task does to the state of the register.
LEMMA Mapped ==
  ASSUME Inv, NEW t \in Tasks, Step(t)
  PROVE  /\ Phase \in [Tasks -> {"dead", "idle", "called", "effective"}]
         /\ Phase[t] = IF pc[t] = "idle" THEN "idle"
                       ELSE IF effect[t] THEN "effective" ELSE "called"
         /\ Seen[t] = IF op[t] = "load" THEN read[t] ELSE Nothing
         /\ Phase' = [Phase EXCEPT ![t] =
              IF pc'[t] = "idle" THEN "idle"
              ELSE IF effect'[t] THEN "effective" ELSE "called"]
         /\ Seen' = [Seen EXCEPT ![t] =
              IF op'[t] = "load" THEN read'[t] ELSE Nothing]
BY StepTypes DEF Touches, Runs, Phase, Seen

LEMMA StepMaps ==
  ASSUME Inv, NEW t \in Tasks, Step(t)
  PROVE  Register!RegisterNext \/ UNCHANGED Register!registerVars
<1> DEFINE Stage(idle, moment) == IF idle THEN "idle"
                                  ELSE IF moment THEN "effective" ELSE "called"
<1> USE HomeAssumption DEF HomeAssumption, Inv, TypeOK, Runs, At, TaskInv, IdleInv,
      StageInv
<1>0. /\ TaskInv(t)
      /\ Phase \in [Tasks -> {"dead", "idle", "called", "effective"}]
      /\ Phase[t] = Stage(pc[t] = "idle", effect[t])
      /\ Seen[t] = IF op[t] = "load" THEN read[t] ELSE Nothing
      /\ Phase' = [Phase EXCEPT ![t] = Stage(pc'[t] = "idle", effect'[t])]
      /\ Seen' = [Seen EXCEPT ![t] = IF op'[t] = "load" THEN read'[t] ELSE Nothing]
      /\ Seen \in [Tasks -> Tasks \union {Nothing, Unreadable}]
  BY Mapped DEF Seen
<1>1. CASE Begin(t)
  <2>1. pc[t] = "idle" /\ pc'[t] = "queue" /\ read' = read /\ effect' = effect
    BY <1>1 DEF Begin
  <2>2. Seen' = Seen /\ Phase[t] = "idle" /\ Phase' = [Phase EXCEPT ![t] = "called"]
    BY <1>0, <2>1
  <2>3. Register!Call(t)
    BY <1>1, <2>2 DEF Begin, Register!Call, Register!Operations
  <2>. QED BY <2>3 DEF Register!RegisterNext
<1>2. CASE Acquire(t)
  <2>1. UNCHANGED Register!registerVars
    BY <1>0, <1>2, StepOwn DEF Acquire, Waits, First, Register!registerVars
  <2>. QED BY <2>1
<1>3. CASE AcquireFails(t)
  <2>1. Register!Trouble(t)
    BY <1>0, <1>3 DEF AcquireFails, Waits, Register!Trouble
  <2>. QED BY <2>1 DEF Register!RegisterNext
<1>4. CASE Returns(t)
  <2>1. CASE Takes(t)
    <3>1. /\ pc[t] # "idle" /\ pc'[t] # "idle" /\ ~effect[t] /\ effect'[t]
          /\ op' = op /\ trouble' = trouble /\ answer' = answer
      BY <1>0, <1>4, <2>1, ReturnsShape DEF Returns, Takes
    <3>2. Phase[t] = "called" /\ Phase' = [Phase EXCEPT ![t] = "effective"]
      BY <1>0, <3>1
    <3>3. stored' = CASE op[t] = "save"   -> t
                      [] op[t] = "delete" -> Nothing
                      [] OTHER            -> stored
      BY <1>0, <1>4, <2>1, ReturnsShape DEF Takes
    <3>4. Seen' = IF op[t] = "load" THEN [Seen EXCEPT ![t] = stored] ELSE Seen
      <4>1. CASE op[t] = "load"
        <5>1. pc[t] = "get" /\ read'[t] = stored /\ op'[t] = "load"
          BY <1>0, <1>4, <2>1, <4>1, ReturnsShape DEF Takes
        <5>. QED BY <1>0, <4>1, <5>1
      <4>2. CASE op[t] # "load"
        BY <1>0, <3>1, <4>2
      <4>. QED BY <4>1, <4>2
    <3>5. Register!Effect(t)
      BY <3>1, <3>2, <3>3, <3>4 DEF Register!Effect
    <3>. QED BY <3>5 DEF Register!RegisterNext
  <2>2. CASE ~Takes(t)
    <3>1. UNCHANGED Register!registerVars
      BY <1>0, <1>4, <2>2 DEF Returns, Takes, Applies, After, Backend,
         Register!registerVars
    <3>. QED BY <3>1
  <2>. QED BY <2>1, <2>2
<1>5. CASE Raises(t)
  <2>1. CASE UNCHANGED <<stored, effect>>
    <3>1. Register!Trouble(t)
      BY <1>0, <1>5, <2>1 DEF Raises, Backend, Register!Trouble
    <3>. QED BY <3>1 DEF Register!RegisterNext
  <2>2. CASE ~UNCHANGED <<stored, effect>>
    <3>1. /\ pc[t] \in {"set", "remove"} /\ Applies(t)
          /\ pc'[t] = "release_failed" /\ effect'[t]
          /\ trouble' = [trouble EXCEPT ![t] = TRUE]
          /\ op' = op /\ answer' = answer /\ read' = read
      BY <1>5, <2>2 DEF Raises
    <3>2. Phase[t] = "called" /\ Phase' = [Phase EXCEPT ![t] = "effective"]
      BY <1>0, <3>1
    <3>3. Seen' = Seen /\ op[t] # "load"
      BY <1>0, <3>1
    <3>4. Register!Effect(t)
      BY <1>0, <3>1, <3>2, <3>3 DEF Applies, Register!Effect
    <3>. QED BY <3>4 DEF Register!RegisterNext
  <2>. QED BY <2>1, <2>2
<1>6. CASE Release(t)
  <2>1. Register!Return(t)
    BY <1>0, <1>6 DEF Release, Ends, Holds, ResultInv, Register!Return
  <2>. QED BY <2>1 DEF Register!RegisterNext
<1>7. CASE ReleaseRaises(t)
  <2>1. Register!Trouble(t)
    BY <1>0, <1>7 DEF ReleaseRaises, Register!Trouble
  <2>. QED BY <2>1 DEF Register!RegisterNext
<1>8. CASE ReleaseFailed(t)
  <2>1. Register!Return(t)
    BY <1>0, <1>8 DEF ReleaseFailed, Ends, Register!Return
  <2>. QED BY <2>1 DEF Register!RegisterNext
<1>9. CASE Fails(t)
  <2>1. Register!Return(t)
    BY <1>0, <1>9 DEF Fails, Ends, Register!Return
  <2>. QED BY <2>1 DEF Register!RegisterNext
<1>. QED BY <1>1, <1>2, <1>3, <1>4, <1>5, <1>6, <1>7, <1>8, <1>9 DEF Step

LEMMA KilledMaps ==
  ASSUME Inv, NEW p \in Processes, Killed(p)
  PROVE  Register!RegisterNext
<1>1. ASSUME NEW t \in Tasks
      PROVE  Phase'[t] = "dead" <=> Home[t] \notin alive \/ Home[t] = p
  BY <1>1 DEF Phase, Killed
<1>2. Register!Die
  BY <1>1 DEF Register!Die, Phase, Seen, Killed, Inv, TypeOK, TaskInv, IdleInv, Runs
<1>. QED BY <1>2 DEF Register!RegisterNext

LEMMA OutsideMaps ==
  ASSUME Inv, Outside
  PROVE  Register!RegisterNext
<1>1. Register!Outside
  BY DEF Outside, task, Register!Outside, Phase, Seen, Inv, TaskInv, IdleInv, Runs
<1>. QED BY <1>1 DEF Register!RegisterNext

LEMMA NextMaps ==
  Inv /\ [Next]_vars => [Register!RegisterNext]_(Register!registerVars)
<1> SUFFICES ASSUME Inv, [Next]_vars
             PROVE  Register!RegisterNext \/ UNCHANGED Register!registerVars
  OBVIOUS
<1>1. CASE UNCHANGED vars
  BY <1>1 DEF vars, task, Register!registerVars, Phase, Seen
<1>2. CASE Next
  BY <1>2, StepMaps, KilledMaps, OutsideMaps DEF Next
<1>. QED BY <1>1, <1>2

\* Every variable has its type, in every reachable state.
THEOREM StoreTypes == Spec => []TypeOK
<1>1. Inv => TypeOK
  BY DEF Inv
<1>. QED BY <1>1, InitInv, InvIsInductive, PTL DEF Spec

\* The store is an atomic register that processes share, for any number of
\* processes and tasks and whichever of them die or fail.
THEOREM RegisterKept == Spec => KeepsRegister
BY InitInv, InvIsInductive, InitMaps, NextMaps, PTL
DEF Spec, KeepsRegister, Register!RegisterSpec
==============================================================================
