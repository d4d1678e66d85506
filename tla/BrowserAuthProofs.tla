--------------------------- MODULE BrowserAuthProofs ---------------------------
(* The safety of the BankID page, for any number of attempts and of page      *)
(* requests in flight.  An attempt that is being started belongs to the       *)
(* request that starts it and to nobody else, the current one is watched by   *)
(* that request or by its timer, and what a task found before it waited for   *)
(* the lock still holds when it saves or deletes under it.                    *)
EXTENDS BrowserAuth, TLAPS

RequestLabels == {"idle", "starting", "abandoning", "polling", "finish", "saving",
                  "cleanup", "deleting", "revoking"}
TimerLabels == {"idle", "armed", "finish", "cleanup"}
OwnerLabels == {"idle", "connect", "disconnect", "opening_connect",
                "opening_disconnect", "reading", "watching", "finally", "closing",
                "closed", "draining", "exited", "deleting", "revoking"}

Wants == {"connected", "finally", "closing"} \union Failures

\* Where task t can be, which attempt it can have, and what it can want.
Fits(t, label, a, w) ==
  /\ t \in Requests => label \in RequestLabels /\ w \in {"connected"} \union Failures
  /\ t \in Attempts => label \in TimerLabels /\ a = t /\ w = "timed_out"
  /\ t = Owner => label \in OwnerLabels /\ w \in {"finally", "closing"}
  /\ label \in {"starting", "polling", "finish", "saving"} => a \in Attempts

Labels ==
  /\ pc \in [Tasks -> RequestLabels \union TimerLabels \union OwnerLabels]
  /\ want \in [Tasks -> Wants]
  /\ \A t \in Tasks : Fits(t, pc[t], mine[t], want[t])

Types ==
  /\ persistent \in BOOLEAN /\ state \in AuthState
  /\ session \in Sessions \union {None} /\ store \in Sessions \union {None}
  /\ attempt \in Attempts \union {None}
  /\ timeoutTask \in Attempts \union {None}
  /\ mine \in [Tasks -> Sessions \union {None}]
  /\ gone \in [Tasks -> Sessions \union {None}]
  /\ cancelled \subseteq Attempts

Inside    == {"saving", "deleting", "abandoning"}
Finishing == {"armed", "polling", "finish", "saving"}

\* self._lock has one holder, and nothing it relies on changes while it awaits.
LockInv ==
  /\ \A t, u \in Tasks : pc[t] \in Inside /\ pc[u] \in Inside => t = u
  /\ \A t \in Tasks : pc[t] = "saving" =>
       persistent /\ want[t] = "connected" /\ attempt = mine[t]
  /\ \A t \in Tasks : pc[t] = "deleting" => attempt = None /\ session = None

\* An attempt belongs to the request that starts it: no poll, no timer, no other
\* start and no session has it.
StartInv ==
  \A r \in Requests : pc[r] = "starting" =>
    /\ mine[r] # session
    /\ attempt = mine[r] => state # "scanning"
    /\ \A t \in Tasks : pc[t] \in Finishing \union {"starting"} /\ t # r =>
         mine[t] # mine[r]

\* The current attempt is watched, was not given up and is not the session yet.
AttemptInv ==
  attempt # None =>
    /\ \/ \E r \in Requests : pc[r] = "starting" /\ mine[r] = attempt
       \/ pc[attempt] \in {"armed", "finish"}
    /\ attempt \notin cancelled /\ attempt # session

Inv ==
  /\ Types /\ Labels
  /\ LockInv /\ StartInv /\ AttemptInv
  /\ CancelledNeverConnects /\ ConfirmationHasSession /\ StoreHoldsSession

-----------------------------------------------------------------------------
(* Steps of one kind.  A task moves on, and nothing that is shared changes but *)
(* the state; or the current attempt is given up or settled.                   *)

\* Task t goes to label with attempt a and wish w; of the others some may be
\* cancelled timers.
Goes(t, label, a, w) ==
  /\ pc' \in [Tasks -> RequestLabels \union TimerLabels \union OwnerLabels]
  /\ pc'[t] = label
  /\ \A u \in Tasks \ {t} : pc'[u] = pc[u] \/ (u \in Attempts /\ pc'[u] = "idle")
  /\ mine' = [mine EXCEPT ![t] = a]
  /\ want' = [want EXCEPT ![t] = w]
  /\ Fits(t, label, a, w) /\ w \in Wants

\* No timer is cancelled with it.
Moves(t, label, a, w) ==
  Goes(t, label, a, w) /\ \A u \in Tasks \ {t} : pc'[u] = pc[u]

LEMMA GoesLabels ==
  ASSUME Inv, NEW t \in Tasks, NEW label, NEW a, NEW w, Goes(t, label, a, w)
  PROVE  Labels'
<1>1. want' \in [Tasks -> Wants]
  BY DEF Goes, Inv, Labels
<1>2. ASSUME NEW u \in Tasks PROVE Fits(u, pc'[u], mine'[u], want'[u])
  <2>1. CASE u = t
    BY <2>1 DEF Goes, Inv, Labels, Types
  <2>2. CASE u # t
    <3>1. mine'[u] = mine[u] /\ want'[u] = want[u] /\ Fits(u, pc[u], mine[u], want[u])
      BY <2>2 DEF Goes, Inv, Labels, Types
    <3>2. CASE pc'[u] = pc[u]
      BY <3>1, <3>2
    <3>3. CASE u \in Attempts /\ pc'[u] = "idle"
      BY <3>1, <3>3, TaskAssumption DEF Fits, TimerLabels
    <3>. QED BY <2>2, <3>2, <3>3 DEF Goes
  <2>. QED BY <2>1, <2>2
<1>. QED BY <1>1, <1>2 DEF Labels, Goes

LEMMA MoveStep ==
  ASSUME Inv, Types', NEW t \in Tasks, NEW label, NEW a, NEW w,
         Moves(t, label, a, w),
         UNCHANGED <<persistent, store, attempt, cancelled>>,
         session' \in {session, None},
         state' = "scanning" => state = "scanning",
         state' = "awaiting_disconnect" => session' # None,
         pc[t] # "starting", label \notin {"starting", "deleting"},
         label = "saving" => Unlocked /\ persistent /\ w = "connected" /\ attempt = a,
         label = "abandoning" => Unlocked,
         label \in Finishing =>
           \/ pc[t] \in Finishing /\ a = mine[t]
           \/ attempt = a /\ attempt # None /\ state = "scanning",
         attempt = t /\ pc[t] \in {"armed", "finish"} => label \in {"armed", "finish"}
  PROVE  Inv'
<1>1. Labels'
  BY GoesLabels DEF Moves
<1>2. /\ pc'[t] = label /\ mine'[t] = a /\ want'[t] = w
      /\ \A u \in Tasks \ {t} : pc'[u] = pc[u] /\ mine'[u] = mine[u] /\ want'[u] = want[u]
  BY DEF Moves, Goes, Inv, Labels, Types
<1>3. LockInv'
  BY <1>2 DEF Inv, LockInv, Inside, Unlocked
<1>4. StartInv'
  <2> SUFFICES ASSUME NEW r \in Requests, pc'[r] = "starting"
               PROVE  /\ mine'[r] # session'
                      /\ attempt' = mine'[r] => state' # "scanning"
                      /\ \A u \in Tasks : pc'[u] \in Finishing \union {"starting"} /\ u # r =>
                           mine'[u] # mine'[r]
    BY DEF StartInv
  <2>1. r # t /\ r \in Tasks /\ pc[r] = "starting" /\ mine'[r] = mine[r]
    BY <1>2 DEF Tasks
  <2>2. mine[r] \notin {session, None} /\ (attempt = mine[r] => state # "scanning")
    BY <2>1, TaskAssumption DEF Inv, StartInv, Labels, Fits
  <2>3. ASSUME NEW u \in Tasks, pc'[u] \in Finishing \union {"starting"}, u # r
        PROVE  mine'[u] # mine'[r]
    <3>1. CASE u = t
      BY <1>2, <2>1, <2>2, <2>3, <3>1 DEF Inv, StartInv
    <3>2. CASE u # t
      BY <1>2, <2>1, <2>3, <3>2 DEF Inv, StartInv
    <3>. QED BY <3>1, <3>2
  <2>. QED BY <2>1, <2>2, <2>3
<1>5. AttemptInv'
  <2> SUFFICES ASSUME attempt # None PROVE AttemptInv'
    BY DEF AttemptInv
  <2>1. attempt \notin cancelled /\ attempt # session /\ attempt \in Attempts
    BY DEF Inv, AttemptInv, Types
  <2>2. CASE \E r \in Requests : pc[r] = "starting" /\ mine[r] = attempt
    <3>1. PICK r \in Requests : pc[r] = "starting" /\ mine[r] = attempt
      BY <2>2
    <3>2. r # t /\ r \in Tasks
      BY <3>1 DEF Tasks
    <3>. QED BY <1>2, <2>1, <3>1, <3>2 DEF AttemptInv
  <2>3. CASE pc[attempt] \in {"armed", "finish"}
    BY <1>2, <2>1, <2>3 DEF AttemptInv, Tasks
  <2>. QED BY <2>2, <2>3 DEF Inv, AttemptInv
<1>6. CancelledNeverConnects' /\ ConfirmationHasSession' /\ StoreHoldsSession'
  BY TaskAssumption DEF Inv, Types, CancelledNeverConnects, ConfirmationHasSession, StoreHoldsSession
<1>. QED BY <1>1, <1>3, <1>4, <1>5, <1>6 DEF Inv

\* No task moves.
LEMMA StillStep ==
  ASSUME Inv, Types',
         UNCHANGED <<persistent, session, store, attempt, cancelled, pc, mine, want>>,
         state' = "scanning" => state = "scanning",
         state' = "awaiting_disconnect" => session # None
  PROVE  Inv'
<1>1. Labels' /\ LockInv' /\ AttemptInv'
  BY DEF Inv, Labels, LockInv, AttemptInv
<1>2. StartInv'
  BY DEF Inv, StartInv
<1>3. CancelledNeverConnects' /\ ConfirmationHasSession' /\ StoreHoldsSession'
  BY DEF Inv, CancelledNeverConnects, ConfirmationHasSession, StoreHoldsSession
<1>. QED BY <1>1, <1>2, <1>3 DEF Inv

\* The attempt is over: t goes on behind the lock, or holds it to delete.
LEMMA ReleaseStep ==
  ASSUME Inv, Types', NEW t \in Tasks, NEW label, NEW a, NEW w,
         Goes(t, label, a, w), Unlocked \/ pc[t] \in Inside,
         persistent' = persistent, attempt' = None,
         \/ session' \in {session, None}
         \/ session' = mine[t] /\ pc[t] \in Finishing,
         session' \notin cancelled',
         state' = "awaiting_disconnect" => session' # None,
         persistent /\ session' # None => store' = session',
         label \notin Finishing \union {"starting", "abandoning"},
         label = "deleting" => session' = None
  PROVE  Inv'
<1>1. Labels'
  BY GoesLabels
<1>2. /\ pc'[t] = label /\ mine'[t] = a /\ want'[t] = w
      /\ \A u \in Tasks \ {t} :
           /\ pc'[u] = pc[u] \/ pc'[u] = "idle"
           /\ mine'[u] = mine[u] /\ want'[u] = want[u]
  BY DEF Goes, Inv, Labels, Types
<1>3. \A u \in Tasks \ {t} : pc'[u] \notin Inside
  BY <1>2 DEF Unlocked, Inv, LockInv, Inside
<1>4. LockInv'
  BY <1>2, <1>3 DEF LockInv, Inside, Finishing
<1>5. StartInv'
  <2> SUFFICES ASSUME NEW r \in Requests, pc'[r] = "starting"
               PROVE  /\ mine'[r] # session'
                      /\ attempt' # mine'[r]
                      /\ \A u \in Tasks : pc'[u] \in Finishing \union {"starting"} /\ u # r =>
                           mine'[u] # mine'[r]
    BY DEF StartInv
  <2>1. r # t /\ r \in Tasks /\ pc[r] = "starting" /\ mine'[r] = mine[r]
    BY <1>2 DEF Tasks
  <2>2. mine[r] \in Attempts
    BY <2>1 DEF Inv, Labels, Fits
  <2>3. mine'[r] # session'
    BY <2>1, <2>2, TaskAssumption DEF Inv, StartInv
  <2>4. ASSUME NEW u \in Tasks, pc'[u] \in Finishing \union {"starting"}, u # r
        PROVE  mine'[u] # mine'[r]
    BY <1>2, <2>1, <2>4 DEF Inv, StartInv, Finishing
  <2>. QED BY <2>1, <2>2, <2>3, <2>4, TaskAssumption
<1>6. AttemptInv'
  BY DEF AttemptInv
<1>7. CancelledNeverConnects' /\ ConfirmationHasSession' /\ StoreHoldsSession'
  BY DEF CancelledNeverConnects, ConfirmationHasSession, StoreHoldsSession
<1>. QED BY <1>1, <1>4, <1>5, <1>6, <1>7 DEF Inv

LEMMA GotoMoves ==
  ASSUME Inv, NEW t \in Tasks, NEW label, Goto(t, label), UNCHANGED <<mine, want>>,
         Fits(t, label, mine[t], want[t])
  PROVE  Moves(t, label, mine[t], want[t])
<1>1. t \in Requests \/ t \in Attempts \/ t = Owner
  BY DEF Tasks
<1>2. label \in RequestLabels \union TimerLabels \union OwnerLabels
  BY <1>1 DEF Fits
<1>. QED BY <1>2 DEF Moves, Goes, Goto, Inv, Labels, Types

LEMMA ForgetMoves ==
  ASSUME Inv, NEW t \in Tasks, NEW label, Goto(t, label), Forget(t),
         label \notin {"starting", "polling", "finish", "saving"},
         t \in Requests => label \in RequestLabels,
         t \in Attempts => label \in TimerLabels,
         t = Owner => label \in OwnerLabels
  PROVE  Moves(t, label, IF t \in Attempts THEN t ELSE None,
               IF t = Owner THEN "finally" ELSE "timed_out")
<1>1. t \in Requests \/ t \in Attempts \/ t = Owner
  BY DEF Tasks
<1>2. label \in RequestLabels \union TimerLabels \union OwnerLabels
  BY <1>1
<1>. QED BY <1>1, <1>2, TaskAssumption
         DEF Moves, Goes, Goto, Forget, Fits, Wants, Failures, Inv, Labels

LEMMA CancelGoes ==
  ASSUME Inv, NEW t \in Tasks, NEW label, NEW a, NEW w, CancelTimeout(t, label),
         mine' = [mine EXCEPT ![t] = a], want' = [want EXCEPT ![t] = w],
         Fits(t, label, a, w), w \in Wants
  PROVE  Goes(t, label, a, w)
<1>1. t \in Requests \/ t \in Attempts \/ t = Owner
  BY DEF Tasks
<1>2. label \in RequestLabels \union TimerLabels \union OwnerLabels
  BY <1>1 DEF Fits
<1>3. timeoutTask \in Attempts \union {None}
  BY DEF Inv, Types
<1>4. pc' \in [Tasks -> RequestLabels \union TimerLabels \union OwnerLabels]
  BY <1>2 DEF CancelTimeout, Inv, Labels, TimerLabels
<1>5. ASSUME NEW u \in Tasks \ {t}
      PROVE  pc'[u] = pc[u] \/ (u \in Attempts /\ pc'[u] = "idle")
  <2>2. CASE u = timeoutTask /\ u \in Attempts
    BY <2>2 DEF CancelTimeout
  <2>3. CASE u # timeoutTask
    BY <2>3 DEF CancelTimeout
  <2>. QED BY <1>3, <2>2, <2>3, TaskAssumption DEF Tasks
<1>. QED BY <1>4, <1>5 DEF Goes, CancelTimeout

-----------------------------------------------------------------------------
(* Types.                                                                      *)

LEMMA InitInv == Init => Inv
<1> SUFFICES ASSUME Init PROVE Inv
  OBVIOUS
<1>1. Types
  BY DEF Init, Types, AuthState, Sessions, Tasks
<1>2. Labels
  BY TaskAssumption DEF Init, Labels, Fits, Tasks, RequestLabels, TimerLabels, OwnerLabels,
                        Wants, Failures
<1>. QED
  BY <1>1, <1>2 DEF Init, Inv, LockInv, StartInv, AttemptInv, Inside, Finishing, Tasks,
     CancelledNeverConnects, ConfirmationHasSession, StoreHoldsSession

LEMMA TypeStep == Inv /\ [Next]_vars => Types'
<1> SUFFICES ASSUME Types, Labels, [Next]_vars PROVE Types'
  BY DEF Inv
<1> USE TaskAssumption DEF Types, AuthState, Sessions
<1>1. ASSUME NEW r \in Requests, NEW a \in Attempts, Approve(r, a) PROVE Types'
  BY <1>1 DEF Approve, Goto, listenerVars, Tasks
<1>2. ASSUME NEW r \in Requests,
             \/ StartFails(r) \/ StartSucceeds(r) \/ StartAbandoned(r) \/ Abandoned(r)
             \/ Poll(r) \/ PollPending(r) \/ Cancel(r) \/ Keep(r)
      PROVE  Types'
  <2>1. CASE StartFails(r)
    BY <2>1 DEF StartFails, CancelClient, ScheduleStop, Forget, Tasks, Failures
  <2>2. CASE StartSucceeds(r)
    BY <2>2 DEF StartSucceeds, Forget, Tasks, listenerVars, Labels, Fits
  <2>3. CASE StartAbandoned(r) \/ Abandoned(r)
    BY <2>3 DEF StartAbandoned, Abandoned, CancelClient, Forget, Tasks, authVars, taskVars, listenerVars
  <2>4. CASE Poll(r) \/ PollPending(r)
    BY <2>4 DEF Poll, PollPending, Forget, Tasks, authVars, listenerVars
  <2>5. CASE Cancel(r)
    BY <2>5 DEF Cancel, CancelClient, CancelTimeout, ScheduleStop, Tasks, listenerVars
  <2>6. CASE Keep(r)
    BY <2>6 DEF Keep, ScheduleStop, taskVars
  <2>. QED BY <1>2, <2>1, <2>2, <2>3, <2>4, <2>5, <2>6
<1>3. ASSUME NEW r \in Requests,
             \/ \E s \in {"connected", "denied", "timed_out"} : PollAnswers(r, s)
             \/ \E s \in Failures : PollRaises(r, s)
      PROVE  Types'
  BY <1>3 DEF PollAnswers, PollRaises, authVars, listenerVars
<1>4. ASSUME NEW t \in Tasks, Disconnect(t) PROVE Types'
  BY <1>4 DEF Disconnect, ReleaseAll, ScheduleStop, CancelClient, CancelTimeout, listenerVars
<1>5. ASSUME NEW t \in Requests \union Attempts, FinishStep(t) PROVE Types'
  <2>1. t \in Tasks
    BY DEF Tasks
  <2>2. ASSUME NEW s \in {"connected"} \union Failures, Settle(t, s), UNCHANGED <<persistent, gone>>,
               store' \in {store, mine[t]}
        PROVE  Types'
    BY <2>1, <2>2 DEF Settle, CancelTimeout, Forget, ScheduleStop, CancelClient, listenerVars, Failures
  <2>3. CASE FinishAttempt(t)
    <3>1. want[t] \in {"connected"} \union Failures
      BY <2>1 DEF Labels, Fits, Failures
    <3>. QED BY <2>2, <2>3, <3>1 DEF FinishAttempt
  <2>4. CASE SessionSaved(t) \/ SaveFails(t)
    BY <2>2, <2>4 DEF SessionSaved, SaveFails, Failures
  <2>5. CASE FinishStale(t) \/ CleanedUp(t) \/ SaveSession(t)
    BY <2>1, <2>5 DEF FinishStale, CleanedUp, SaveSession, Forget, ScheduleStop, authVars,
                      listenerVars, taskVars
  <2>. QED BY <1>5, <2>3, <2>4, <2>5 DEF FinishStep
<1>6. ASSUME NEW t \in Requests \union {Owner}, DisconnectStep(t) PROVE Types'
  <2>1. t \in Tasks
    BY DEF Tasks
  <2>. QED BY <1>6, <2>1 DEF DisconnectStep, Deleted, Revoked, RevocationFails, ReleaseAll,
              ScheduleStop, CancelClient, Forget, authVars, listenerVars
<1>7. ASSUME NEW mode \in Modes, LockedSection(mode) PROVE Types'
  BY <1>7 DEF LockedSection, OpenBrowser, AlreadyConnected, ListenerFails, OpenDisconnectBrowser,
              NothingToDisconnect, CommandDone, Report, authVars, listenerVars, taskVars
<1>8. ASSUME Close PROVE Types'
  BY <1>8 DEF Close, CancelClient, CancelTimeout, DropListener, StopListener, listenerVars
<1>9. CASE OwnerStarts
  <2>1. CASE \E mode \in Modes : Open(mode) \/ OpenWaits(mode)
    BY <1>7, <2>1 DEF Open, OpenWaits, authVars, taskVars
  <2>2. CASE Read
    BY <2>2 DEF Read, authVars, listenerVars
  <2>3. CASE Leave
    BY <1>4, <2>3 DEF Leave, Tasks, authVars, listenerVars
  <2>. QED BY <1>9, <2>1, <2>2, <2>3 DEF OwnerStarts
<1>10. CASE OwnerGoesOn
  <2>1. CASE OpenWaited
    BY <1>7, <2>1 DEF OpenWaited
  <2>2. CASE Opened \/ NotOpened
    BY <2>2 DEF Opened, NotOpened, PageMode, CommandDone, Report, StopListener, authVars, taskVars
  <2>3. CASE ReadDone \/ InvalidateSession
    BY <2>3 DEF ReadDone, InvalidateSession, Forget, authVars, listenerVars
  <2>4. CASE Watch \/ Exit
    BY <2>4 DEF Watch, Exit, Report, authVars, listenerVars, taskVars
  <2>5. CASE Finally \/ WaitedToClose
    BY <1>4, <1>8, <2>5 DEF Finally, WaitedToClose, Tasks, authVars, listenerVars
  <2>6. CASE CloseListener
    BY <2>6 DEF CloseListener, DropListener, StopListener, authVars, taskVars
  <2>. QED BY <1>10, <2>1, <2>2, <2>3, <2>4, <2>5, <2>6 DEF OwnerGoesOn
<1>11. CASE Page \/ StopListenerLater \/ \E a \in Attempts : Expire(a)
  BY <1>11 DEF Page, StopListenerLater, Expire, PageMode, StopListener, authVars, listenerVars, taskVars
<1>12. CASE UNCHANGED vars
  BY <1>12 DEF vars, authVars, listenerVars, taskVars
<1>13. ASSUME NEW r \in Requests, RequestStep(r) PROVE Types'
  BY <1>1, <1>2, <1>3, <1>4, <1>13 DEF RequestStep, ConfirmDisconnect, Tasks
<1>. QED BY <1>5, <1>6, <1>9, <1>10, <1>11, <1>12, <1>13 DEF Next

-----------------------------------------------------------------------------
(* The requests of the page.                                                   *)

LEMMA ApproveStep ==
  ASSUME Inv, Types', NEW r \in Requests, NEW a \in Attempts, Approve(r, a)
  PROVE  Inv'
<1>1. /\ r \in Tasks /\ a \in Tasks /\ a # r /\ a # None /\ Unlocked
      /\ a \notin cancelled /\ a # session
      /\ \A t \in Tasks : pc[t] # "idle" => mine[t] # a
  BY TaskAssumption DEF Approve, Fresh, Tasks
<1>2. /\ attempt' = a /\ state' = "starting"
      /\ mine' = [mine EXCEPT ![r] = a] /\ pc' = [pc EXCEPT ![r] = "starting"]
      /\ UNCHANGED <<persistent, session, store, want, cancelled>>
  BY DEF Approve, Goto
<1>3. /\ pc'[r] = "starting" /\ mine'[r] = a
      /\ \A t \in Tasks \ {r} : pc'[t] = pc[t] /\ mine'[t] = mine[t]
  BY <1>1, <1>2 DEF Inv, Labels, Types
<1>4. Labels'
  BY <1>1, <1>2, <1>3, TaskAssumption DEF Inv, Labels, Fits, RequestLabels
<1>5. LockInv'
  BY <1>1, <1>2, <1>3 DEF LockInv, Unlocked, Inside
<1>6. StartInv'
  <2>1. \A t \in Tasks : pc[t] \in Finishing \union {"starting"} => mine[t] # a
    BY <1>1 DEF Finishing
  <2>. QED BY <1>1, <1>2, <1>3, <2>1 DEF Inv, StartInv, Tasks
<1>7. AttemptInv'
  BY <1>1, <1>2, <1>3 DEF AttemptInv
<1>. QED BY <1>2, <1>4, <1>5, <1>6, <1>7
         DEF Inv, CancelledNeverConnects, ConfirmationHasSession, StoreHoldsSession

\* What a request that starts an attempt knows.
LEMMA StartsOwn ==
  ASSUME Inv, NEW r \in Requests, pc[r] = "starting"
  PROVE  /\ r \in Tasks /\ mine[r] \in Attempts /\ mine[r] \in Tasks /\ mine[r] # r
         /\ mine[r] # session
         /\ attempt = mine[r] => state # "scanning"
         /\ \A t \in Tasks : pc[t] \in Finishing \union {"starting"} /\ t # r =>
              mine[t] # mine[r]
BY TaskAssumption DEF Inv, StartInv, Labels, Fits, Tasks

LEMMA StartFailsStep ==
  ASSUME Inv, Types', NEW r \in Requests, StartFails(r)
  PROVE  Inv'
<1>1. r \in Tasks /\ mine[r] \in Attempts /\ mine[r] # session /\ Unlocked
  BY StartsOwn DEF StartFails
<1>2. Moves(r, "idle", None, "timed_out")
  BY <1>1, ForgetMoves, TaskAssumption DEF StartFails, RequestLabels
<1>3. session \notin cancelled'
  BY <1>1, TaskAssumption DEF StartFails, CancelClient, Inv, CancelledNeverConnects
<1>4. CASE attempt = mine[r]
  <2>1. attempt' = None /\ state' \in Failures /\ UNCHANGED <<persistent, session, store>>
    BY <1>4 DEF StartFails
  <2>. QED BY <1>1, <1>2, <1>3, <2>1, ReleaseStep
           DEF Moves, Failures, Finishing, Inv, StoreHoldsSession
<1>5. CASE attempt # mine[r]
  <2>1. /\ UNCHANGED <<persistent, state, session, store, attempt>>
        /\ cancelled' = cancelled \union {mine[r]}
        /\ pc' = [pc EXCEPT ![r] = "idle"]
    BY <1>1, <1>5 DEF StartFails, CancelClient, Goto
  <2>2. /\ pc'[r] = "idle"
        /\ \A t \in Tasks \ {r} : pc'[t] = pc[t] /\ mine'[t] = mine[t] /\ want'[t] = want[t]
    BY <1>2, <2>1 DEF Moves, Goes, Inv, Labels, Types
  <2>3. Labels'
    BY <1>1, <1>2, GoesLabels DEF Moves
  <2>4. LockInv'
    BY <1>1, <2>1, <2>2 DEF LockInv, Unlocked, Inside
  <2>5. StartInv'
    BY <2>1, <2>2 DEF Inv, StartInv, Tasks, Finishing
  <2>6. AttemptInv'
    <3> SUFFICES ASSUME attempt # None PROVE AttemptInv'
      BY <2>1 DEF AttemptInv
    <3>1. attempt \in Attempts /\ attempt # r /\ attempt \in Tasks
      BY TaskAssumption DEF Inv, Types, Tasks
    <3>2. attempt \notin cancelled' /\ attempt # session
      BY <1>5, <2>1 DEF Inv, AttemptInv
    <3>3. CASE \E q \in Requests : pc[q] = "starting" /\ mine[q] = attempt
      <4>1. PICK q \in Requests : pc[q] = "starting" /\ mine[q] = attempt
        BY <3>3
      <4>2. q # r /\ q \in Tasks
        BY <1>5, <4>1 DEF Tasks
      <4>. QED BY <2>1, <2>2, <3>2, <4>1, <4>2 DEF AttemptInv
    <3>4. CASE pc[attempt] \in {"armed", "finish"}
      BY <2>1, <2>2, <3>1, <3>2, <3>4 DEF AttemptInv
    <3>. QED BY <3>3, <3>4 DEF Inv, AttemptInv
  <2>. QED BY <1>3, <2>1, <2>3, <2>4, <2>5, <2>6
           DEF Inv, CancelledNeverConnects, ConfirmationHasSession, StoreHoldsSession
<1>. QED BY <1>4, <1>5

LEMMA StartSucceedsStep ==
  ASSUME Inv, Types', NEW r \in Requests, StartSucceeds(r)
  PROVE  Inv'
<1> DEFINE a == mine[r]
<1>1. /\ r \in Tasks /\ a \in Attempts /\ a \in Tasks /\ a # r /\ a # session /\ attempt = a
      /\ Unlocked /\ a \notin cancelled /\ a # None /\ mine[a] = a /\ want[a] = "timed_out"
      /\ \A t \in Tasks : pc[t] \in Finishing \union {"starting"} /\ t # r => mine[t] # a
  BY StartsOwn, TaskAssumption DEF StartSucceeds, Inv, Labels, Fits
<1> HIDE DEF a
<1>2. /\ state' = "scanning" /\ UNCHANGED <<persistent, session, store, attempt, cancelled>>
      /\ pc' = [pc EXCEPT ![r] = "idle", ![a] = "armed"]
      /\ mine' = [mine EXCEPT ![r] = None] /\ want' = [want EXCEPT ![r] = "timed_out"]
  BY TaskAssumption DEF StartSucceeds, Forget, a
<1>3. /\ pc'[r] = "idle" /\ pc'[a] = "armed" /\ mine'[a] = a
      /\ \A t \in Tasks \ {r, a} : pc'[t] = pc[t]
      /\ \A t \in Tasks \ {r} : mine'[t] = mine[t] /\ want'[t] = want[t]
      /\ mine'[r] = None /\ want'[r] = "timed_out"
  BY <1>1, <1>2 DEF Inv, Labels, Types
<1>4. Labels'
  <2>1. pc' \in [Tasks -> RequestLabels \union TimerLabels \union OwnerLabels]
        /\ want' \in [Tasks -> Wants]
    BY <1>2 DEF Inv, Labels, TimerLabels, Wants, Failures
  <2>2. ASSUME NEW t \in Tasks PROVE Fits(t, pc'[t], mine'[t], want'[t])
    <3>1. CASE t = r
      BY <1>3, <3>1, TaskAssumption DEF Fits, RequestLabels, Failures
    <3>2. CASE t = a
      BY <1>1, <1>3, <3>2, TaskAssumption DEF Fits, TimerLabels
    <3>3. CASE t # r /\ t # a
      BY <1>3, <3>3 DEF Inv, Labels
    <3>. QED BY <3>1, <3>2, <3>3
  <2>. QED BY <2>1, <2>2 DEF Labels
<1>5. LockInv'
  BY <1>1, <1>2, <1>3 DEF LockInv, Unlocked, Inside
<1>6. StartInv'
  <2> SUFFICES ASSUME NEW q \in Requests, pc'[q] = "starting"
               PROVE  /\ mine'[q] # session' /\ attempt' # mine'[q]
                      /\ \A t \in Tasks : pc'[t] \in Finishing \union {"starting"} /\ t # q =>
                           mine'[t] # mine'[q]
    BY DEF StartInv
  <2>1. q # r /\ q # a /\ q \in Tasks /\ pc[q] = "starting" /\ mine'[q] = mine[q]
    BY <1>1, <1>3 DEF Tasks
  <2>2. mine[q] # a /\ mine[q] # session
    BY <1>1, <2>1 DEF Inv, StartInv
  <2>3. ASSUME NEW t \in Tasks, pc'[t] \in Finishing \union {"starting"}, t # q
        PROVE  mine'[t] # mine'[q]
    <3>1. CASE t = a
      BY <1>3, <2>1, <2>2, <3>1
    <3>2. CASE t # a
      <4>1. t # r /\ pc'[t] = pc[t] /\ mine'[t] = mine[t]
        BY <1>3, <2>3, <3>2 DEF Finishing
      <4>. QED BY <2>1, <2>3, <4>1 DEF Inv, StartInv
    <3>. QED BY <3>1, <3>2
  <2>. QED BY <1>1, <1>2, <2>1, <2>2, <2>3
<1>7. AttemptInv'
  BY <1>1, <1>2, <1>3 DEF AttemptInv
<1>. QED BY <1>2, <1>4, <1>5, <1>6, <1>7
         DEF Inv, CancelledNeverConnects, ConfirmationHasSession, StoreHoldsSession

LEMMA StartAbandonedStep ==
  ASSUME Inv, Types', NEW r \in Requests, StartAbandoned(r)
  PROVE  Inv'
<1>1. r \in Tasks /\ mine[r] \in Attempts /\ mine[r] # session /\ attempt # mine[r] /\ Unlocked
  BY StartsOwn DEF StartAbandoned
<1>2. /\ UNCHANGED <<persistent, state, session, store, attempt, mine, want>>
      /\ cancelled' = cancelled \union {mine[r]}
      /\ pc' = [pc EXCEPT ![r] = "abandoning"]
  BY <1>1 DEF StartAbandoned, CancelClient, Goto, authVars, taskVars
<1>3. Fits(r, "abandoning", mine[r], want[r])
  BY <1>1, TaskAssumption DEF Fits, RequestLabels, Inv, Labels
<1>4. Labels'
  BY <1>1, <1>2, <1>3, GotoMoves, GoesLabels DEF Moves, Goto
<1>5. pc'[r] = "abandoning" /\ \A t \in Tasks \ {r} : pc'[t] = pc[t]
  BY <1>1, <1>2 DEF Inv, Labels
<1>6. LockInv'
  BY <1>1, <1>2, <1>5 DEF LockInv, Unlocked, Inside
<1>7. StartInv'
  BY <1>2, <1>5 DEF Inv, StartInv, Tasks, Finishing
<1>8. AttemptInv'
  <2> SUFFICES ASSUME attempt # None PROVE AttemptInv'
    BY <1>2 DEF AttemptInv
  <2>1. attempt \in Attempts /\ attempt # r /\ attempt \in Tasks
    BY TaskAssumption DEF Inv, Types, Tasks
  <2>2. attempt \notin cancelled' /\ attempt # session
    BY <1>1, <1>2 DEF Inv, AttemptInv
  <2>3. CASE \E q \in Requests : pc[q] = "starting" /\ mine[q] = attempt
    <3>1. PICK q \in Requests : pc[q] = "starting" /\ mine[q] = attempt
      BY <2>3
    <3>2. q # r /\ q \in Tasks
      BY <1>1, <3>1 DEF Tasks
    <3>. QED BY <1>2, <1>5, <2>2, <3>1, <3>2 DEF AttemptInv
  <2>4. CASE pc[attempt] \in {"armed", "finish"}
    BY <1>2, <1>5, <2>1, <2>2, <2>4 DEF AttemptInv
  <2>. QED BY <2>3, <2>4 DEF Inv, AttemptInv
<1>9. CancelledNeverConnects'
  BY <1>1, <1>2 DEF Inv, CancelledNeverConnects
<1>. QED BY <1>2, <1>4, <1>6, <1>7, <1>8, <1>9
         DEF Inv, ConfirmationHasSession, StoreHoldsSession

LEMMA WithMoves ==
  ASSUME Inv, NEW t \in Tasks, NEW label, NEW a, NEW w, Goto(t, label),
         mine' = [mine EXCEPT ![t] = a], want' = [want EXCEPT ![t] = w],
         Fits(t, label, a, w), w \in Wants
  PROVE  Moves(t, label, a, w)
<1>1. t \in Requests \/ t \in Attempts \/ t = Owner
  BY DEF Tasks
<1>2. label \in RequestLabels \union TimerLabels \union OwnerLabels
  BY <1>1 DEF Fits
<1>. QED BY <1>2 DEF Moves, Goes, Goto, Inv, Labels

LEMMA Same ==
  ASSUME Inv, NEW t \in Tasks
  PROVE  /\ UNCHANGED mine => mine' = [mine EXCEPT ![t] = mine[t]]
         /\ UNCHANGED want => want' = [want EXCEPT ![t] = want[t]]
         /\ Fits(t, pc[t], mine[t], want[t]) /\ want[t] \in Wants
BY DEF Inv, Types, Labels

LEMMA PollStep ==
  ASSUME Inv, Types', NEW r \in Requests,
         \/ Poll(r) \/ PollPending(r) \/ Abandoned(r)
         \/ \E s \in {"connected", "denied", "timed_out"} : PollAnswers(r, s)
         \/ \E s \in Failures : PollRaises(r, s)
  PROVE  Inv'
<1>1. r \in Tasks /\ r \notin Attempts /\ r # Owner
  BY TaskAssumption DEF Tasks
<1>2. CASE Poll(r)
  <2>1. /\ attempt \in Attempts /\ attempt # None /\ state = "scanning"
        /\ pc[r] = "idle" /\ want[r] \in Wants
        /\ Fits(r, "polling", attempt, want[r])
    BY <1>1, <1>2, TaskAssumption
       DEF Poll, Serves, Inv, Types, Labels, Fits, RequestLabels
  <2>2. Moves(r, "polling", attempt, want[r])
    BY <1>1, <1>2, <2>1, Same, WithMoves DEF Poll
  <2>3. /\ pc' = [pc EXCEPT ![r] = "polling"]
        /\ UNCHANGED <<persistent, state, session, store, attempt, cancelled>>
        /\ attempt # r
    BY <1>1, <1>2, <2>1 DEF Poll, Goto, authVars
  <2>. QED BY <1>1, <2>1, <2>2, <2>3, MoveStep
<1>3. CASE PollPending(r) \/ Abandoned(r)
  <2>1. Moves(r, "idle", None, "timed_out")
    BY <1>1, <1>3, ForgetMoves DEF PollPending, Abandoned, RequestLabels
  <2>. QED BY <1>1, <1>3, <2>1, MoveStep, TaskAssumption
           DEF PollPending, Abandoned, Goto, authVars, Finishing, Inv, ConfirmationHasSession
<1>4. CASE \/ \E s \in {"connected", "denied", "timed_out"} : PollAnswers(r, s)
           \/ \E s \in Failures : PollRaises(r, s)
  <2>1. PICK s \in {"connected"} \union Failures :
          /\ pc[r] = "polling" /\ want' = [want EXCEPT ![r] = s] /\ Goto(r, "finish")
          /\ UNCHANGED <<persistent, state, session, store, attempt, mine, cancelled>>
    BY <1>4 DEF PollAnswers, PollRaises, authVars, Failures
  <2>2. Fits(r, "finish", mine[r], s) /\ s \in Wants
    BY <1>1, <2>1 DEF Inv, Labels, Fits, RequestLabels, Wants
  <2>3. Moves(r, "finish", mine[r], s)
    BY <1>1, <2>1, <2>2, Same, WithMoves
  <2>. QED BY <1>1, <2>1, <2>3, MoveStep, TaskAssumption
           DEF Goto, Finishing, Inv, Types, ConfirmationHasSession
<1>. QED BY <1>2, <1>3, <1>4

LEMMA CancelStep ==
  ASSUME Inv, Types', NEW r \in Requests, Cancel(r)
  PROVE  Inv'
<1>1. r \in Tasks /\ r \notin Attempts /\ r # Owner /\ Unlocked
  BY TaskAssumption DEF Tasks, Cancel
<1> DEFINE label == IF attempt = None THEN "idle" ELSE "cleanup"
<1>2. Fits(r, label, attempt, want[r]) /\ want[r] \in Wants
  BY <1>1 DEF Fits, RequestLabels, Inv, Labels
<1>3. Goes(r, label, attempt, want[r])
  BY <1>1, <1>2, Same, CancelGoes DEF Cancel
<1>4. session \notin cancelled'
  BY TaskAssumption DEF Cancel, CancelClient, Inv, AttemptInv, Types, CancelledNeverConnects
<1>. QED BY <1>1, <1>3, <1>4, ReleaseStep
         DEF Cancel, Finishing, Inv, StoreHoldsSession

LEMMA KeepStep ==
  ASSUME Inv, Types', NEW r \in Requests, Keep(r)
  PROVE  Inv'
BY StillStep DEF Keep, taskVars, Inv, ConfirmationHasSession

-----------------------------------------------------------------------------
(* _finish_attempt.                                                            *)

LEMMA SettleStep ==
  ASSUME Inv, Types', NEW t \in Requests \union Attempts, NEW s \in {"connected"} \union Failures,
         Settle(t, s), pc[t] \in {"finish", "saving"}, attempt = mine[t],
         Unlocked \/ pc[t] = "saving",
         persistent' = persistent,
         s = "connected" /\ persistent => store' = mine[t]
  PROVE  Inv'
<1>1. /\ t \in Tasks /\ t # Owner /\ mine[t] \in Attempts /\ mine[t] \notin cancelled
      /\ mine[t] # None /\ t \in Attempts => mine[t] = t
  BY TaskAssumption DEF Tasks, Inv, Labels, Fits, AttemptInv
<1>2. CASE s = "connected"
  <2>1. Goes(t, "idle", IF t \in Attempts THEN t ELSE None, "timed_out")
    BY <1>1, <1>2, CancelGoes, TaskAssumption
       DEF Settle, Forget, Fits, RequestLabels, TimerLabels, Failures, Wants
  <2>2. session' = mine[t] /\ cancelled' = cancelled /\ state' = "connected" /\ attempt' = None
    BY <1>2 DEF Settle
  <2>. QED BY <1>1, <1>2, <2>1, <2>2, ReleaseStep DEF Finishing, Inside
<1>3. CASE s # "connected"
  <2>1. Goes(t, "cleanup", mine[t], want[t])
    BY <1>1, <1>3, Same, CancelGoes DEF Settle, Fits, RequestLabels, TimerLabels
  <2>2. session' = None /\ cancelled' \subseteq Attempts /\ state' \in Failures /\ attempt' = None
    BY <1>3 DEF Settle, Types
  <2>. QED BY <1>1, <1>3, <2>1, <2>2, ReleaseStep, TaskAssumption
           DEF Finishing, Failures, Inside
<1>. QED BY <1>2, <1>3

LEMMA FinishSteps ==
  ASSUME Inv, Types', NEW t \in Requests \union Attempts, FinishStep(t)
  PROVE  Inv'
<1>1. t \in Tasks /\ t # Owner
  BY TaskAssumption DEF Tasks
<1>2. CASE FinishAttempt(t)
  <2>1. want[t] \in {"connected"} \union Failures
    BY <1>1 DEF Inv, Labels, Fits, Failures
  <2>. QED BY <1>2, <2>1, SettleStep DEF FinishAttempt
<1>3. CASE SessionSaved(t)
  BY <1>1, <1>3, SettleStep DEF SessionSaved, Inv, LockInv
<1>4. CASE SaveFails(t)
  BY <1>1, <1>4, SettleStep DEF SaveFails, Inv, LockInv, Failures
<1>5. CASE SaveSession(t)
  <2>1. t \in Requests /\ t \notin Attempts
    BY <1>1, <1>5, TaskAssumption DEF SaveSession, Inv, Labels, Fits
  <2>2. Fits(t, "saving", mine[t], want[t])
    BY <1>1, <1>5, <2>1 DEF SaveSession, Inv, Labels, Fits, RequestLabels
  <2>3. Moves(t, "saving", mine[t], want[t])
    BY <1>1, <1>5, <2>2, GotoMoves DEF SaveSession, taskVars
  <2>4. attempt # t
    BY <2>1, TaskAssumption DEF Inv, Types
  <2>. QED BY <1>1, <1>5, <2>3, <2>4, MoveStep
           DEF SaveSession, Goto, authVars, Finishing, Inv, ConfirmationHasSession
<1>6. CASE FinishStale(t) \/ CleanedUp(t)
  <2>1. Moves(t, "idle", IF t \in Attempts THEN t ELSE None, "timed_out")
    BY <1>1, <1>6, ForgetMoves DEF FinishStale, CleanedUp, RequestLabels, TimerLabels
  <2>2. attempt = t => pc[t] \notin {"armed", "finish"}
    BY <1>1, <1>6, TaskAssumption DEF FinishStale, CleanedUp, Inv, Labels, Fits, Types
  <2>. QED BY <1>1, <1>6, <2>1, <2>2, MoveStep
           DEF FinishStale, CleanedUp, Goto, authVars, Finishing, Inv, ConfirmationHasSession
<1>. QED BY <1>2, <1>3, <1>4, <1>5, <1>6 DEF FinishStep

LEMMA ExpireStep ==
  ASSUME Inv, Types', NEW a \in Attempts, Expire(a)
  PROVE  Inv'
<1>1. a \in Tasks /\ a \notin Requests /\ a # Owner
  BY TaskAssumption DEF Tasks
<1>2. Fits(a, "finish", mine[a], want[a])
  BY <1>1 DEF Inv, Labels, Fits, TimerLabels
<1>3. Moves(a, "finish", mine[a], want[a])
  BY <1>1, <1>2, GotoMoves DEF Expire, taskVars
<1>. QED BY <1>1, <1>3, MoveStep
         DEF Expire, Goto, authVars, Finishing, Inv, ConfirmationHasSession

-----------------------------------------------------------------------------
(* disconnect, by the confirmation page or by the owner.                       *)

LEMMA DisconnectKeeps ==
  ASSUME Inv, Types', NEW t \in Requests \union {Owner}, Disconnect(t),
         NEW w, want' = [want EXCEPT ![t] = w],
         IF t = Owner THEN w \in {"finally", "closing"} ELSE w = want[t]
  PROVE  Inv'
<1>1. t \in Tasks /\ t \notin Attempts /\ (t # Owner => t \in Requests)
  BY TaskAssumption DEF Tasks
<1> DEFINE label == IF persistent THEN "deleting"
                    ELSE IF attempt = None /\ session = None THEN After(t)
                    ELSE "revoking"
<1>2. label \in {"deleting", "revoking"} \union
                (IF t = Owner THEN {"finally", "closing"} ELSE {"idle"})
  BY <1>1, TaskAssumption DEF After, Inv, Labels, Fits
<1>3. CancelTimeout(t, label) /\ mine' = [mine EXCEPT ![t] = attempt]
  BY DEF Disconnect, ReleaseAll
<1> HIDE DEF label
<1>4. w \in Wants /\ Fits(t, label, attempt, w)
  BY <1>1, <1>2, TaskAssumption DEF Fits, RequestLabels, OwnerLabels, Wants, Inv, Labels
<1>5. Goes(t, label, attempt, w)
  BY <1>1, <1>3, <1>4, CancelGoes
<1>6. /\ Unlocked /\ persistent' = persistent /\ attempt' = None /\ session' = None
      /\ state' = "disconnected"
  BY DEF Disconnect
<1>7. session' \notin cancelled'
  BY <1>6, TaskAssumption DEF Types
<1>. QED BY <1>1, <1>2, <1>5, <1>6, <1>7, ReleaseStep DEF Finishing

LEMMA DisconnectSteps ==
  ASSUME Inv, Types', NEW t \in Requests \union {Owner}, DisconnectStep(t)
  PROVE  Inv'
<1>1. t \in Tasks /\ t \notin Attempts /\ (t # Owner => t \in Requests)
  BY TaskAssumption DEF Tasks
<1>2. /\ t = Owner => After(t) \in {"finally", "closing"}
      /\ t # Owner => After(t) = "idle"
  BY <1>1 DEF After, Inv, Labels, Fits
<1>3. ASSUME NEW deletes \in BOOLEAN, Deleted(t, deletes) PROVE Inv'
  <2> DEFINE label == IF mine[t] = None /\ gone[t] = None THEN After(t) ELSE "revoking"
             a     == mine[t]
  <2>1. /\ pc[t] = "deleting" /\ attempt = None /\ session = None
        /\ Goto(t, label)
        /\ UNCHANGED <<persistent, session, attempt, want>>
        /\ state' \in {state, "error"}
        /\ ReleaseAll(t, mine[t], gone[t])
    BY <1>1, <1>3 DEF Deleted, Inv, LockInv
  <2>2. mine' = [mine EXCEPT ![t] = a]
    <3>1. CASE mine[t] = None /\ gone[t] = None
      <4>1. mine' = [mine EXCEPT ![t] = None]
        BY <2>1, <3>1 DEF ReleaseAll
      <4>. QED BY <3>1, <4>1
    <3>2. CASE ~(mine[t] = None /\ gone[t] = None)
      BY <2>1, <3>2 DEF ReleaseAll
    <3>. QED BY <3>1, <3>2
  <2>3. label \in {"revoking"} \union (IF t = Owner THEN {"finally", "closing"} ELSE {"idle"})
    <3>1. label \in {"revoking", After(t)}
      OBVIOUS
    <3>. QED BY <3>1, <1>2
  <2> HIDE DEF label
  <2>7. Fits(t, "deleting", a, want[t])
    BY <1>1, <2>1 DEF Fits, Inv, Labels
  <2>8. label \in {"revoking", "finally", "closing", "idle"} /\ Fits(t, label, a, want[t])
    BY <1>1, <2>3, <2>7, TaskAssumption DEF Fits, RequestLabels, OwnerLabels
  <2> HIDE DEF a
  <2>4. Goes(t, label, a, want[t])
    BY <1>1, <2>1, <2>8, <2>2, Same, WithMoves DEF Moves
  <2>5. session' \notin cancelled'
    BY <2>1, TaskAssumption DEF Types
  <2>6. state' = "awaiting_disconnect" => session' # None
    BY <2>1 DEF Inv, ConfirmationHasSession
  <2>. QED BY <1>1, <2>1, <2>8, <2>4, <2>5, <2>6, ReleaseStep DEF Finishing, Inside
<1>4. CASE Revoked(t) \/ RevocationFails(t)
  <2>1. Goto(t, After(t)) /\ Forget(t) /\ pc[t] = "revoking"
        /\ UNCHANGED <<persistent, state, session, store, attempt, cancelled>>
    BY <1>4 DEF Revoked, RevocationFails, authVars
  <2>2. Moves(t, After(t), IF t \in Attempts THEN t ELSE None,
              IF t = Owner THEN "finally" ELSE "timed_out")
    <3>1. CASE t = Owner
      BY <1>1, <1>2, <2>1, <3>1, ForgetMoves, TaskAssumption DEF OwnerLabels
    <3>2. CASE t # Owner
      BY <1>1, <1>2, <2>1, <3>2, ForgetMoves, TaskAssumption DEF RequestLabels
    <3>. QED BY <3>1, <3>2
  <2>. QED BY <1>1, <1>2, <2>1, <2>2, MoveStep, TaskAssumption
           DEF Finishing, Inv, ConfirmationHasSession, Types
<1>. QED BY <1>3, <1>4 DEF DisconnectStep

-----------------------------------------------------------------------------
(* The owner.                                                                  *)

\* The owner goes on to another of its labels.
LEMMA OwnerMoves ==
  ASSUME Inv, Types', NEW label \in OwnerLabels \ {"deleting"}, Goto(Owner, label),
         NEW a, mine' = [mine EXCEPT ![Owner] = a],
         NEW w \in {"finally", "closing"}, want' = [want EXCEPT ![Owner] = w],
         UNCHANGED <<persistent, store, attempt, cancelled>>,
         session' \in {session, None},
         state' = "scanning" => state = "scanning",
         state' = "awaiting_disconnect" => session' # None
  PROVE  Inv'
<1>1. /\ Owner \in Tasks /\ Owner \notin Attempts \union Requests
      /\ attempt # Owner /\ pc[Owner] # "starting"
  BY TaskAssumption DEF Tasks, Inv, Types, Labels, Fits, OwnerLabels
<1>2. Fits(Owner, label, a, w) /\ w \in Wants
  BY <1>1 DEF Fits, OwnerLabels, Wants
<1>3. Moves(Owner, label, a, w)
  BY <1>1, <1>2, WithMoves
<1>. QED BY <1>1, <1>3, MoveStep DEF OwnerLabels, Finishing

LEMMA OwnerSame ==
  ASSUME Inv
  PROVE  /\ UNCHANGED mine => mine' = [mine EXCEPT ![Owner] = mine[Owner]]
         /\ UNCHANGED want => want' = [want EXCEPT ![Owner] = want[Owner]]
         /\ want[Owner] \in {"finally", "closing"}
         /\ Forget(Owner) => /\ mine' = [mine EXCEPT ![Owner] = None]
                             /\ want' = [want EXCEPT ![Owner] = "finally"]
         /\ state = "awaiting_disconnect" => session # None
BY TaskAssumption DEF Inv, Types, Labels, Fits, Tasks, Forget, ConfirmationHasSession

LEMMA LockedSectionStep ==
  ASSUME Inv, Types', NEW mode \in Modes, LockedSection(mode)
  PROVE  Inv'
<1>1. PICK label \in OwnerLabels \ {"deleting"} :
        /\ Goto(Owner, label)
        /\ UNCHANGED <<persistent, session, store, attempt, cancelled, mine, want>>
        /\ state' = "scanning" => state = "scanning"
        /\ state' = "awaiting_disconnect" => session # None \/ state' = state
  BY DEF LockedSection, OpenBrowser, AlreadyConnected, ListenerFails, OpenDisconnectBrowser,
         NothingToDisconnect, CommandDone, OwnerLabels, authVars, taskVars
<1>. QED BY <1>1, OwnerMoves, OwnerSame

LEMMA CloseStep ==
  ASSUME Inv, Types', Close, Unlocked,
         NEW w \in {"finally", "closing"}, want' = [want EXCEPT ![Owner] = w]
  PROVE  Inv'
<1>1. Owner \in Tasks /\ Owner \notin Attempts \union Requests
  BY TaskAssumption DEF Tasks
<1>2. PICK label \in {"closed", "draining", "exited"} : CancelTimeout(Owner, label)
  BY DEF Close, Drained
<1>3. Fits(Owner, label, mine[Owner], w) /\ w \in Wants
  BY <1>1 DEF Fits, OwnerLabels, Wants
<1>4. Goes(Owner, label, mine[Owner], w)
  BY <1>1, <1>2, <1>3, OwnerSame, CancelGoes DEF Close
<1>5. /\ attempt' = None /\ UNCHANGED <<persistent, state, session, store>>
      /\ session \notin cancelled'
  BY TaskAssumption DEF Close, CancelClient, Inv, AttemptInv, Types, CancelledNeverConnects
<1>. QED BY <1>1, <1>2, <1>4, <1>5, ReleaseStep
         DEF Finishing, Inv, ConfirmationHasSession, StoreHoldsSession

LEMMA OwnerStartsStep ==
  ASSUME Inv, Types', OwnerStarts
  PROVE  Inv'
<1>1. ASSUME NEW mode \in Modes, Open(mode) PROVE Inv'
  BY <1>1, LockedSectionStep DEF Open
<1>2. ASSUME NEW mode \in Modes, OpenWaits(mode) PROVE Inv'
  BY <1>2, OwnerMoves, OwnerSame DEF OpenWaits, Modes, OwnerLabels, authVars, taskVars
<1>3. CASE Read
  BY <1>3, OwnerMoves, OwnerSame DEF Read, OwnerLabels, authVars
<1>4. CASE Leave
  <2>1. CASE session # None
    BY <1>4, <2>1, DisconnectKeeps DEF Leave
  <2>2. CASE session = None
    BY <1>4, <2>2, OwnerMoves, OwnerSame DEF Leave, OwnerLabels, authVars
  <2>. QED BY <2>1, <2>2
<1>. QED BY <1>1, <1>2, <1>3, <1>4 DEF OwnerStarts

LEMMA OwnerGoesOnStep ==
  ASSUME Inv, Types', OwnerGoesOn
  PROVE  Inv'
<1>1. CASE OpenWaited
  BY <1>1, LockedSectionStep DEF OpenWaited
<1>2. CASE Opened
  BY <1>2, OwnerMoves, OwnerSame DEF Opened, CommandDone, OwnerLabels, authVars, taskVars
<1>3. CASE NotOpened
  BY <1>3, OwnerMoves, OwnerSame DEF NotOpened, OwnerLabels, taskVars
<1>4. CASE ReadDone \/ InvalidateSession
  BY <1>4, OwnerMoves, OwnerSame DEF ReadDone, InvalidateSession, OwnerLabels, authVars
<1>5. CASE Watch \/ Exit \/ CloseListener
  BY <1>5, OwnerMoves, OwnerSame
     DEF Watch, Exit, CloseListener, Drained, OwnerLabels, authVars, taskVars
<1>6. CASE Finally
  <2>1. CASE session # None /\ Disconnect(Owner)
    BY <1>6, <2>1, DisconnectKeeps DEF Finally
  <2>2. CASE session = None /\ Unlocked /\ Close
    BY <1>6, <2>2, CloseStep DEF Finally
  <2>3. CASE /\ session = None /\ ~Unlocked
             /\ Goto(Owner, "closing")
             /\ UNCHANGED <<authVars, timeoutTask, listenerVars, mine, gone, cancelled, reported>>
    BY <1>6, <2>3, OwnerMoves, OwnerSame DEF Finally, OwnerLabels, authVars
  <2>. QED BY <1>6, <2>1, <2>2, <2>3 DEF Finally
<1>7. CASE WaitedToClose
  BY <1>7, CloseStep, OwnerSame DEF WaitedToClose
<1>. QED BY <1>1, <1>2, <1>3, <1>4, <1>5, <1>6, <1>7 DEF OwnerGoesOn

-----------------------------------------------------------------------------
(* The invariant, and what follows from it.                                    *)

LEMMA InvIsInductive == Inv /\ [Next]_vars => Inv'
<1> SUFFICES ASSUME Inv, [Next]_vars PROVE Inv'
  OBVIOUS
<1>1. Types'
  BY TypeStep
<1>2. ASSUME NEW r \in Requests, RequestStep(r) PROVE Inv'
  <2>1. CASE ConfirmDisconnect(r)
    BY <1>1, <2>1, DisconnectKeeps, Same, TaskAssumption DEF ConfirmDisconnect, Tasks
  <2>. QED BY <1>1, <1>2, <2>1, ApproveStep, StartFailsStep, StartSucceedsStep,
              StartAbandonedStep, PollStep, CancelStep, KeepStep DEF RequestStep
<1>3. CASE Page \/ StopListenerLater \/ UNCHANGED vars
  BY <1>1, <1>3, StillStep
     DEF Page, StopListenerLater, vars, authVars, taskVars, Inv, ConfirmationHasSession
<1>. QED BY <1>1, <1>2, <1>3, ExpireStep, FinishSteps, DisconnectSteps, OwnerStartsStep,
            OwnerGoesOnStep DEF Next

\* A BankID order that is current is being started or has its timer, however many
\* requests of however many pages race with the commands (approve, poll, cancel,
\* _expire_attempt, open_browser, disconnect and aclose of browser.py).
THEOREM EveryAttemptTimed == Spec => []AttemptIsTimed
<1>1. Inv => AttemptIsTimed
  BY DEF Inv, AttemptInv, AttemptIsTimed
<1>. QED BY <1>1, InitInv, InvIsInductive, PTL DEF Spec

\* No attempt that was cancelled, expired or superseded ever becomes the session
\* (_finish_attempt compares the attempt under the lock).
THEOREM NeverRevived == Spec => []CancelledNeverConnects
<1>1. Inv => CancelledNeverConnects
  BY DEF Inv
<1>. QED BY <1>1, InitInv, InvIsInductive, PTL DEF Spec

\* The confirmation page is shown only over a session that can be given up.
THEOREM ConfirmsSession == Spec => []ConfirmationHasSession
<1>1. Inv => ConfirmationHasSession
  BY DEF Inv
<1>. QED BY <1>1, InitInv, InvIsInductive, PTL DEF Spec

\* What the UI worker has for its session is what the OS store holds, at every
\* step of a save, a failed save, a deletion and a failed deletion.
THEOREM SessionIsStored == Spec => []StoreHoldsSession
<1>1. Inv => StoreHoldsSession
  BY DEF Inv
<1>. QED BY <1>1, InitInv, InvIsInductive, PTL DEF Spec
==============================================================================
