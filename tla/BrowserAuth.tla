----------------------------- MODULE BrowserAuth -----------------------------
(***************************************************************************)
(* The local BankID page: class BrowserAuth (src/avanza_mcp/auth/          *)
(* browser.py) inside the process that owns it (auth/worker.py).           *)
(*                                                                         *)
(* One event loop runs the HTTP requests of the page, one 120 s timer per  *)
(* BankID attempt, the two-second "stop the listener" task and the owner,  *)
(* which is _run_daemon when persistent is FALSE and _run_ui when it is    *)
(* TRUE.  A step is the code between two awaits.  A section that runs      *)
(* under self._lock without awaiting anything is one step; a section that  *)
(* awaits inside the lock is several, and Unlocked keeps the others out.   *)
(*                                                                         *)
(* A BankID attempt is an element of Attempts, and so is the session it    *)
(* leads to and the timer task that watches it.  BankIDClient is reduced   *)
(* to whether it has been given up: cancelled, or closed after a failed    *)
(* start.                                                                  *)
(***************************************************************************)
EXTENDS Naturals, FiniteSets

CONSTANTS
  Attempts,    \* BankID attempts, in no order
  Requests,    \* HTTP requests of the page that may be in flight together
  Owner,       \* the command loop
  Saved,       \* the session found in the credential store at start
  None         \* Python's None

ASSUME TaskAssumption ==
  /\ Requests \intersect Attempts = {}
  /\ Owner \notin Requests \union Attempts
  /\ Saved \notin Attempts
  /\ None \notin Attempts \union Requests \union {Owner, Saved}

Tasks    == Requests \union Attempts \union {Owner}
Sessions == Attempts \union {Saved}

AuthState == {"disconnected", "awaiting_approval", "awaiting_disconnect",
              "starting", "scanning", "connected", "denied", "timed_out",
              "error"}
\* _TERMINAL_STATES of worker.py.
TerminalStates == {"connected", "disconnected", "denied", "timed_out", "error"}
Failures       == {"denied", "timed_out", "error"}
\* self._error_code; "attempt" stands for every code _diagnostic_code and
\* "qr_render" can give.
ErrorCodes == {"none", "attempt", "browser_open", "credential_store",
               "revocation_unconfirmed", "avanza_auth_expired"}
Modes == {"connect", "disconnect"}

VARIABLES
  persistent,           \* self._store is not None; fixed when the worker starts
  state, errorCode,     \* self._state, self._error_code
  session, store,       \* self._session, the OS credential store
  attempt,              \* self._attempt
  timeoutTask,          \* self._timeout_task: the attempt it watches
  listener,             \* self._server is not None
  pages,                \* kinds of page a browser loaded from this listener
  stopPending,          \* self._stop_task sleeps its two seconds
  pc,                   \* pc[t]: the await task t is suspended at
  mine,                 \* mine[t]: the local variable "attempt" of task t
  want,                 \* want[t]: the state task t passes to _finish_attempt
  gone,                 \* gone[t]: the session disconnect() has to log out
  cancelled,            \* attempts given up: cancelled, or closed unstarted
  reported              \* last status the owner emitted in _run_ui

authVars     == <<persistent, state, errorCode, session, store, attempt>>
listenerVars == <<listener, pages, stopPending>>
taskVars     == <<mine, want, gone>>
vars == <<authVars, timeoutTask, listenerVars, pc, taskVars, cancelled,
          reported>>

-----------------------------------------------------------------------------
\* A task is suspended inside "async with self._lock".
Unlocked == \A t \in Tasks : pc[t] \notin {"saving", "deleting", "abandoning"}

Running == pc[Owner] # "exited"

Goto(t, label) == pc' = [pc EXCEPT ![t] = label]

\* A task lets go of its local variables; a timer is bound to its attempt.
Forget(t) ==
  /\ mine' = [mine EXCEPT ![t] = IF t \in Attempts THEN t ELSE None]
  /\ want' = [want EXCEPT ![t] = IF t = Owner THEN "finally" ELSE "timed_out"]

\* _schedule_listener_stop.
ScheduleStop ==
  /\ stopPending' = (stopPending \/ listener)
  /\ UNCHANGED <<listener, pages>>

\* _stop_listener, up to the wait for the server task.
StopListener ==
  /\ listener' = FALSE
  /\ pages' = {}

\* _cancel_timeout, seen from task t, which goes on at label.
CancelTimeout(t, label) ==
  /\ timeoutTask' = None
  /\ pc' = [u \in Tasks |->
              IF u = t THEN label
              ELSE IF u = timeoutTask THEN "idle" ELSE pc[u]]

PageMode == IF state = "awaiting_disconnect" THEN "disconnect" ELSE "connect"

\* attempt.cancel() raises the flag before it awaits anything.
CancelClient(a) == cancelled' = cancelled \union ({a} \intersect Attempts)

-----------------------------------------------------------------------------
(* Page requests.  A POST needs the CSRF token of a page this listener     *)
(* served, and each kind of page posts to its own two routes.              *)

Serves(r, mode) ==
  /\ Running /\ listener /\ mode \in pages
  /\ r \in Requests /\ pc[r] = "idle"

\* GET of the page: the mode is fixed by the state at that moment.
Page ==
  /\ Running /\ listener /\ pages # {}
  /\ pages' = pages \union {PageMode}
  /\ UNCHANGED <<authVars, timeoutTask, listener, stopPending, pc, taskVars,
                 cancelled, reported>>

\* client_factory() returns a new object: an attempt nothing refers to.
Fresh(a) ==
  /\ a \notin cancelled \union {attempt, session, store}
  /\ \A t \in Tasks : pc[t] # "idle" => a \notin {mine[t], gone[t]}

\* approve, up to attempt.start().
Approve(r, a) ==
  /\ Serves(r, "connect") /\ Unlocked
  /\ state = "awaiting_approval"
  /\ Fresh(a)
  /\ attempt' = a
  /\ state' = "starting"
  /\ errorCode' = "none"
  /\ mine' = [mine EXCEPT ![r] = a]
  /\ Goto(r, "starting")
  /\ UNCHANGED <<persistent, session, store, timeoutTask, listenerVars, want,
                 gone, cancelled, reported>>

\* attempt.start() or the QR renderer raises.
StartFails(r) ==
  /\ Running /\ Unlocked /\ pc[r] = "starting"
  /\ IF attempt = mine[r]
     THEN /\ attempt' = None
          /\ state' \in Failures
          /\ errorCode' = "attempt"
     ELSE UNCHANGED <<attempt, state, errorCode>>
  /\ CancelClient(mine[r])
  /\ ScheduleStop
  /\ Goto(r, "idle")
  /\ Forget(r)
  /\ UNCHANGED <<persistent, session, store, timeoutTask, gone, reported>>
\* Variant: the expiry timer is not started.
StartSucceedsUntimed(r) ==
  /\ Running /\ Unlocked /\ pc[r] = "starting"
  /\ mine[r] \notin cancelled
  /\ attempt = mine[r]
  /\ state' = "scanning"
  /\ Goto(r, "idle")
  /\ Forget(r)
  /\ UNCHANGED <<persistent, errorCode, session, store, attempt, timeoutTask,
                 listenerVars, gone, cancelled, reported>>

\* attempt.start() succeeds for the attempt that is still current.
StartSucceeds(r) ==
  /\ Running /\ Unlocked /\ pc[r] = "starting"
  /\ mine[r] \notin cancelled
  /\ attempt = mine[r]
  /\ state' = "scanning"
  /\ timeoutTask' = mine[r]
  /\ pc' = [pc EXCEPT ![r] = "idle", ![mine[r]] = "armed"]
  /\ Forget(r)
  /\ UNCHANGED <<persistent, errorCode, session, store, attempt, listenerVars,
                 gone, cancelled, reported>>

\* attempt.start() succeeds for a superseded attempt: it is cancelled while
\* the lock is held.
StartAbandoned(r) ==
  /\ Running /\ Unlocked /\ pc[r] = "starting"
  /\ attempt # mine[r]
  /\ CancelClient(mine[r])
  /\ Goto(r, "abandoning")
  /\ UNCHANGED <<authVars, timeoutTask, listenerVars, taskVars, reported>>

Abandoned(r) ==
  /\ Running /\ pc[r] = "abandoning"
  /\ Goto(r, "idle")
  /\ Forget(r)
  /\ UNCHANGED <<authVars, timeoutTask, listenerVars, gone, cancelled,
                 reported>>

\* poll, up to attempt.restart() and attempt.collect().
Poll(r) ==
  /\ Serves(r, "connect") \/ Serves(r, "disconnect")
  /\ Unlocked
  /\ state = "scanning" /\ attempt # None
  /\ mine' = [mine EXCEPT ![r] = attempt]
  /\ Goto(r, "polling")
  /\ UNCHANGED <<authVars, timeoutTask, listenerVars, want, gone, cancelled,
                 reported>>

PollPending(r) ==
  /\ Running /\ pc[r] = "polling"
  /\ mine[r] \notin cancelled
  /\ Goto(r, "idle")
  /\ Forget(r)
  /\ UNCHANGED <<authVars, timeoutTask, listenerVars, gone, cancelled,
                 reported>>

\* collect() answers: "connected" stands for COMPLETE.
PollAnswers(r, s) ==
  /\ Running /\ pc[r] = "polling"
  /\ mine[r] \notin cancelled
  /\ want' = [want EXCEPT ![r] = s]
  /\ Goto(r, "finish")
  /\ UNCHANGED <<authVars, timeoutTask, listenerVars, mine, gone, cancelled,
                 reported>>

\* restart(), collect() or the renderer raises; the code is written without
\* the lock.
PollRaises(r, s) ==
  /\ Running /\ pc[r] = "polling"
  /\ errorCode' = "attempt"
  /\ want' = [want EXCEPT ![r] = s]
  /\ Goto(r, "finish")
  /\ UNCHANGED <<persistent, state, session, store, attempt, timeoutTask,
                 listenerVars, mine, gone, cancelled, reported>>

\* cancel.
Cancel(r) ==
  /\ Serves(r, "connect") /\ Unlocked
  /\ attempt' = None
  /\ state' = "disconnected"
  /\ errorCode' = "none"
  /\ CancelClient(attempt)
  /\ CancelTimeout(r, IF attempt = None THEN "idle" ELSE "cleanup")
  /\ mine' = [mine EXCEPT ![r] = attempt]
  /\ IF attempt = None THEN ScheduleStop ELSE UNCHANGED listenerVars
  /\ UNCHANGED <<persistent, session, store, want, gone, reported>>

\* keep_connected.
Keep(r) ==
  /\ Serves(r, "disconnect") /\ Unlocked
  /\ IF session # None
     THEN state' = "connected" /\ errorCode' = "none"
     ELSE UNCHANGED <<state, errorCode>>
  /\ ScheduleStop
  /\ UNCHANGED <<persistent, session, store, attempt, timeoutTask, pc,
                 taskVars, cancelled, reported>>

-----------------------------------------------------------------------------
(* _finish_attempt, run by a poll or by the timer of the attempt.          *)
\* Variant: the timer only looks at a page that is still scanning.
ExpireScanning(a) ==
  /\ Running /\ pc[a] = "armed"
  /\ Goto(a, IF state = "scanning" THEN "finish" ELSE "idle")
  /\ UNCHANGED <<authVars, timeoutTask, listenerVars, taskVars, cancelled,
                 reported>>

\* _expire_attempt wakes after attempt_timeout.
Expire(a) ==
  /\ Running /\ pc[a] = "armed"
  /\ Goto(a, "finish")
  /\ UNCHANGED <<authVars, timeoutTask, listenerVars, taskVars, cancelled,
                 reported>>

FinishStale(t) ==
  /\ Running /\ Unlocked /\ pc[t] = "finish"
  /\ attempt # mine[t]
  /\ Goto(t, "idle")
  /\ Forget(t)
  /\ UNCHANGED <<authVars, timeoutTask, listenerVars, gone, cancelled,
                 reported>>

\* The rest of the locked section.  A failed attempt goes on to
\* attempt.cancel(), a connected one is done.
Settle(t, s) ==
  /\ attempt' = None
  /\ state' = s
  /\ session' = IF s = "connected" THEN mine[t] ELSE None
  /\ IF s = "connected"
     THEN /\ CancelTimeout(t, "idle")
          /\ Forget(t)
          /\ ScheduleStop
          /\ UNCHANGED cancelled
     ELSE /\ CancelTimeout(t, "cleanup")
          /\ CancelClient(mine[t])
          /\ UNCHANGED <<mine, want, listenerVars>>
\* Variant: the attempt is not compared under the lock.
FinishAttemptUnchecked(t) ==
  /\ Running /\ Unlocked /\ pc[t] = "finish"
  /\ ~(want[t] = "connected" /\ persistent)
  /\ Settle(t, want[t])
  /\ errorCode' = IF want[t] = "error" THEN errorCode ELSE "none"
  /\ UNCHANGED <<persistent, store, gone, reported>>

\* Variant: the session is installed without saving it.
FinishAttemptUnsaved(t) ==
  /\ Running /\ Unlocked /\ pc[t] = "finish"
  /\ attempt = mine[t]
  /\ Settle(t, want[t])
  /\ errorCode' = IF want[t] = "error" THEN errorCode ELSE "none"
  /\ UNCHANGED <<persistent, store, gone, reported>>

FinishAttempt(t) ==
  /\ Running /\ Unlocked /\ pc[t] = "finish"
  /\ attempt = mine[t]
  /\ ~(want[t] = "connected" /\ persistent)
  /\ Settle(t, want[t])
  /\ errorCode' = IF want[t] = "error" THEN errorCode ELSE "none"
  /\ UNCHANGED <<persistent, store, gone, reported>>

\* With a store the session is saved before it is installed, inside the lock.
SaveSession(t) ==
  /\ Running /\ Unlocked /\ pc[t] = "finish"
  /\ attempt = mine[t]
  /\ want[t] = "connected" /\ persistent
  /\ Goto(t, "saving")
  /\ UNCHANGED <<authVars, timeoutTask, listenerVars, taskVars, cancelled,
                 reported>>

SessionSaved(t) ==
  /\ Running /\ pc[t] = "saving"
  /\ store' = mine[t]
  /\ errorCode' = "none"
  /\ Settle(t, "connected")
  /\ UNCHANGED <<persistent, gone, reported>>

\* save raises: the session that could not be stored is logged out.
SaveFails(t) ==
  /\ Running /\ pc[t] = "saving"
  /\ errorCode' = "credential_store"
  /\ Settle(t, "error")
  /\ UNCHANGED <<persistent, store, gone, reported>>

\* attempt.cancel() and attempt.aclose() are over, after _finish_attempt or
\* cancel; whatever they raised is suppressed.
CleanedUp(t) ==
  /\ Running /\ pc[t] = "cleanup"
  /\ ScheduleStop
  /\ Goto(t, "idle")
  /\ Forget(t)
  /\ UNCHANGED <<authVars, timeoutTask, gone, cancelled, reported>>

-----------------------------------------------------------------------------
(* disconnect, run by the confirmation page or by the owner.               *)

\* Where a task goes on after disconnect(): the owner to its "finally".
After(t) == IF t = Owner THEN want[Owner] ELSE "idle"

\* The part of disconnect() below the lock: cancel the attempt, log out.
ReleaseAll(t, a, s) ==
  IF a = None /\ s = None
  THEN /\ ScheduleStop
       /\ gone' = [gone EXCEPT ![t] = None]
       /\ mine' = [mine EXCEPT ![t] = None]
       /\ UNCHANGED cancelled
  ELSE /\ CancelClient(a)
       /\ gone' = [gone EXCEPT ![t] = s]
       /\ mine' = [mine EXCEPT ![t] = a]
       /\ UNCHANGED listenerVars

Disconnect(t) ==
  /\ Unlocked
  /\ attempt' = None
  /\ session' = None
  /\ state' = "disconnected"
  /\ errorCode' = "none"
  /\ CancelTimeout(t, IF persistent THEN "deleting"
                      ELSE IF attempt = None /\ session = None THEN After(t)
                      ELSE "revoking")
  /\ IF persistent
     THEN /\ gone' = [gone EXCEPT ![t] = session]
          /\ mine' = [mine EXCEPT ![t] = attempt]
          /\ UNCHANGED <<listenerVars, cancelled>>
     ELSE ReleaseAll(t, attempt, session)
  /\ UNCHANGED <<persistent, store, reported>>

ConfirmDisconnect(r) ==
  /\ Serves(r, "disconnect")
  /\ Disconnect(r)
  /\ UNCHANGED want

\* store.delete() returns or raises; the lock is released.
Deleted(t, deletes) ==
  /\ Running /\ pc[t] = "deleting"
  /\ IF deletes
     THEN store' = None /\ UNCHANGED <<state, errorCode>>
     ELSE /\ state' = "error" /\ errorCode' = "credential_store"
          /\ UNCHANGED store
  /\ ReleaseAll(t, mine[t], gone[t])
  /\ Goto(t, IF mine[t] = None /\ gone[t] = None THEN After(t) ELSE "revoking")
  /\ UNCHANGED <<persistent, session, attempt, timeoutTask, want, reported>>

Revoked(t) ==
  /\ Running /\ pc[t] = "revoking"
  /\ ScheduleStop
  /\ Goto(t, After(t))
  /\ Forget(t)
  /\ gone' = [gone EXCEPT ![t] = None]
  /\ UNCHANGED <<authVars, timeoutTask, cancelled, reported>>

\* The logout request raises.
RevocationFails(t) ==
  /\ Running /\ Unlocked /\ pc[t] = "revoking"
  /\ gone[t] # None
  /\ errorCode' = IF state = "disconnected" /\ errorCode = "none"
                  THEN "revocation_unconfirmed" ELSE errorCode
  /\ ScheduleStop
  /\ Goto(t, After(t))
  /\ Forget(t)
  /\ gone' = [gone EXCEPT ![t] = None]
  /\ UNCHANGED <<persistent, state, session, store, attempt, timeoutTask,
                 cancelled, reported>>

-----------------------------------------------------------------------------
(* The owner: one command at a time.                                       *)
\* Variant: the pair is swapped.
ReportSwapped ==
  reported' = IF persistent THEN <<errorCode, state>> ELSE reported

\* The value a command returns, which _run_ui emits.
Report == reported' = IF persistent THEN <<state, errorCode>> ELSE reported

\* _run_ui goes on to watch the status, or leaves if it is terminal already;
\* _run_daemon reads its next command.
CommandDone ==
  /\ Goto(Owner, IF ~persistent THEN "idle"
                 ELSE IF state \in TerminalStates THEN "closing"
                 ELSE "watching")
  /\ Report

\* The locked section of open_browser; the browser is opened in a thread.
OpenBrowser ==
  /\ state # "connected"
  /\ listener' = TRUE
  /\ IF ~listener \/ state \in Failures \union {"disconnected"}
     THEN state' = "awaiting_approval" /\ errorCode' = "none"
     ELSE UNCHANGED <<state, errorCode>>
  /\ Goto(Owner, "opening_connect")
  /\ UNCHANGED <<persistent, session, store, attempt, timeoutTask, pages,
                 stopPending, taskVars, cancelled, reported>>

AlreadyConnected ==
  /\ state = "connected"
  /\ CommandDone
  /\ UNCHANGED <<authVars, timeoutTask, listenerVars, taskVars, cancelled>>
\* Variant: a session is not asked for.
OpenDisconnectBrowserAlways ==
  /\ listener' = TRUE
  /\ state' = "awaiting_disconnect"
  /\ errorCode' = "none"
  /\ Goto(Owner, "opening_disconnect")
  /\ UNCHANGED <<persistent, session, store, attempt, timeoutTask, pages,
                 stopPending, taskVars, cancelled, reported>>

OpenDisconnectBrowser ==
  /\ session # None
  /\ listener' = TRUE
  /\ state' = "awaiting_disconnect"
  /\ errorCode' = "none"
  /\ Goto(Owner, "opening_disconnect")
  /\ UNCHANGED <<persistent, session, store, attempt, timeoutTask, pages,
                 stopPending, taskVars, cancelled, reported>>

\* The early return of open_disconnect_browser changes state, whatever an
\* attempt in progress is doing.
NothingToDisconnect ==
  /\ session = None
  /\ state' = "disconnected"
  /\ errorCode' = "none"
  /\ Goto(Owner, IF persistent THEN "closing" ELSE "idle")
  /\ reported' = IF persistent THEN <<"disconnected", "none">> ELSE reported
  /\ UNCHANGED <<persistent, session, store, attempt, timeoutTask,
                 listenerVars, taskVars, cancelled>>

\* _start_listener raises: the command loop unwinds through its "finally".
ListenerFails ==
  /\ ~listener
  /\ Goto(Owner, IF persistent THEN "closing" ELSE "finally")
  /\ UNCHANGED <<authVars, timeoutTask, listenerVars, taskVars, cancelled,
                 reported>>

LockedSection(mode) ==
  \/ /\ mode = "connect"
     /\ \/ OpenBrowser \/ AlreadyConnected
        \/ (state # "connected" /\ ListenerFails)
  \/ /\ mode = "disconnect"
     /\ \/ OpenDisconnectBrowser \/ NothingToDisconnect
        \/ (session # None /\ ListenerFails)

\* open_browser and open_disconnect_browser begin with _cancel_scheduled_stop.
\* With no stop to cancel and a free lock nothing is awaited before the
\* locked section.
Open(mode) ==
  /\ pc[Owner] = "idle" /\ ~stopPending /\ Unlocked
  /\ LockedSection(mode)

OpenWaits(mode) ==
  /\ pc[Owner] = "idle" /\ (stopPending \/ ~Unlocked)
  /\ stopPending' = FALSE
  /\ Goto(Owner, mode)
  /\ UNCHANGED <<authVars, timeoutTask, listener, pages, taskVars, cancelled,
                 reported>>

OpenWaited ==
  /\ pc[Owner] \in Modes /\ Unlocked
  /\ LockedSection(pc[Owner])

\* browser_opener returned True: the page has been loaded.
Opened ==
  /\ pc[Owner] \in {"opening_connect", "opening_disconnect"}
  /\ pages' = IF listener THEN pages \union {PageMode} ELSE pages
  /\ CommandDone
  /\ UNCHANGED <<authVars, timeoutTask, listener, stopPending, taskVars,
                 cancelled>>

\* browser_opener returned False.
NotOpened ==
  /\ pc[Owner] \in {"opening_connect", "opening_disconnect"} /\ Unlocked
  /\ state' = IF pc[Owner] = "opening_connect" THEN "error" ELSE "connected"
  /\ errorCode' = "browser_open"
  /\ StopListener
  /\ Goto(Owner, IF persistent THEN "closing" ELSE "idle")
  /\ reported' = IF persistent THEN <<state', errorCode'>> ELSE reported
  /\ UNCHANGED <<persistent, session, store, attempt, timeoutTask, stopPending,
                 taskVars, cancelled>>

\* An authenticated read of _run_daemon begins with the session of the moment.
Read ==
  /\ ~persistent /\ pc[Owner] = "idle"
  /\ session # None
  /\ mine' = [mine EXCEPT ![Owner] = session]
  /\ Goto(Owner, "reading")
  /\ UNCHANGED <<authVars, timeoutTask, listenerVars, want, gone, cancelled,
                 reported>>

ReadDone ==
  /\ pc[Owner] = "reading"
  /\ Forget(Owner)
  /\ Goto(Owner, "idle")
  /\ UNCHANGED <<authVars, timeoutTask, listenerVars, gone, cancelled,
                 reported>>

\* Avanza answered 401, invalidate_session; there is no store to clear.
InvalidateSession ==
  /\ pc[Owner] = "reading" /\ Unlocked
  /\ session' = None
  /\ state' = "disconnected"
  /\ errorCode' = "avanza_auth_expired"
  /\ Forget(Owner)
  /\ Goto(Owner, "idle")
  /\ UNCHANGED <<persistent, store, attempt, timeoutTask, listenerVars, gone,
                 cancelled, reported>>

\* The loop of _run_ui sees a terminal state; it reads it without the lock.
Watch ==
  /\ pc[Owner] = "watching"
  /\ state \in TerminalStates
  /\ Report
  /\ Goto(Owner, "closing")
  /\ UNCHANGED <<authVars, timeoutTask, listenerVars, taskVars, cancelled>>

\* _run_daemon returns: shutdown, end of input, an expired session, a dead
\* parent, or a one_shot account read.  Each path disconnects first, and so
\* does "finally"; want[Owner] is where the owner goes on.
Leave ==
  /\ ~persistent /\ pc[Owner] = "idle"
  /\ want' = [want EXCEPT ![Owner] = "finally"]
  /\ IF session # None THEN Disconnect(Owner)
     ELSE /\ Goto(Owner, "finally")
          /\ UNCHANGED <<authVars, timeoutTask, listenerVars, mine, gone,
                         cancelled, reported>>

\* The end of aclose: the server task ends when its requests are answered.
DropListener ==
  /\ stopPending' = FALSE
  /\ StopListener

\* Where the owner stands when it has told the server to exit.
Drained == IF listener THEN "draining" ELSE "exited"

\* aclose, up to attempt.cancel() or the wait for the stop task; with neither
\* to await it goes straight on.
Close ==
  /\ attempt' = None
  /\ CancelClient(attempt)
  /\ IF attempt # None \/ stopPending
     THEN CancelTimeout(Owner, "closed") /\ UNCHANGED listenerVars
     ELSE CancelTimeout(Owner, Drained) /\ DropListener
  /\ UNCHANGED <<persistent, state, errorCode, session, store, mine, gone,
                 reported>>

\* Nothing is awaited between the test of the session and a free lock.
Finally ==
  /\ pc[Owner] = "finally"
  /\ want' = [want EXCEPT ![Owner] = "closing"]
  /\ \/ session # None /\ Disconnect(Owner)
     \/ session = None /\ Unlocked /\ Close
     \/ /\ session = None /\ ~Unlocked
        /\ Goto(Owner, "closing")
        /\ UNCHANGED <<authVars, timeoutTask, listenerVars, mine, gone,
                       cancelled, reported>>

WaitedToClose ==
  /\ pc[Owner] = "closing" /\ Unlocked
  /\ Close
  /\ UNCHANGED want

CloseListener ==
  /\ pc[Owner] = "closed"
  /\ DropListener
  /\ Goto(Owner, Drained)
  /\ UNCHANGED <<authVars, timeoutTask, taskVars, cancelled, reported>>

\* The server task ends when its requests have been answered, and the process
\* with it.
Exit ==
  /\ pc[Owner] = "draining"
  /\ \A r \in Requests : pc[r] = "idle"
  /\ Goto(Owner, "exited")
  /\ UNCHANGED <<authVars, timeoutTask, listenerVars, taskVars, cancelled,
                 reported>>

-----------------------------------------------------------------------------
(* The stop task and the specification.                                    *)

\* _stop_listener_later has slept its two seconds.
StopListenerLater ==
  /\ Running /\ stopPending
  /\ stopPending' = FALSE
  /\ StopListener
  /\ UNCHANGED <<authVars, timeoutTask, pc, taskVars, cancelled, reported>>

\* _run_ui is entered after _restore_persistent, _run_daemon with nothing.
Init ==
  /\ persistent \in BOOLEAN
  /\ session \in IF persistent THEN {None, Saved} ELSE {None}
  /\ store = session
  /\ state = IF session = None THEN "disconnected" ELSE "connected"
  /\ errorCode = "none"
  /\ attempt = None /\ timeoutTask = None
  /\ listener = FALSE /\ pages = {} /\ stopPending = FALSE
  /\ pc = [t \in Tasks |-> "idle"]
  /\ mine = [t \in Tasks |-> IF t \in Attempts THEN t ELSE None]
  /\ want = [t \in Tasks |-> IF t = Owner THEN "finally" ELSE "timed_out"]
  /\ gone = [t \in Tasks |-> None]
  /\ cancelled = {}
  /\ reported = <<"none", "none">>

RequestStep(r) ==
  \/ \E a \in Attempts : Approve(r, a)
  \/ StartFails(r) \/ StartSucceeds(r) \/ StartAbandoned(r) \/ Abandoned(r)
  \/ Poll(r) \/ PollPending(r)
  \/ \E s \in {"connected", "denied", "timed_out"} : PollAnswers(r, s)
  \/ \E s \in Failures : PollRaises(r, s)
  \/ Cancel(r) \/ Keep(r) \/ ConfirmDisconnect(r)

FinishStep(t) ==
  \/ FinishStale(t) \/ FinishAttempt(t) \/ CleanedUp(t)
  \/ SaveSession(t) \/ SessionSaved(t) \/ SaveFails(t)

DisconnectStep(t) ==
  \/ \E deletes \in BOOLEAN : Deleted(t, deletes)
  \/ Revoked(t) \/ RevocationFails(t)

\* A command arrives, or a reason to leave.
OwnerStarts ==
  \/ \E mode \in Modes : Open(mode) \/ OpenWaits(mode)
  \/ Read \/ Leave

OwnerGoesOn ==
  \/ OpenWaited \/ Opened \/ NotOpened
  \/ ReadDone \/ InvalidateSession
  \/ Watch \/ Finally \/ WaitedToClose \/ CloseListener \/ Exit

Next ==
  \/ Page
  \/ \E r \in Requests : RequestStep(r)
  \/ \E a \in Attempts : Expire(a)
  \/ \E t \in Requests \union Attempts : FinishStep(t)
  \/ \E t \in Requests \union {Owner} : DisconnectStep(t)
  \/ OwnerStarts \/ OwnerGoesOn
  \/ StopListenerLater

Spec == Init /\ [][Next]_vars

\* What the event loop and the request timeouts guarantee: timers fire, every
\* upstream request ends, a free lock is granted.  Nobody has to click, and no
\* command has to arrive; a command that has begun is carried out.
Fairness ==
  /\ \A a \in Attempts : WF_vars(Expire(a))
  /\ \A t \in Requests \union Attempts : SF_vars(FinishStep(t))
  /\ \A t \in Requests \union {Owner} : SF_vars(DisconnectStep(t))
  /\ \A r \in Requests :
       /\ SF_vars(StartFails(r) \/ StartSucceeds(r) \/ StartAbandoned(r))
       /\ WF_vars(Abandoned(r))
  /\ WF_vars(StopListenerLater)
  /\ SF_vars(OwnerGoesOn)

FairSpec == Spec /\ Fairness

-----------------------------------------------------------------------------
(* Properties.                                                             *)

\* Every variable holds a value of the kind the code assigns to it.
TypeOK ==
  /\ persistent \in BOOLEAN
  /\ state \in AuthState /\ errorCode \in ErrorCodes
  /\ session \in Sessions \union {None} /\ store \in Sessions \union {None}
  /\ attempt \in Attempts \union {None}
  /\ timeoutTask \in Attempts \union {None}
  /\ listener \in BOOLEAN /\ stopPending \in BOOLEAN
  /\ pages \subseteq Modes
  /\ mine \in [Tasks -> Sessions \union {None}]
  /\ gone \in [Tasks -> Sessions \union {None}]
  /\ cancelled \subseteq Attempts
  /\ reported \in (AuthState \union {"none"}) \X ErrorCodes

\* A current attempt is watched from the moment its order exists: approve is
\* still starting it, or its 120 s timer is running.  No path of the page, of
\* the commands or of their races leaves a BankID order open for ever.
AttemptIsTimed ==
  (attempt # None /\ Running) =>
    \/ \E r \in Requests : pc[r] = "starting" /\ mine[r] = attempt
    \/ pc[attempt] \in {"armed", "finish"}

\* A late answer never revives an attempt the user cancelled, that expired or
\* that was superseded: _finish_attempt compares the attempt under the lock.
CancelledNeverConnects == session \notin cancelled

\* The page asks for a confirmation only while there is a session to give up.
ConfirmationHasSession == state = "awaiting_disconnect" => session # None

\* The session the UI worker calls connected is the one in the OS store, so
\* the next worker finds it: save comes before the installation.
StoreHoldsSession == (persistent /\ session # None) => store = session

\* Every attempt ends, also if the page is closed and nobody polls.
AttemptsEnd ==
  \A a \in Attempts : attempt = a ~> (attempt # a \/ ~Running)

\* test_reconnect_after_confirmed_disconnect_reuses_live_listener_safely:
\* reconnecting cancels the scheduled stop and reuses the listener, so while
\* the owner rests the page that waits for the user is served.
WaitingPageIsServed ==
  (pc[Owner] = "idle" /\ state \in {"awaiting_approval", "awaiting_disconnect"})
    => listener

\* "Own one process-local approval, BankID attempt, and browser listener":
\* at most one BankID order is open.
OpenAttempts ==
  {a \in Attempts \ cancelled :
     pc[a] = "armed" \/ \E r \in Requests : pc[r] = "starting" /\ mine[r] = a}
OneAttempt == Cardinality(OpenAttempts) <= 1

\* "network/other failures can still be reported as revocation_unconfirmed
\* after local credential removal": what disconnect() found out is what the
\* UI worker told the broker before it exited.
RevocationReported ==
  (~Running /\ errorCode = "revocation_unconfirmed")
    => reported = <<"disconnected", "revocation_unconfirmed">>
=============================================================================
