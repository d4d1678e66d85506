------------------------------ MODULE WorkerIpc ------------------------------
(***************************************************************************)
(* The pipe between AuthProcessBroker and its session daemon in the        *)
(* memory_only and one_shot modes (src/avanza_mcp/auth/broker.py), with    *)
(* the daemon's command loop (auth/worker.py, _run_daemon) at the other    *)
(* end.                                                                    *)
(*                                                                         *)
(* Broker methods are coroutines of one event loop: a step below is the    *)
(* code between two awaits.  Frames carry no request number, so a frame is *)
(* the answer to a command only because of the discipline modelled here:   *)
(* one call at a time behind an asyncio.Lock, and a worker that is thrown  *)
(* away whenever a frame may still be on its way.  The field "cmd" of a    *)
(* frame is a ghost that names the command it answers.                     *)
(*                                                                         *)
(* An element of Calls is one invocation of a broker method; each runs     *)
(* once, so Calls bounds the number of invocations, and Workers bounds the *)
(* number of processes spawned.                                            *)
(***************************************************************************)
EXTENDS Naturals, Sequences

CONSTANTS Calls, Workers, NoCall, NoWorker, NoFrame

ASSUME SentinelAssumption ==
  /\ NoCall \notin Calls
  /\ NoWorker \notin Workers

Locks == {"operation", "daemon"}

\* Broker methods that use the daemon, and the commands they write.  account
\* stands for order_depth_snapshot too, market_request for market_data_batch:
\* they take the same locks and the same steps.
Methods ==
  {"connect", "disconnect", "status", "health_status", "account",
   "market_request", "aclose"}

StatusActions == {"connect", "disconnect", "status", "health", "shutdown"}
ResultActions == {"account", "market"}
Actions       == StatusActions \union ResultActions

ActionOf == [connect |-> "connect", disconnect |-> "disconnect",
             status |-> "status", health_status |-> "health",
             account |-> "account", market_request |-> "market",
             aclose |-> "shutdown"]

AuthStates ==
  {"disconnected", "awaiting_approval", "connected", "awaiting_disconnect"}

Command == [call : Calls, action : Actions]
\* kind is the key the frame carries: "status" or "result" beside ok, or
\* "error" for {"ok": false, "code": ...}.
Frame == [cmd : Command, kind : {"status", "result", "error"},
          state : AuthStates]

ASSUME FrameAssumption == NoFrame \notin Frame

VARIABLES
  method,    \* method[c]: the broker method call c is running
  pc,        \* pc[c]: the await call c is suspended at
  outcome,   \* outcome[c]: how call c ended, or will end once its worker is gone
  peer,      \* peer[c]: the local variable "process" of call c
  sent,      \* sent[c]: the action of the last command call c wrote
  got,       \* got[c]: the last frame call c consumed
  holder,    \* holder[l]: the call that holds asyncio.Lock l
  waiters,   \* waiters[l]: the FIFO queue of asyncio.Lock l
  slot,      \* self._daemon
  closed,    \* self._closed
  proc,      \* proc[w]: the state of process w
  inbox,     \* inbox[w]: commands written to w and not yet answered
  outbox,    \* outbox[w]: frames emitted by w and not yet read
  auth       \* auth[w]: the state BrowserAuth.status() of w reports

callVars   == <<method, pc, outcome, peer, sent, got>>
lockVars   == <<holder, waiters>>
workerVars == <<proc, inbox, outbox, auth>>
vars == <<callVars, lockVars, slot, closed, workerVars>>

-----------------------------------------------------------------------------
(* Locks and the life of a call.                                           *)

FirstLock(m) ==
  IF m \in {"account", "market_request"} THEN "operation" ELSE "daemon"

\* The calls whose broker method checks the daemon's status before it sends
\* the command proper.
StatusFirst(c) == method[c] \in {"account", "market_request"}
\* Variant: the command is sent without asking for the status.
FirstActionUnchecked(c) == ActionOf[method[c]]

FirstAction(c) == IF StatusFirst(c) THEN "status" ELSE ActionOf[method[c]]

Enqueue(l, c) == waiters' = [waiters EXCEPT ![l] = Append(@, c)]
\* Variant: the outer lock is forgotten.
ReleasedInner(c) ==
  [l \in Locks |-> IF holder[l] = c /\ l = "daemon" THEN NoCall ELSE holder[l]]

\* An "async with" body is left: every lock the call holds is released.
Released(c) == [l \in Locks |-> IF holder[l] = c THEN NoCall ELSE holder[l]]

Finish(c, how) ==
  /\ pc' = [pc EXCEPT ![c] = "done"]
  /\ outcome' = [outcome EXCEPT ![c] = how]
  /\ holder' = Released(c)

\* _live_daemon: a process whose returncode is known is not reused.
Live(w) == w # NoWorker /\ proc[w] # "reaped"

\* _command, first half: write one line to the worker's stdin.  What is
\* written to a process that has exited is never read.
Write(c, w, a) ==
  /\ sent' = [sent EXCEPT ![c] = a]
  /\ peer' = [peer EXCEPT ![c] = w]
  /\ inbox' = IF proc[w] = "exited" THEN inbox
              ELSE [inbox EXCEPT ![w] =
                      Append(@, [call |-> c, action |-> a])]
\* Variant: the worker is dropped, not terminated.
TerminatedNever(w) == proc

\* SIGTERM / TerminateProcess: nothing in the worker handles it, but it may
\* still be inside a step when it is delivered.
Terminated(w) ==
  [proc EXCEPT ![w] = IF @ = "running" THEN "terminating" ELSE @]
\* Variant: a worker whose answer is missing stays in the slot.
RetireNothing(c, how) == Finish(c, how) /\ UNCHANGED <<slot, proc>>

\* _retire_uncertain_worker, up to the wait in _stop_process.
Retire(c, how) ==
  /\ slot' = IF slot = peer[c] THEN NoWorker ELSE slot
  /\ proc' = Terminated(peer[c])
  /\ pc' = [pc EXCEPT ![c] = "stopping"]
  /\ outcome' = [outcome EXCEPT ![c] = how]
  /\ UNCHANGED holder

-----------------------------------------------------------------------------
(* Broker steps.                                                           *)
\* Variant: without _ensure_open.
BeginUnchecked(c, m) ==
  /\ pc[c] = "idle"
  /\ method' = [method EXCEPT ![c] = m]
  /\ pc' = [pc EXCEPT ![c] = FirstLock(m)]
  /\ closed' = (closed \/ m = "aclose")
  /\ Enqueue(FirstLock(m), c)
  /\ UNCHANGED <<outcome, peer, sent, got, holder, slot, workerVars>>

\* A method is entered: _ensure_open, then the first lock is asked for.
\* market_request is the one method that does not call _ensure_open.
Begin(c, m) ==
  /\ pc[c] = "idle"
  /\ ~closed \/ m = "market_request"
  /\ method' = [method EXCEPT ![c] = m]
  /\ pc' = [pc EXCEPT ![c] = FirstLock(m)]
  /\ closed' = (closed \/ m = "aclose")
  /\ Enqueue(FirstLock(m), c)
  /\ UNCHANGED <<outcome, peer, sent, got, holder, slot, workerVars>>

BeginClosed(c, m) ==
  /\ pc[c] = "idle"
  /\ closed /\ m # "market_request"
  /\ method' = [method EXCEPT ![c] = m]
  /\ pc' = [pc EXCEPT ![c] = "done"]
  /\ outcome' = [outcome EXCEPT ![c] = "refused"]
  /\ UNCHANGED <<peer, sent, got, lockVars, slot, closed, workerVars>>

Granted(l, c) ==
  /\ pc[c] = l
  /\ holder[l] = NoCall
  /\ waiters[l] # <<>>
  /\ Head(waiters[l]) = c

\* The operation lock is granted; the call goes on to wait for the daemon lock.
TakeOperationLock(c) ==
  /\ Granted("operation", c)
  /\ holder' = [holder EXCEPT !["operation"] = c]
  /\ waiters' = [waiters EXCEPT !["operation"] = Tail(@),
                                !["daemon"] = Append(@, c)]
  /\ pc' = [pc EXCEPT ![c] = "daemon"]
  /\ UNCHANGED <<method, outcome, peer, sent, got, slot, closed, workerVars>>

DaemonLockTaken(c) ==
  /\ Granted("daemon", c)
  /\ waiters' = [waiters EXCEPT !["daemon"] = Tail(@)]
  /\ UNCHANGED <<method, got, closed, outbox, auth>>

\* There is a daemon: the first command is written to it.
EnterLive(c) ==
  /\ DaemonLockTaken(c)
  /\ Live(slot)
  /\ holder' = [holder EXCEPT !["daemon"] = c]
  /\ Write(c, slot, FirstAction(c))
  /\ pc' = [pc EXCEPT ![c] = "reply"]
  /\ UNCHANGED <<outcome, slot, proc>>

\* There is none and the method does not start one: "disconnected",
\* AuthWorkerRequired, or None for the anonymous fallback.
EnterAbsent(c) ==
  /\ DaemonLockTaken(c)
  /\ ~Live(slot)
  /\ method[c] # "connect"
  /\ slot' = NoWorker
  /\ Finish(c, IF method[c] = "aclose" THEN "closed" ELSE "refused")
  /\ UNCHANGED <<peer, sent, proc, inbox>>

\* connect: _ensure_daemon_locked awaits _spawn.
EnterSpawn(c) ==
  /\ DaemonLockTaken(c)
  /\ ~Live(slot)
  /\ method[c] = "connect"
  /\ slot' = NoWorker
  /\ holder' = [holder EXCEPT !["daemon"] = c]
  /\ pc' = [pc EXCEPT ![c] = "spawn"]
  /\ UNCHANGED <<outcome, peer, sent, proc, inbox>>

Spawned(c, w) ==
  /\ pc[c] = "spawn"
  /\ proc[w] = "unborn"
  /\ proc' = [proc EXCEPT ![w] = "running"]
  /\ slot' = w
  /\ Write(c, w, FirstAction(c))
  /\ pc' = [pc EXCEPT ![c] = "reply"]
  /\ UNCHANGED <<method, outcome, got, lockVars, closed, outbox, auth>>

SpawnFails(c) ==
  /\ pc[c] = "spawn"
  /\ Finish(c, "failed")
  /\ UNCHANGED <<method, peer, sent, got, waiters, slot, closed, workerVars>>

\* The frame _command insists on: ok frames of a status command carry
\* "status", those of a result command "result"; error frames are passed on.
Matches(f, a) ==
  \/ f.kind = "error"
  \/ f.kind = (IF a \in StatusActions THEN "status" ELSE "result")

Read(c) ==
  /\ pc[c] = "reply"
  /\ outbox[peer[c]] # <<>>
  /\ got' = [got EXCEPT ![c] = Head(outbox[peer[c]])]
  /\ outbox' = [outbox EXCEPT ![peer[c]] = Tail(@)]
  /\ UNCHANGED <<method, waiters, closed, auth>>

\* The status answered "connected": the command proper follows on the same
\* process, unless its returncode has become known meanwhile.
ReadStatusThenSend(c) ==
  /\ Read(c)
  /\ StatusFirst(c) /\ sent[c] = "status"
  /\ Matches(got'[c], sent[c])
  /\ got'[c].kind = "status" /\ got'[c].state = "connected"
  /\ IF Live(peer[c])
     THEN /\ Write(c, peer[c], ActionOf[method[c]])
          /\ UNCHANGED <<pc, outcome, holder>>
     ELSE /\ Finish(c, "failed")
          /\ UNCHANGED <<sent, peer, inbox>>
  /\ UNCHANGED <<slot, proc>>

\* Not connected, or an error frame: the call ends without the command.
ReadStatusThenRefuse(c) ==
  /\ Read(c)
  /\ StatusFirst(c) /\ sent[c] = "status"
  /\ Matches(got'[c], sent[c])
  /\ got'[c].kind = "error" \/ got'[c].state # "connected"
  /\ Finish(c, "refused")
  /\ UNCHANGED <<peer, sent, slot, proc, inbox>>

\* The answer to the method's own command is returned to its caller.
ReadAnswer(c) ==
  /\ Read(c)
  /\ sent[c] = ActionOf[method[c]] /\ method[c] # "aclose"
  /\ Matches(got'[c], sent[c])
  /\ Finish(c, "answered")
  /\ UNCHANGED <<peer, sent, slot, proc, inbox>>

\* aclose: the shutdown is acknowledged, _stop_process follows in any case.
ReadShutdown(c) ==
  /\ Read(c)
  /\ method[c] = "aclose"
  /\ Matches(got'[c], sent[c])
  /\ proc' = Terminated(peer[c])
  /\ pc' = [pc EXCEPT ![c] = "stopping"]
  /\ outcome' = [outcome EXCEPT ![c] = "closed"]
  /\ UNCHANGED <<peer, sent, slot, holder, inbox>>

\* aclose swallows the errors of _command, every other method raises them.
FailureOf(c) == IF method[c] = "aclose" THEN "closed" ELSE "failed"

ReadMismatch(c) ==
  /\ Read(c)
  /\ ~Matches(got'[c], sent[c])
  /\ Retire(c, FailureOf(c))
  /\ UNCHANGED <<peer, sent, inbox>>

\* The timeout passes, the pipe breaks, or stdout ends: no usable answer.
NoAnswer(c) ==
  /\ pc[c] = "reply"
  /\ Retire(c, FailureOf(c))
  /\ UNCHANGED <<method, peer, sent, got, waiters, closed, inbox, outbox, auth>>

\* _stop_process returns once the child has been waited for.  aclose clears
\* the slot itself afterwards.
Stopped(c) ==
  /\ pc[c] = "stopping"
  /\ proc[peer[c]] = "reaped"
  /\ slot' = IF method[c] = "aclose" THEN NoWorker ELSE slot
  /\ Finish(c, outcome[c])
  /\ UNCHANGED <<method, peer, sent, got, waiters, closed, workerVars>>

\* Cancellation of the caller's task, delivered at the await it is at.
CancelWaiting(c, l) ==
  /\ pc[c] = l
  /\ \E i \in 1 .. Len(waiters[l]) :
       /\ waiters[l][i] = c
       /\ waiters' = [waiters EXCEPT ![l] =
                        SubSeq(@, 1, i - 1) \o SubSeq(@, i + 1, Len(@))]
  /\ Finish(c, "cancelled")
  /\ UNCHANGED <<method, peer, sent, got, slot, closed, workerVars>>

\* create_subprocess_exec kills the child it was still setting up.
CancelSpawn(c) ==
  /\ pc[c] = "spawn"
  /\ Finish(c, "cancelled")
  /\ UNCHANGED <<method, peer, sent, got, waiters, slot, closed, workerVars>>
\* Variant: CancelledError is not caught around the read.
CancelReplyKeeps(c) ==
  /\ pc[c] = "reply"
  /\ Finish(c, "cancelled")
  /\ UNCHANGED <<method, peer, sent, got, waiters, slot, closed, workerVars>>

CancelReply(c) ==
  /\ pc[c] = "reply"
  /\ Retire(c, "cancelled")
  /\ UNCHANGED <<method, peer, sent, got, waiters, closed, inbox, outbox, auth>>

\* A (second) cancellation ends the wait of _stop_process: the locks are
\* released while the signalled process may still be there.
CancelStopping(c) ==
  /\ pc[c] = "stopping"
  /\ Finish(c, "cancelled")
  /\ UNCHANGED <<method, peer, sent, got, waiters, slot, closed, workerVars>>

Cancel(c) ==
  \/ \E l \in Locks : CancelWaiting(c, l)
  \/ CancelSpawn(c)
  \/ CancelReply(c)
  \/ CancelStopping(c)

-----------------------------------------------------------------------------
(* The daemon.                                                             *)

\* What a command does to the authentication state of the worker that runs
\* it: open_browser, open_disconnect_browser, a read that finds the session
\* revoked, and disconnect.  A browser that cannot be opened leaves the
\* flow where the second member of the set says.
AuthAfter(a, s) ==
  CASE a = "connect" ->
         IF s = "disconnected" THEN {"awaiting_approval", "disconnected"}
         ELSE IF s = "connected" THEN {s} ELSE {s, "disconnected"}
    [] a = "disconnect" ->
         IF s \in {"connected", "awaiting_disconnect"}
         THEN {"awaiting_disconnect", "connected"} ELSE {"disconnected"}
    [] a = "status" -> {s}
    [] a = "shutdown" -> {"disconnected"}
    [] OTHER -> {s, "disconnected"}

KindsOf(a) == IF a \in StatusActions THEN {"status"} ELSE {"result", "error"}

\* The loop takes one line, runs it to its end and emits one frame.
WorkerAnswer(w) ==
  /\ proc[w] \in {"running", "terminating"}
  /\ inbox[w] # <<>>
  /\ LET cmd == Head(inbox[w])
     IN \E s \in AuthAfter(cmd.action, auth[w]), k \in KindsOf(cmd.action) :
          /\ auth' = [auth EXCEPT ![w] = s]
          /\ outbox' = [outbox EXCEPT ![w] =
                          Append(@, [cmd |-> cmd, kind |-> k, state |-> s])]
  /\ inbox' = [inbox EXCEPT ![w] = Tail(@)]
  /\ UNCHANGED <<callVars, lockVars, slot, closed, proc>>

\* The BankID flow, the local page and idle eviction move the state between
\* two commands.  Only the disconnect command opens a confirmation.
WorkerFlow(w) ==
  /\ proc[w] = "running"
  /\ \E s \in {"connected", "disconnected"} :
       /\ s # auth[w]
       /\ s = "connected" => auth[w] # "disconnected"
       /\ auth' = [auth EXCEPT ![w] = s]
  /\ UNCHANGED <<callVars, lockVars, slot, closed, proc, inbox, outbox>>

\* The process ends: shutdown, session lifetime over, one_shot read done,
\* parent gone, stdin closed, a signal, or a crash at any point.
WorkerExits(w) ==
  /\ proc[w] \in {"running", "terminating"}
  /\ proc' = [proc EXCEPT ![w] = "exited"]
  /\ inbox' = [inbox EXCEPT ![w] = <<>>]
  /\ UNCHANGED <<callVars, lockVars, slot, closed, outbox, auth>>

\* The event loop learns the returncode.
Reaped(w) ==
  /\ proc[w] = "exited"
  /\ proc' = [proc EXCEPT ![w] = "reaped"]
  /\ UNCHANGED <<callVars, lockVars, slot, closed, inbox, outbox, auth>>

-----------------------------------------------------------------------------

Init ==
  /\ method = [c \in Calls |-> "none"]
  /\ pc = [c \in Calls |-> "idle"]
  /\ outcome = [c \in Calls |-> "none"]
  /\ peer = [c \in Calls |-> NoWorker]
  /\ sent = [c \in Calls |-> "none"]
  /\ got = [c \in Calls |-> NoFrame]
  /\ holder = [l \in Locks |-> NoCall]
  /\ waiters = [l \in Locks |-> <<>>]
  /\ slot = NoWorker
  /\ closed = FALSE
  /\ proc = [w \in Workers |-> "unborn"]
  /\ inbox = [w \in Workers |-> <<>>]
  /\ outbox = [w \in Workers |-> <<>>]
  /\ auth = [w \in Workers |-> "disconnected"]

\* The steps a started call takes without being cancelled.
Progress(c) ==
  \/ TakeOperationLock(c)
  \/ EnterLive(c) \/ EnterAbsent(c) \/ EnterSpawn(c)
  \/ \E w \in Workers : Spawned(c, w)
  \/ SpawnFails(c)
  \/ ReadStatusThenSend(c) \/ ReadStatusThenRefuse(c)
  \/ ReadAnswer(c) \/ ReadShutdown(c) \/ ReadMismatch(c)
  \/ NoAnswer(c)
  \/ Stopped(c)

CallStep(c) ==
  \/ \E m \in Methods : Begin(c, m) \/ BeginClosed(c, m)
  \/ Progress(c)
  \/ Cancel(c)

WorkerStep(w) ==
  WorkerAnswer(w) \/ WorkerFlow(w) \/ WorkerExits(w) \/ Reaped(w)

Next ==
  \/ \E c \in Calls : CallStep(c)
  \/ \E w \in Workers : WorkerStep(w)

Spec == Init /\ [][Next]_vars

\* Locks are granted, wait_for times out, and _stop_process kills and waits:
\* none of it depends on the worker behaving.
Fairness ==
  /\ \A c \in Calls : WF_vars(Progress(c))
  /\ \A w \in Workers :
       /\ WF_vars(proc[w] = "terminating" /\ WorkerExits(w))
       /\ WF_vars(Reaped(w))

FairSpec == Spec /\ Fairness

-----------------------------------------------------------------------------
(* Properties.                                                             *)

Pcs == {"idle", "operation", "daemon", "spawn", "reply", "stopping", "done"}
Outcomes ==
  {"none", "answered", "refused", "failed", "cancelled", "closed"}
ProcStates == {"unborn", "running", "terminating", "exited", "reaped"}

\* Every variable keeps its shape; pipes hold commands and frames only.
TypeOK ==
  /\ method \in [Calls -> Methods \union {"none"}]
  /\ pc \in [Calls -> Pcs]
  /\ outcome \in [Calls -> Outcomes]
  /\ peer \in [Calls -> Workers \union {NoWorker}]
  /\ sent \in [Calls -> Actions \union {"none"}]
  /\ got \in [Calls -> Frame \union {NoFrame}]
  /\ holder \in [Locks -> Calls \union {NoCall}]
  /\ waiters \in [Locks -> Seq(Calls)]
  /\ slot \in Workers \union {NoWorker}
  /\ closed \in BOOLEAN
  /\ proc \in [Workers -> ProcStates]
  /\ inbox \in [Workers -> Seq(Command)]
  /\ outbox \in [Workers -> Seq(Frame)]
  /\ auth \in [Workers -> AuthStates]

\* A frame a call consumes answers a command of that very call, and the one
\* it returns to its caller answers the method's own command, whatever was
\* cancelled, timed out or crashed before: the promise of the docstring of
\* _retire_uncertain_worker.
AnswersOwnCommand ==
  \A c \in Calls : got[c] # NoFrame =>
    /\ got[c].cmd.call = c
    /\ outcome[c] = "answered" => got[c].cmd.action = ActionOf[method[c]]

\* While no call holds the daemon lock, the pipes of the registered daemon
\* are empty in both directions: nothing is left for the next call to read.
QuietWhenUnlocked ==
  holder["daemon"] = NoCall /\ slot # NoWorker =>
    inbox[slot] = <<>> /\ outbox[slot] = <<>>

\* A daemon process that has not been told to stop is the registered one: no
\* process that may hold a session runs on unnoticed by the broker.
NoStrayWorker ==
  \A w \in Workers : proc[w] = "running" => w = slot

\* No account read reaches the daemon while its disconnect confirmation is
\* open: the status check and the read are one critical section.
NoReadDuringDisconnect ==
  \A w \in Workers :
    inbox[w] # <<>> /\ Head(inbox[w]).action = "account" =>
      auth[w] # "awaiting_disconnect"

\* After aclose has returned no daemon runs, and none is ever started by a
\* connect that was already waiting for the lock.
ClosedForGood ==
  (\E c \in Calls : pc[c] = "done" /\ outcome[c] = "closed") =>
    \A w \in Workers : proc[w] # "running"

\* Every call ends, whatever its worker does: no lock is held for ever.
EveryCallEnds ==
  \A c \in Calls : pc[c] # "idle" ~> pc[c] = "done"
=============================================================================
