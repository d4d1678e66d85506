---------------------------- MODULE PersistentAuth ----------------------------
(***************************************************************************)
(* Persistent mode: one credential in the OS store, and the short-lived    *)
(* worker processes that load, validate, save and delete it               *)
(* (src/avanza_mcp/auth/broker.py and auth/worker.py).                     *)
(*                                                                         *)
(* KeyringSessionStore makes each load, save and delete atomic between     *)
(* processes, but a worker works on what it loaded: between its load and   *)
(* its save or delete lies a request to Avanza.  What keeps two such       *)
(* intervals apart is the broker: asyncio.Lock _operation_lock and the     *)
(* test _persistent_disconnect_active.                                     *)
(*                                                                         *)
(* The broker waits for a worker that it stops.  But a caller cancelled in *)
(* that wait leaves at once, with the locks released and the worker, which *)
(* has no signal handler of its own, perhaps not gone yet.  Such a worker, *)
(* and the few that were started without or past the test, are "loose".    *)
(*                                                                         *)
(* A credential is named by the BankID login it comes from; a refreshed    *)
(* cookie is still the same login.  An element of Uses is one invocation   *)
(* of a broker method and also names the worker process it spawns, if any. *)
(***************************************************************************)
EXTENDS Naturals

CONSTANTS
  Uses,               \* invocations of broker methods
  PersistentMethods,  \* the methods they may be, a subset of AllMethods
  Cancelled,          \* calls whose caller may cancel them, again and again
  MaxLogins,          \* bound: BankID logins in one behaviour
  None                \* Python's None

AllMethods ==
  {"connect", "disconnect", "health_status", "status", "account", "market",
   "aclose"}

Logins == 1..MaxLogins

ASSUME PersistentAssumption ==
  /\ PersistentMethods \subseteq AllMethods /\ Cancelled \subseteq Uses
  /\ None \notin Uses /\ None \notin Nat

VARIABLES
  asked, at,     \* of call c: the broker method and the await it is at
  lock,          \* the call that holds self._operation_lock
  shut,          \* self._closed
  ui,            \* self._ui_process
  marketDaemon,  \* self._market_daemon
  whom,          \* whom[c]: the worker call c talks to
  answered,      \* calls whose answer frame has been emitted
  kind, wpc,     \* of worker w: its --kind, and where it is
  held,          \* held[w]: the credential worker w has in memory
  retried,       \* workers that revalidated once after an auth_expired
  store,         \* the OS credential store
  logins,        \* how many logins there have been
  removed,       \* logins whose credential a confirmed disconnect removed
  loggedOut,     \* logins Avanza has ended
  loose,         \* history: the workers no lock and no test keeps apart
  crossed        \* history: a loose worker or its page changed the store

brokerVars == <<asked, at, whom, lock, shut, ui, marketDaemon>>
procVars   == <<answered, kind, wpc, held, retried>>
storeVars  == <<store, logins, removed, loggedOut>>
history    == <<loose, crossed>>
persistentVars == <<brokerVars, procVars, storeVars, history>>

Alive(w) == w # None /\ wpc[w] \notin {"unused", "exited"}
\* Variant: any UI worker but the disconnect one.
DisconnectActiveInverted == Alive(ui) /\ asked[ui] # "disconnect"

\* _persistent_disconnect_active; the UI worker keeps the method that
\* started it (self._ui_action).
DisconnectActive == Alive(ui) /\ asked[ui] = "disconnect"

Goto(c, label) == at' = [at EXCEPT ![c] = label]
Move(w, label) == wpc' = [wpc EXCEPT ![w] = label]

\* A worker exits, or drops its session material for another reason.
DropSession(w) == held' = [held EXCEPT ![w] = None]

\* self._market_daemon_lock is held: a command is with the market daemon, or
\* the daemon is being stopped.
MarketLocked ==
  \E c \in Uses : \/ at[c] \in {"stop_market", "close_market"}
                  \/ at[c] \in {"reply", "killing"} /\ kind[whom[c]] = "market"

-----------------------------------------------------------------------------
(* Broker methods, up to the command they send.                            *)

\* A method is entered.  "market" stands for market_request, market_data_batch
\* and order_depth_snapshot; market_request alone does not call _ensure_open.
BeginPersistent(c, m) ==
  /\ at[c] = "idle"
  /\ ~shut \/ m = "market"
  /\ asked' = [asked EXCEPT ![c] = m]
  /\ Goto(c, CASE m = "aclose" -> "closing"
               [] m = "status" -> IF Alive(ui) THEN "done" ELSE "spawn"
               [] m = "health_status" -> IF Alive(ui) THEN "done" ELSE "queued"
               [] OTHER -> "queued")
  /\ shut' = (shut \/ m = "aclose")
  /\ UNCHANGED <<whom, lock, ui, marketDaemon, procVars, storeVars,
                 history>>
\* The operation lock is granted.  account and market look for a pending
\* disconnect here, behind the lock; health_status looked before it.
TakeLock(c) ==
  /\ at[c] = "queued" /\ lock = None
  /\ IF asked[c] \in {"account", "market"} /\ DisconnectActive
     THEN Goto(c, "done") /\ UNCHANGED lock
     ELSE Goto(c, "locked") /\ lock' = c
  /\ UNCHANGED <<asked, whom, shut, ui, marketDaemon, procVars, storeVars,
                 history>>
\* Variant: the market daemon is forgotten but goes on running.
StopMarketForgets(c) ==
  /\ \/ at[c] = "locked" /\ asked[c] # "market"
     \/ at[c] = "closing"
  /\ ~MarketLocked
  /\ Goto(c, IF at[c] = "locked" THEN "spawn" ELSE "close_ui")
  /\ marketDaemon' = None
  /\ UNCHANGED <<asked, whom, lock, shut, ui, procVars, storeVars,
                 history>>

\* _stop_market_daemon, called by every method that is about to touch the
\* credential, and by aclose without the operation lock.
StopMarket(c) ==
  /\ \/ at[c] = "locked" /\ asked[c] # "market"
     \/ at[c] = "closing"
  /\ ~MarketLocked
  /\ IF Alive(marketDaemon)
     THEN /\ Goto(c, IF at[c] = "locked" THEN "stop_market" ELSE "close_market")
          /\ whom' = [whom EXCEPT ![c] = marketDaemon]
     ELSE /\ Goto(c, IF at[c] = "locked" THEN "spawn" ELSE "close_ui")
          /\ UNCHANGED whom
  /\ marketDaemon' = None
  /\ UNCHANGED <<asked, lock, shut, ui, procVars, storeVars, history>>

\* The market daemon has acknowledged the shutdown, or was terminated.
MarketStopped(c) ==
  /\ at[c] \in {"stop_market", "close_market"} /\ ~Alive(whom[c])
  /\ Goto(c, IF at[c] = "stop_market" THEN "spawn" ELSE "close_ui")
  /\ UNCHANGED <<asked, whom, lock, shut, ui, marketDaemon, procVars, storeVars,
                 history>>

\* Variant: the lock is kept.
LeaveLocked(c) == Goto(c, "done") /\ UNCHANGED lock

Leave(c) ==
  /\ Goto(c, "done")
  /\ lock' = IF lock = c THEN None ELSE lock

\* A second connect or disconnect gets the status of the running UI worker.
UiBusy(c) ==
  /\ at[c] = "spawn" /\ asked[c] \in {"connect", "disconnect"}
  /\ Alive(ui)
  /\ Leave(c)
  /\ UNCHANGED <<asked, whom, shut, ui, marketDaemon, procVars, storeVars,
                 history>>

KindOf(m) == CASE m \in {"connect", "disconnect"} -> "ui"
               [] m = "market" -> "market"
               [] OTHER -> "once"

\* status takes no lock, and health_status makes its test before it waits for it.
Unguarded(c) ==
  asked[c] = "status" \/ (asked[c] = "health_status" /\ DisconnectActive)

\* _start_persistent_ui, _run_once, and _persistent_market_command when no
\* market daemon is alive: spawn the worker and send the command.
Spawn(c) ==
  /\ \/ at[c] = "spawn" /\ (KindOf(asked[c]) = "ui" => ~Alive(ui))
     \/ /\ at[c] = "locked" /\ asked[c] = "market"
        /\ ~MarketLocked /\ ~Alive(marketDaemon)
  /\ kind' = [kind EXCEPT ![c] = KindOf(asked[c])]
  /\ whom' = [whom EXCEPT ![c] = c]
  /\ Move(c, "load")
  /\ ui' = IF KindOf(asked[c]) = "ui" THEN c ELSE ui
  /\ marketDaemon' = IF asked[c] = "market" THEN c ELSE marketDaemon
  /\ Goto(c, "reply")
  /\ loose' = IF Unguarded(c) THEN loose \union {c} ELSE loose
  /\ UNCHANGED <<asked, lock, shut, answered, held, retried, storeVars,
                 crossed>>

\* A market command for the live daemon.  It serves it with the session it
\* has, or revalidates after fifteen minutes.
SendMarket(c) ==
  /\ at[c] = "locked" /\ asked[c] = "market"
  /\ ~MarketLocked /\ Alive(marketDaemon)
  /\ whom' = [whom EXCEPT ![c] = marketDaemon]
  /\ retried' = retried \ {marketDaemon}
  /\ \E step \in IF held[marketDaemon] = None THEN {"load"}
                 ELSE {"load", "operate"} : Move(marketDaemon, step)
  /\ Goto(c, "reply")
  /\ UNCHANGED <<asked, lock, shut, ui, marketDaemon, answered, kind, held,
                 storeVars, history>>

-----------------------------------------------------------------------------
(* The answer, its absence, and the end of a call.                         *)

\* The frame is read.  _run_once also waits for the worker to exit.
Receive(c) ==
  /\ at[c] = "reply" /\ c \in answered
  /\ kind[whom[c]] = "once" => ~Alive(whom[c])
  /\ Leave(c)
  /\ UNCHANGED <<asked, whom, shut, ui, marketDaemon, procVars, storeVars,
                 history>>

\* Variant: the worker is left to itself.
GiveUpAtOnce(c) ==
  /\ at[c] = "reply"
  /\ Leave(c)
  /\ marketDaemon' = IF marketDaemon = whom[c] THEN None ELSE marketDaemon
  /\ UNCHANGED <<asked, whom, shut, ui, procVars, storeVars, history>>

\* The response times out or the call is cancelled: the worker is retired and
\* terminated, and the locks are kept while the broker waits for its end.
GiveUp(c) ==
  /\ at[c] = "reply"
  /\ Goto(c, "killing")
  /\ marketDaemon' = IF marketDaemon = whom[c] THEN None ELSE marketDaemon
  /\ UNCHANGED <<asked, whom, lock, shut, ui, procVars, storeVars, history>>

\* The terminated worker is gone.
Killed(c) ==
  /\ at[c] = "killing" /\ ~Alive(whom[c])
  /\ Leave(c)
  /\ UNCHANGED <<asked, whom, shut, ui, marketDaemon, procVars, storeVars,
                 history>>

\* aclose ends by stopping the UI worker, which it has forgotten by then.
CloseUi(c) ==
  /\ at[c] = "close_ui"
  /\ ui' = None
  /\ IF Alive(ui)
     THEN /\ Goto(c, "killing") /\ UNCHANGED lock
          /\ whom' = [whom EXCEPT ![c] = ui]
          /\ loose' = loose \union {ui}
     ELSE Leave(c) /\ UNCHANGED <<whom, loose>>
  /\ UNCHANGED <<asked, shut, marketDaemon, procVars, storeVars, crossed>>

\* Cancelled before there is a worker to stop: waiting for a lock or a spawn.
CancelQueued(c) ==
  /\ at[c] \in {"queued", "locked", "spawn", "closing", "close_ui"}
  /\ Leave(c)
  /\ UNCHANGED <<asked, whom, shut, ui, marketDaemon, procVars, storeVars,
                 history>>

\* Cancelled while it stops the market daemon: the daemon is terminated, and
\* what was to follow does not.
CancelStop(c) ==
  /\ at[c] \in {"stop_market", "close_market"}
  /\ Goto(c, "killing")
  /\ UNCHANGED <<asked, whom, lock, shut, ui, marketDaemon, procVars, storeVars,
                 history>>

\* Cancelled once more, in _stop_process: it leaves, whether the worker is gone
\* or not.  _run_once and _persistent_market_command stop it a second time,
\* which takes one more cancellation and comes to the same.  A UI worker that
\* stays registered as the disconnect still keeps the others out.
CancelAgain(c) ==
  /\ at[c] = "killing"
  /\ Leave(c)
  /\ loose' = IF Alive(whom[c]) /\ ~(DisconnectActive /\ whom[c] = ui)
              THEN loose \union {whom[c]} ELSE loose
  /\ UNCHANGED <<asked, whom, shut, ui, marketDaemon, procVars, storeVars,
                 crossed>>

-----------------------------------------------------------------------------
(* Workers.  _run_once, _load_validated_market_session and BrowserAuth.    *)
(* restore share one shape: load, validate at Avanza, then save or delete. *)

\* The worker answers its command and goes on at label.
Answer(w, label) ==
  /\ Move(w, label)
  /\ answered' = answered \union {c \in Uses : at[c] = "reply" /\ whom[c] = w}

\* The history of a step that changes the store.
Writes(w) == crossed' = (crossed \/ w \in loose)

\* What a worker does when there is no usable credential: a UI worker that
\* was asked to connect shows the BankID page, a market daemon waits for the
\* next command, every other worker is finished.
WithoutSession(w) ==
  Answer(w, IF kind[w] = "market" THEN "rest"
            ELSE IF kind[w] = "ui" /\ asked[w] = "connect" THEN "page"
            ELSE "exited")
\* An error is answered and ends every worker but the market daemon.
WithError(w) == Answer(w, IF kind[w] = "market" THEN "rest" ELSE "exited")

\* What it does with a validated one.  The page of a UI worker that was asked
\* to disconnect is the confirmation; one asked to connect has nothing to do.
WithSession(w) ==
  IF kind[w] = "ui" \/ asked[w] = "status"
  THEN Answer(w, IF asked[w] = "disconnect" THEN "page" ELSE "exited")
  ELSE Move(w, "operate") /\ UNCHANGED answered

Load(w) ==
  /\ wpc[w] = "load"
  /\ held' = [held EXCEPT ![w] = store]
  /\ IF store = None THEN WithoutSession(w)
     ELSE Move(w, "validate") /\ UNCHANGED answered
  /\ UNCHANGED <<brokerVars, history, kind, retried, storeVars>>

LoadFails(w) ==
  /\ wpc[w] = "load"
  /\ DropSession(w)
  /\ WithError(w)
  /\ UNCHANGED <<brokerVars, history, kind, retried, storeVars>>

\* Avanza confirms the session.  restore saves it in any case, the others
\* only if the cookies changed.
Validated(w) ==
  /\ wpc[w] = "validate"
  /\ held[w] \notin loggedOut
  /\ \/ Move(w, "save") /\ UNCHANGED answered
     \/ kind[w] # "ui" /\ asked[w] # "status" /\ WithSession(w)
  /\ UNCHANGED <<brokerVars, history, kind, held, retried, storeVars>>

\* Avanza rejects it.
Rejected(w) ==
  /\ wpc[w] = "validate"
  /\ Move(w, "delete")
  /\ UNCHANGED <<brokerVars, history, answered, kind, held, retried, storeVars>>

ValidationFails(w) ==
  /\ wpc[w] = "validate"
  /\ DropSession(w)
  /\ WithError(w)
  /\ UNCHANGED <<brokerVars, history, kind, retried, storeVars>>

Save(w) ==
  /\ wpc[w] = "save"
  /\ store' = held[w]
  /\ WithSession(w)
  /\ Writes(w)
  /\ UNCHANGED <<brokerVars, loose, kind, held, retried, logins, removed,
                 loggedOut>>

Delete(w) ==
  /\ wpc[w] = "delete"
  /\ store' = None
  /\ DropSession(w)
  /\ WithoutSession(w)
  /\ Writes(w)
  /\ UNCHANGED <<brokerVars, loose, kind, retried, logins, removed, loggedOut>>

\* save or delete raises AuthStoreError.
StoreFails(w) ==
  /\ wpc[w] \in {"save", "delete"}
  /\ DropSession(w)
  /\ WithError(w)
  /\ UNCHANGED <<brokerVars, history, kind, retried, storeVars>>

\* The authenticated read succeeds, or fails for another reason than expiry.
Operate(w) ==
  /\ wpc[w] = "operate"
  /\ WithError(w)
  /\ IF kind[w] = "market" THEN UNCHANGED held ELSE DropSession(w)
  /\ UNCHANGED <<brokerVars, history, kind, retried, storeVars>>

\* 401: a market daemon revalidates once with the stored credential; a once
\* worker has validated already and deletes it.
OperateExpired(w) ==
  /\ wpc[w] = "operate"
  /\ \/ /\ kind[w] = "once" \/ w \notin retried
        /\ Move(w, IF kind[w] = "once" THEN "delete" ELSE "load")
        /\ retried' = retried \union {w}
        /\ UNCHANGED <<answered, held>>
     \/ /\ kind[w] = "market" /\ w \in retried
        /\ DropSession(w)
        /\ WithError(w)
        /\ UNCHANGED retried
  /\ UNCHANGED <<brokerVars, history, kind, storeVars>>

-----------------------------------------------------------------------------
(* The page of a UI worker (BrowserAuth in detail): the user acts or not.  *)

\* A BankID login completes and is saved; failing that, the page ends.
LogIn(w) ==
  /\ wpc[w] = "page" /\ asked[w] = "connect"
  /\ logins < MaxLogins
  /\ logins' = logins + 1
  /\ store' = logins + 1
  /\ Move(w, "shown")
  /\ Writes(w)
  /\ UNCHANGED <<brokerVars, loose, answered, kind, held, retried, removed,
                 loggedOut>>

\* The disconnection is confirmed: the credential is deleted, then the
\* session is logged out.
ConfirmRemoval(w) ==
  /\ wpc[w] = "page" /\ asked[w] = "disconnect"
  /\ store' = None
  /\ removed' = removed \union ({held[w], store} \ {None})
  /\ Move(w, "logout")
  /\ Writes(w)
  /\ UNCHANGED <<brokerVars, loose, answered, kind, held, retried, logins,
                 loggedOut>>

LogOut(w) ==
  /\ wpc[w] = "logout"
  /\ loggedOut' \in {loggedOut, loggedOut \union {held[w]}}
  /\ Move(w, "shown")
  /\ UNCHANGED <<brokerVars, history, answered, kind, held, retried, store,
                 logins, removed>>

\* Denied, expired, cancelled, kept, or the store failed.
PageEnds(w) ==
  /\ wpc[w] = "page"
  /\ Move(w, "shown")
  /\ UNCHANGED <<brokerVars, history, answered, kind, held, retried, storeVars>>

\* The outcome has been shown for 2.2 s.
UiExits(w) ==
  /\ wpc[w] = "shown"
  /\ Move(w, "exited")
  /\ DropSession(w)
  /\ UNCHANGED <<brokerVars, history, answered, kind, retried, storeVars>>

\* A worker exits: it was terminated, its command was to shut down, or it
\* failed.
Dies(w) ==
  /\ Alive(w)
  /\ Move(w, "exited")
  /\ DropSession(w)
  /\ UNCHANGED <<brokerVars, history, answered, kind, retried, storeVars>>

\* ... which a worker that was told to stop cannot put off for ever.
Stops(w) ==
  /\ \E c \in Uses : /\ whom[c] = w
                     /\ at[c] \in {"killing", "stop_market", "close_market"}
  /\ Dies(w)

-----------------------------------------------------------------------------
PersistentInit ==
  /\ asked = [c \in Uses |-> "none"] /\ at = [c \in Uses |-> "idle"]
  /\ lock = None /\ shut = FALSE /\ ui = None /\ marketDaemon = None
  /\ whom = [c \in Uses |-> None] /\ answered = {}
  /\ kind = [w \in Uses |-> "none"] /\ wpc = [w \in Uses |-> "unused"]
  /\ held = [w \in Uses |-> None] /\ retried = {}
  /\ store \in {None, 1}
  /\ logins = IF store = None THEN 0 ELSE 1
  /\ removed = {} /\ loggedOut = {}
  /\ loose = {} /\ crossed = FALSE

BrokerStep(c) ==
  \/ TakeLock(c) \/ StopMarket(c) \/ UiBusy(c) \/ Spawn(c) \/ SendMarket(c)
  \/ CloseUi(c)
  \/ MarketStopped(c) \/ Receive(c) \/ Killed(c)

ProcessStep(w) ==
  \/ Load(w) \/ LoadFails(w)
  \/ Validated(w) \/ Rejected(w) \/ ValidationFails(w)
  \/ Save(w) \/ Delete(w) \/ StoreFails(w)
  \/ Operate(w) \/ OperateExpired(w)
  \/ LogOut(w) \/ UiExits(w)

CancelUse(c) == CancelQueued(c) \/ CancelStop(c) \/ CancelAgain(c)

UserStep(w) == LogIn(w) \/ ConfirmRemoval(w) \/ PageEnds(w)

PersistentNext ==
  \/ \E c \in Uses, m \in PersistentMethods : BeginPersistent(c, m)
  \/ \E c \in Uses : BrokerStep(c) \/ ProcessStep(c) \/ UserStep(c)
  \/ \E c \in Uses : GiveUp(c) \/ Dies(c)
  \/ \E c \in Cancelled : CancelUse(c)

PersistentSpec == PersistentInit /\ [][PersistentNext]_persistentVars

\* The broker's steps and the workers' are taken eventually, a response that
\* does not come times out, a worker that is killed dies, and asyncio.Lock is
\* fair.  The user need not act, and nobody need cancel.
PersistentFairness ==
  /\ \A c \in Uses : SF_persistentVars(BrokerStep(c))
  /\ \A c \in Uses : WF_persistentVars(ProcessStep(c))
  /\ \A c \in Uses : WF_persistentVars(GiveUp(c)) /\ WF_persistentVars(Stops(c))

FairPersistent == PersistentSpec /\ PersistentFairness

-----------------------------------------------------------------------------
(* Properties.                                                             *)

PcLabels == {"idle", "queued", "locked", "stop_market", "spawn", "reply",
             "killing", "closing", "close_market", "close_ui", "done"}
WorkerLabels == {"unused", "load", "validate", "save", "delete", "operate",
                 "page", "logout", "shown", "rest", "exited"}

\* Every variable holds a value of the kind the code assigns to it.
PersistentTypeOK ==
  /\ asked \in [Uses -> AllMethods \union {"none"}]
  /\ at \in [Uses -> PcLabels]
  /\ lock \in Uses \union {None} /\ shut \in BOOLEAN
  /\ ui \in Uses \union {None} /\ marketDaemon \in Uses \union {None}
  /\ whom \in [Uses -> Uses \union {None}] /\ answered \subseteq Uses
  /\ kind \in [Uses -> {"none", "once", "ui", "market"}]
  /\ wpc \in [Uses -> WorkerLabels]
  /\ held \in [Uses -> Logins \union {None}] /\ retried \subseteq Uses
  /\ store \in Logins \union {None} /\ logins \in 0..MaxLogins
  /\ removed \subseteq Logins /\ loggedOut \subseteq Logins
  /\ loose \subseteq Uses /\ crossed \in BOOLEAN

\* The worker reads or writes the credential, or has it in memory.
Working(w) == kind[w] \in {"once", "market"} /\ Alive(w)

\* "Wait for an already-started authenticated operation to finish before
\* opening the disconnect confirmation.  New operations are blocked by
\* _ui_action until the UI worker reaches a terminal state": beside a
\* disconnect worker runs no other, unless one of the two is loose.
DisconnectIsExclusive ==
  \A u, w \in Uses \ loose :
    (Alive(u) /\ kind[u] = "ui" /\ asked[u] = "disconnect") => ~Working(w)

\* A confirmed disconnect "removes the OS credential" for good.
RemovedCredentialStaysOut == store \notin removed

\* ... and no worker goes on using the session it belonged to.  It is only a
\* loose worker that can put it back.
RemovedStaysRemoved ==
  ~crossed =>
    /\ RemovedCredentialStaysOut
    /\ \A w \in Uses \ loose : kind[w] # "ui" => held[w] \notin removed

\* A worker saves or deletes the credential it loaded and validated, never one
\* that another worker has put there meanwhile, unless one of them was loose.
NoLostUpdate ==
  ~crossed =>
    \A w \in Uses \ loose : wpc[w] \in {"save", "delete"} => store = held[w]

\* Every call returns, although the page of a UI worker may stay open for
\* ever and a worker may never answer.
EveryPersistentCallEnds == \A c \in Uses : at[c] # "idle" ~> at[c] = "done"
=============================================================================
