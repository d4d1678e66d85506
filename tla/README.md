# TLA+ verification of avanza-mcp

avanza-mcp is an MCP server for Avanza market data and, after a BankID login,
for the user's own accounts. This directory models its stateful core in TLA+,
checks the models with TLC and proves the central theorems with TLAPS.
Paths below are relative to the repository; `PROJECT.json` maps every
definition to the lines it translates.

## 1. Inventory

### Parts that keep state

| Part | State | Operations | Talks to | Hard because |
|---|---|---|---|---|
| `AuthProcessBroker` (auth/broker.py) | registered worker processes, four asyncio locks, UI status, market backoff, closed flag | connect, disconnect, status, health_status, account, market_request (and batch, order depth), warm, forum_*, aclose | workers, by one JSON line each way | cancellation between write and read, frames without request numbers, processes that die, locks taken in order |
| Session daemon `_run_daemon` (auth/worker.py) | BrowserAuth with the session in memory, activity timers | one command per line | broker pipe, Avanza | parent death, stdin end, idle / absolute / one_shot lifetimes |
| Once, UI and market workers (auth/worker.py) | the credential loaded from the OS store | load, validate, read, save or delete | broker pipe, store, Avanza | the interval between load and write |
| `BrowserAuth` (auth/browser.py) | page state, attempt, session, listener, timers | approve, poll, cancel, disconnect, keep, open, close, expire | user's browser, BankID client, store | HTTP requests that interleave with commands and timers |
| `BankIDClient` (client/bankid.py) | upstream transaction, cookies, cancelled flag | start, restart, collect, cancel, logout | Avanza | concurrent requests, cancellation with requests in flight |
| `KeyringSessionStore` (auth/store.py) | one OS credential | load, save, delete | keyring, lock file | several processes |
| `AvanzaClient` (client/base.py) | semaphore, pacing clock, backoff, authenticated client | request, request_authenticated, batch | Avanza | lock order, retry deadlines, stale session |
| Forum daemon and client (auth/forum.py, client/forum.py, worker.py) | forum session | post, reply | Avanza forum | a write whose answer is lost |
| Instrument catalog (instrument_catalog.py) | SQLite catalog | refresh, replace, search | Avanza | paging through a changing listing |
| Leveraged and options screens (services/) | snapshots in memory, cursors | capture, page, expire | AvanzaClient | stale cursors, partial failures |
| Gateway (public/gateway) | key cache, rate windows | authorise, forward | identity provider, server | key rotation, window boundaries |

Parts without state of interest: page markup, data models, prompts, resources,
tool wrappers, Windows scripts, benchmarks.

### What makes each part correct

- Broker and daemon: an answer belongs to its command whatever was cancelled or
  lost; no process with a session runs on unnoticed; nothing is left locked;
  no account read overtakes a disconnect confirmation.
- Page: one attempt at a time, every attempt ends, a late answer revives
  nothing, what is shown as connected is what is stored.
- Persistent workers: a worker writes only over what it loaded; a removed
  credential stays removed; a disconnect has the credential to itself; each as
  long as no worker runs that the locks do not keep apart (3, `PersistentAuth`).
- BankID attempt: nothing of a cancelled attempt is used or kept, whatever its
  polls had out; the cleanup does not wait for itself.
- Session daemon: a session ends with its lifetime, give or take the time the
  loop does not look.
- Credential store: operations of several processes are single steps of one
  register, though any of them may die.
- HTTP client: no request on a client that has been closed, no session sent after
  its end but by the one that was about to, anonymous requests paced, every
  request ends.
- Forum writes: a confirmed call publishes once at most; "try again" is said only
  when nothing was published; a receipt is for the caller's own post.
- Screens and catalog: no ranking before every product was tried, no contract or
  product missing but where a row moved up behind the reader, the pages of one
  reader from one list.

## 2. Plan

Order of work, most important behaviour first. Modules marked (done) exist.

1. `WorkerIpc` (done): the pipe; abstract specification `CallContract`,
   refinement `WorkerIpcContract`, proofs `BrokerProofs`.
2. `BrowserAuth` (done): the page, its attempts and the loops that own it.
3. `PersistentAuth` (done): the credential and the workers of persistent mode;
   `Broker` (done) composes 1 and 3 by session mode.
4. `RequestGovernor` (done): AvanzaClient's semaphore, pacing, client lock,
   cooldown and retry, as the server, a transient worker client and the market
   worker use them.
5. `SessionDaemon` (done): the three lifetimes of `_run_daemon` against commands.
6. `LeveragedScreen`, `OptionsScreen`, composed by `Screens` (done): snapshots,
   cursors, expiry and rankings under overlapping calls. `PagedScan` and
   `InstrumentCatalog` (done): paging through a list that changes, and the
   replacement of the catalog beside its readers.
7. `AttemptClient` (done): one BankID order against the service, for Avanza and
   for the forum. `ForumWrites` (done): posts and replies. `CredentialStore`
   (done): the store of several processes, refining `SharedRegister`.

Not done:

8. A composition of two brokers on one `CredentialStore`: `PersistentAuth` takes
   one operation of the store for a step and has one broker.
9. The backoff of the market delegate per family of requests; the gateway's key
   cache and rate window; the pure operators (endpoint policy, account paging,
   order-depth projection) against reference definitions.

Abstract specifications: `CallContract` (what a broker call may rely on) and
`SharedRegister` (an atomic register) are stated and refined. "The rows a client
is given come from one frozen list" is stated as an invariant of the screens
instead (`PagesOfOneRanking`), because its exception, a ranking that another
call is still making, is part of it.

Theorems (done, see 6 below): every safety invariant and action property of the
passing runs, the refinements of `CallContract` and `SharedRegister`, and the
compositions `Broker` and `Screens`. Worth proving next: the type invariants that
no run lists, and the facts the liveness properties rest on (that a lock's holder
or a line's first always has a step that ends its turn), as far as they can be
said without `ENABLED`.

## 3. What is modelled

### WorkerIpc

An element of `Calls` is one invocation of a broker method, an element of
`Workers` one process. `pc[c]` names the `await` a call is suspended at:
waiting for `_operation_lock` ("operation") or `_daemon_lock` ("daemon"),
inside `create_subprocess_exec` ("spawn"), inside `readline` ("reply"), inside
`_stop_process` ("stopping"). Both locks keep asyncio's FIFO queue
(`waiters`). A step is the code between two awaits, so a check and the
assignment that follows it without an await are one step, as in the event loop.

| Action | Code |
|---|---|
| `Begin`, `BeginClosed` | method entry and `_ensure_open` |
| `TakeOperationLock`, `EnterLive`, `EnterAbsent`, `EnterSpawn` | the `async with` statements and `_live_daemon` |
| `Spawned`, `SpawnFails` | `_spawn` |
| `ReadStatusThenSend`, `ReadStatusThenRefuse`, `ReadAnswer`, `ReadShutdown`, `ReadMismatch`, `NoAnswer` | `_command` after the write |
| `Retire`, `Stopped` | `_retire_uncertain_worker`, `_stop_process` |
| `CancelWaiting`, `CancelSpawn`, `CancelReply`, `CancelStopping` | `CancelledError` at each await |
| `WorkerAnswer`, `WorkerFlow`, `WorkerExits`, `Reaped` | one turn of `_run_daemon`, the BankID flow between two turns, any end of the process, the event loop noticing it |

A frame carries a ghost field `cmd`, the command it answers; nothing in a guard
reads it. `WorkerExits` may happen at any point: it stands for the lifetimes,
the end of stdin, a dead parent, a signal and a crash.

`CallContract` is what a caller may rely on, without pipe or process: its
command takes effect at most once, the value returned is the one produced, and
a call that failed has no effect afterwards. `WorkerIpcContract` maps the
detailed state to it and states the refinement as `KeepsContract`.

### BrowserAuth

The tasks of one event loop: `Requests` (HTTP requests of the page), one timer
per attempt, the owner and the delayed stop of the listener. `persistent`
chooses between `_run_daemon` (no store) and `_run_ui` (a store, one command).
`Unlocked` is `asyncio.Lock`: the sections that await while they hold it
("saving", "deleting", "abandoning") keep everybody else out; a locked section
without an await is one step. `mine` and `gone` are the local variables
`attempt` and `session` of a suspended task, `want` the state it will pass to
`_finish_attempt` (for the owner: where it goes after `disconnect`).

Abstractions: starting the listener is one step (or fails); a browser that
opens has loaded the page; `last_poll` pacing, QR codes and markup are left
out; every BankID error is one code with one of the three states
`_error_state` yields. The idle timer and `restore` inside a running owner are
left out because both workers pass `_INTERNAL_BROWSER_IDLE_SECONDS`, longer
than any session they keep.

### PersistentAuth and Broker

A call also names the worker process it spawns. A worker goes through
load, validate, save or delete, operate (or the page), exit, with failures at
every point, and may die anywhere (`Dies`); `held` is the credential it has in
memory. Credentials are named by the BankID login they come from, since a
refreshed cookie is the same login. The page of a UI worker is reduced to its
outcomes here; `BrowserAuth` has it in detail.

| Action | Code |
|---|---|
| `BeginPersistent`, `TakeLock` | method entry, the operation lock, the tests for a pending disconnect before it and behind it |
| `StopMarket`, `MarketStopped` | `_stop_market_daemon`: the daemon is forgotten first, then told to shut down and waited for |
| `Spawn`, `UiBusy`, `SendMarket` | `_start_persistent_ui`, `_run_once`, `_persistent_market_command` |
| `Receive`, `GiveUp`, `Killed` | the answer; the response timeout or the first cancellation, which retires the worker and waits in `_stop_process`; its end |
| `CloseUi` | `aclose` forgets the UI worker, and then stops it |
| `CancelQueued`, `CancelStop`, `CancelAgain` | cancellation at a lock or a spawn; while the market daemon is being stopped, which terminates it; and once more in `_stop_process`, which leaves at once |
| `Load` ... `OperateExpired` | `_run_once`, `_load_validated_market_session`, `restore` of the worker |
| `LogIn`, `ConfirmRemoval`, `LogOut`, `PageEnds`, `UiExits`, `Dies` | the page of a UI worker, and any end of a process |

The broker waits for a worker it stops; a caller that is cancelled again in that
wait leaves with the locks released and the worker, which has no handler for
SIGTERM but may be in the middle of a save, perhaps not gone yet. Such a worker is
`loose` from then on, and so are the UI worker that `aclose` has forgotten, a
worker of `status`, which takes no lock, and one of `health_status` that was
started beside a disconnect because the test came before the lock. The history
`crossed` becomes true when a loose worker, or the page of one, changes the store.
The three properties of persistent mode are stated with these two: without the
exceptions each of them is false of the code (`persistent_removed` shows the second,
for `health_status` and with nobody cancelled). What they say is that nothing else breaks
them: no timeout, no single cancellation, no crash, no order of calls, and that a
worker left behind does no harm to the others until it writes.

`Broker` is `AuthProcessBroker` with its `mode`: "daemon" runs `WorkerIpc`
(memory_only and one_shot), "persistent" runs `PersistentAuth`. It extends both
modules, which therefore have names of their own: in `PersistentAuth` a call is
an element of `Uses`, `asked` is its method, `at` its await, `lock` the
operation lock, `whom[c]` the worker it talks to.

### RequestGovernor

`user` is who owns the `AvanzaClient`: the server (requests whenever a tool
calls for one, cancelled at any time, the session behind the broker's
delegate), a worker that opens a client for one command, or the market worker,
which keeps one. An element of `Requests` is one task inside the client; `Owner`
is the worker's main task, which gathers requests, holds the client lock around
a batch and leaves the client.

`line[l]` has the holders and waiters of each lock in arrival order: the first
`Capacity(l)` hold it, which is what asyncio's `Semaphore` and `Lock` do. `pc[r]`
names the await: "slot", "pace" (waiting for the pacing lock, or holding it and
sleeping), "delegate", "client", "close" (`previous.aclose()`, behind the client
lock), "sent", "retry"; the owner has the same await at "batch_close". `chosen` is
the session that was read before it, for which the new client will be made.

| Action | Code |
|---|---|
| `Begin`, `TakeSlot`, `PaceSleep`, `PaceEnds` | `_request`, `_send_request`, `_pace_request_start` |
| `DelegateAnswers`, `SendLocked` | `_send_request_unpaced` and the first half of `_ensure_authenticated_client_locked` (`EnsureClient`) |
| `Closed`, `BatchClosed` | its second half: the earlier client is closed or failed to close, the new one is made |
| `Answer`, `Retry`, `Interrupt` | `_handle_error`, `_note_rate_limit`, the tenacity loop, `asyncio.timeout` and cancellation |
| `StartGather`, `GatherEnds` | `portfolio_snapshot`, `_account_operation`, `_market_operation`, `_order_depth_operation` |
| `StartBatch`, `BatchLocked`, `BatchEnds` | `request_authenticated_batch`, `_market_batch_operation` |
| `Exit`, `Cleared` | `__aexit__`, `clear_authenticated_session` |
| `SessionChanges` | the provider's session ends, is replaced, or is loaded again |

Time is in ticks and kept as what is left of a deadline, so it needs no bound.
Abstractions: `request_timeout` and cancellation are one action that may strike
at any await; the pause between attempts has no length; an answer is one of five
classes; the batch's own semaphore is left out because both callers give it the
limit the client has, or more. `sinceStart`, `sincePublic` and `late` (who sent a
session after it had ended) are history variables: no guard of the code's steps
reads them (`Tick` only stops when nothing is left to count).

### SessionDaemon

The loop of `_run_daemon` with time in ticks: `pc` is "turn" (the top of the
loop), "waiting" (up to a tick for a line of stdin), "serving" or "exited";
`lastActivity` and `startedAt` are the loop's two timers as ages, or `Unset`.
`age` and `unused` are the true ages, history that no guard reads.

| Action | Code |
|---|---|
| `Turn` | the top of the loop: timers set or cleared by what `auth.session` is, the lifetimes tested, `auth.disconnect()` |
| `Timeout`, `EndOfInput`, `Receive` | `wait_for(readline, 0.25)`: no line, end of stdin or a dead parent, a command |
| `ReadOk`, `ReadFails`, `ReadExpired`, `Connect`, `Disconnect`, `Shutdown` | the branches of the command |
| `PageLogin`, `PageCancel`, `PageDisconnect`, `PageKeep` | BrowserAuth, by what it does to the session beside the loop |
| `Tick` | a unit of time; it may not pass the end of a wait or of a command |

### AttemptClient

One attempt as `BankIDClient` (`kind = "avanza"`) and `ForumBankIDClient`
("forum") make it. `order` and `web` are the service's side. The callers are
the task that starts the order, the polls that collect it, one that restarts it
and the one, `"drop"`, that takes the attempt out of BrowserAuth and cancels or
logs it out. `at[c]` is the request a caller awaits, `stale[c]` is `set(self._inflight)` as `cancel` or `logout` took it.

| Action | Code |
|---|---|
| `Start`, `Poll`, `SendPoll`, `Deadline` | `approve`, `poll` with its restart, the attempt's timer |
| `DeliverStart`, `DeliverRestart`, `DeliverCollect`, `DeliverRefused`, `Fail` | what follows the answer of each request: `_ensure_active`, cookies, the session |
| `Drop`, `CancelAfterLogout`, `CancelSuperseded`, `CancelCall`, `Logout`, `CleanupOver`, `Drained`, `Close` | `cancel`, `logout`, `aclose` and the handlers of BrowserAuth that call them |
| `Serve`, `Signed` (external) | the service answers a request; the user signs or refuses |

### ForumWrites

A call is a tool call: a confirmed post or reply, or a connect, disconnect,
status or aclose beside it. The pipe is that of `WorkerIpc`, with the forum
daemon's own lock (`queue`); `task[w]` is where the daemon's command loop is,
`wire` what it has sent, `posts` what Placera has published, by call.

| Action | Code |
|---|---|
| `Begin`, `Enter`, `Reads`, `NoAnswer`, `Cancel`, `Stopped` | the tools, the broker's `forum_post`, `forum_reply`, `connect_forum`, `disconnect_forum`, `forum_status` and `aclose`, `_command` and `_retire_uncertain_worker` |
| `Take`, `Prepared`, `GiveUp`, `Answered` | the daemon and `ForumAPIClient`: the read that resolves the instrument or the parent, one POST, its answer or its loss |
| `SignedOut`, `Page`, `Exit`, `Reaped` | the session dropped after a 401 or 403, the forum's login page and the ends of the process |
| `Publish`, `Refuse` (external) | what Placera does with a POST, answered or not |

### CredentialStore and SharedRegister

`Tasks` run in `Processes` (`Home`); an operation waits for its process's
`asyncio.Lock` (`queue`), takes the file lock (`flock`), makes its backend calls
one by one ("get"; "set", "saved"; "current", "remove", "remaining"), and
releases. A backend call may take effect and then raise, a process may be killed
at any await, and something else may change the credential (`Outside`).
`SharedRegister` has operations that take effect at one moment; `Phase` and
`Seen` map to it. `trouble` records a failure or interference while the
operation ran, which alone entitles it to report an error.

### LeveragedScreen, OptionsScreen and Screens

`LeveragedScreen` follows one snapshot: `cursor` is `execution_next_index`,
`times` the entries of `execution_products`. A call is at "discover", "batch"
(quotes of the next batch), "refresh" (the final refresh of the top) or
"rescreen". `Create`, `Screened`, `PageCall`, `PageExpired`, `PageBehind` and
`PageInList` are the tool's entry and the branches of the cursor; `BatchFetched`,
`BatchFails`, `TopRefreshed`, `Rescreened` what follows each await; `Abort` a
failed discovery or refresh; `Expire` the snapshot store's clock.

`OptionsScreen` has the chain upstream, which may change between any two requests,
the types still asked for (`asking`), the pairs of a type and an expiry not yet
read to their end (`todo`, at most `Concurrent` at a time) with the `offset` each
has been read to, the frozen snapshot and the cached ranking. A contract stands
for a row of the matrix, the call and the put of a strike. `Screen`, `Discovered`
(the first request), `TypeAnswered` (one of the gathered requests for the expiries
of a type), `ReadPage` (one turn of `_scan_expiry`'s loop: one request for the rows
from the offset, with the end rules on what came and on the total, if there is
one) and `Fail` are `screen_options`. `gone` and `shifted` are history: the
contracts that left the chain since the first answer, and the pairs that lost a
row already read while the rest was still to come. `NextPageCall`, `GetPage`, `EnrichPage`, `Enriched`,
`RankPage`, `ChainRanked` and `ChainGone` are `enrich_option_snapshot` in its
three modes. `Screens` puts both under one specification: `screen` says which of
the two a behaviour follows.

Left out: filters and the formulas of the rankings, functions of one product.

### PagedScan and InstrumentCatalog

`PagedScan` is a list that Avanza keeps in order and that may change between two
pages, and the three programs that read it: the catalog's refresher (side by
side if the first page is full and there is a total, otherwise one after the
other), the feed screen (pages of the size the first
one had, side by side) and the options screen (one expiry until a short page).
The service may give fewer rows than asked (`cap`) and may not report a total.
`First`, `Fetch`, `NextPage`, `PageFails` are one page each; `Spreads` and
`IsLast` are what the three decide after the first; `Accepts` is the
test for completeness at the end.

`InstrumentCatalog` extends it with the SQLite file. `Begin`, `Commit`, `Die`
are the refresher's transaction and its death; `Check`, `Count`, `Find` the
server's freshness test and its two reads, each in a transaction of its own.

## 4. Runs

| Run | Instance | Result |
|---|---|---|
| `broker` | 3 calls, 2 workers, 2 logins, either mode, any call cancelled any number of times, symmetry | 1 560 537 states, all properties hold |
| `broker_live` | 2 calls of any method, `status` included, cancelled likewise, no symmetry | 147 095 states, the callers' contract is refined, every call ends |
| `page` | 2 attempts, 2 requests, both owners, symmetry | 285 110 states, all invariants hold |
| `page_live` | 2 attempts, 1 request, both owners | every attempt ends |
| `persistent_removed` | 3 calls, `health_status` among them | violated: see 7 |
| `governor` | 3 requests on 2 slots, 2 sessions, 2 attempts of one request and 1 of the others, all three users | 334 509 states; an ended session is sent by its last reader only, the other properties hold, every request ends |
| `daemon` | 2 sessions; lifetimes of 1, 2 and 5 ticks, commands of up to 2 | 98 000 states; a session outlives its limits by the slack only, and ends |
| `attempt` | both services, 2 polls beside start, restart and the cleanup | 145 000 states; nothing is kept or returned after the cleanup, which ends |
| `forum` | 4 calls, 1 daemon, symmetry | 472 000 states; one post per confirmed call, retries are safe |
| `store` | 2 processes, 3 tasks, kills, backend failures, interference | 54 000 states; refines the register, every operation ends |
| `screens` | leveraged: 2 clients, up to 5 products in batches of 2; options: 3 readers, 3 contracts of 2 types with a pair each, read a row at a time, pages of 2, 1 change | 303 153 states; complete rankings and chains, one ranking per reader, scans complete |
| `catalog` | lists of up to 6 items, pages of 2, 2 changes, an earlier catalog or none | 339 000 states; stable scans are whole, losses are noticed |

Why the bounds are enough. Three calls are one that starts the daemon, one that
is cancelled or times out, and one that could read what the second left behind;
two workers are the retired one and its successor. In persistent mode three
calls are a market daemon, a disconnect and an account read; two logins make a
stale credential and its replacement distinguishable. Two attempts are the
superseded one and the current one; two requests are one suspended inside
`start`, `collect` or `disconnect` and one that changes the state under it.
Three requests on two slots are one that is under way, one behind it and one
that has to queue for a slot; two sessions are a stale one and its successor.
One tick of interval and two of cooldown make a 429 outlast the interval. One
request (`Retrying`) may be tried a second time, so that it queues again behind the
others; three attempts of all three make an instance too large for a run that also
checks liveness.

In `daemon` two sessions are one and the login that replaces it within a turn;
five ticks let the idle limit pass, or be renewed twice, before the absolute one;
a command of two ticks is longer than a wait. In `attempt` two polls overlap each
other, a restart and the cleanup, which is every pair the page can make. In
`forum` four calls are two writes, and two that change what they find (a login, a
status, a shutdown); a second daemon would only add that the first is gone. In
`store` three tasks in two processes are two that share the in-process lock and
one that shares only the file lock. In `screens` five products in batches of two
give full batches and a cut one, and two clients every overlap of a batch with
another; three readers are one screening or ranking call and two that page.
In `catalog` six items in pages of two make three full pages, so that a change
can fall before, between and behind the pages already read; two changes can
cancel each other out in the total.

The persistent methods in `broker` are `LockingMethods`, those that take the
operation lock or close the broker; `status`, which takes none and is not called
by the server's tools, is in `broker_live` only. `broker` has the constraint
`Uncrossed`: a behaviour is followed to the first write of a loose worker, after
which two of the three properties of persistent mode claim nothing; the theorems
have no such constraint and no bound on methods.
In `persistent_removed` nobody cancels, so that what it shows is `health_status`.

No run checks deadlock: a behaviour in which every call has returned, or the
worker has exited, is a legitimate end.

## 5. Fairness

- `WorkerIpc`: `WF` of each call's progress (`wait_for` has a timeout, so a
  missing answer is itself a step), of the end of a terminated process
  (`_stop_process` kills) and of reaping. Not of the worker's answers.
- `BrowserAuth`: timers fire, every upstream request ends because it has a
  timeout, a free lock is granted (`SF`, because asyncio's FIFO lock serves
  each waiter although others come and go). No fairness of page requests or
  of commands: nobody has to click.
- `PersistentAuth`: as the first, with `SF` for calls that wait for a lock, and
  `WF` of `Stops`, the death of a worker that has been told to stop. None of the
  user, of cancellations, or of other deaths.
- `RequestGovernor`: `WF` of each request's steps, the end of a client it closes
  among them (httpx has a read timeout, the
  broker answers every call, and its locks are first come, first served), of the
  worker's own task and of time. Not of the tools' calls, of the deadline or of
  session changes.
- `SessionDaemon`: `WF` of the loop and of the command in hand, `SF` of time,
  because a command may be too short for the clock to advance in it. None of the
  page, of the commands or of the parent's death.
- `AttemptClient`: `WF` of each caller's progress; a request without an answer
  ends through its timeout (`Fail`), so the service need not be fair, nor the user.
- `CredentialStore`: `SF` of taking the two locks (`flock` blocks until the lock
  is free, but in no order that is promised; on Windows `msvcrt.locking` retries
  with a pause, and others may hold the lock in between), `WF` of every step of a holder,
  failures not forced.
- `Screens`: `WF` of a call's step after its await (requests have timeouts); `SF`
  of a next page being asked for, as the tool's answer tells the client to, and of
  a batch being fetched. `ScanCompletes` is about the cursor: clients who keep
  paging reach the end although calls overlap and batches fail, as long as they do
  not fail for ever. It does not say that clients keep paging.
- `InstrumentCatalog`: `WF` of answers, failures among their alternatives. Changes
  of the list, the refresher and the reader are not forced.

## 6. Proofs

Eight modules hold theorems. Each theorem is for all values of the constants that
satisfy the named assumptions of the modelled module, and between them they state
every safety invariant and every action property of the runs that pass. An
invariant is proved in three facts, that the initial states satisfy it, that every
step keeps it, and that it implies the property; what follows says which
invariant, and why the property alone is not inductive.

### BrokerProofs

The broker of each session mode, and both under `Broker`.

Memory-only and one-shot sessions, from `SentinelAssumption` (null values are not
calls or workers) and `FrameAssumption` (nor is the null frame a frame):

- `TypeCorrect`: `TypeOK` is invariant. It is not inductive alone: that a call
  at "reply" or "stopping" has a process, and that a call that has begun has a
  method, is `PeerType`, and `TypeInv` adds it.
- `AnswersAreOwn`, `PipesQuiet`, `NoStray`: the three properties of the pipe
  follow from one invariant, `IInv == TypeInv /\ Discipline`. The daemon lock is
  held exactly by the call in its critical section (`LockInv`); that call's
  process is the registered one, or one that no longer runs (`PeerInv`); the two
  pipes of a process hold at most one command or frame together (`SingleInv`);
  what the registered daemon's pipes hold belongs to the call that waits for a
  reply (`OwnedInv`). To know that the next frame is the right one, one has to
  know what else may be in the pipe.
- `ReadsGuarded`: no account read is queued at a worker whose disconnect
  confirmation is open. It needs `FreshInv`: a frame in the pipe that reports no
  open confirmation is still true, because the command that would open one
  cannot overtake it.
- `StaysClosed`: `ClosedForGood`. `aclose` closes the broker before it waits for
  the lock, and the lock is handed out in the order it was asked for. `QueueInv`
  says that no connect stands behind an `aclose` in the line, `ClosingCall` that
  none is past the line when an `aclose` has had its turn.
- `ContractKept`: `Spec => KeepsContract`, the refinement of `CallContract`. A
  call's own command is written once at most, to the process the call is left
  with (`PipeInv`, `OwnInv`), so there is at most one answer to it, in a pipe or
  in the call's hands, and once a call has failed nobody is left who could carry
  its command out; a cancelled call is the exception, and the contract's. Each
  step is then a step of the contract or leaves it alone.

Persistent sessions, from `PersistentAssumption` alone: all methods, any number of
calls, logins and cancellations:

- `Exclusive`, `RemovalLasts`, `WritesOwn`: from `Inv == Structure /\ Data`.
  `Structure` says who is in whose way: a call holds the lock from its grant to
  its end (`CallInv`); a worker that is alive and not loose is the registered UI
  worker or market daemon, or somebody waits for it or stops it (`WorkerInv`);
  beside a disconnect worker none of these works, nor does the holder of the lock
  mean to (`ExclusiveInv`). So at most one worker that is not loose is between its
  load and its write (`OneAtWork`), and `Data`, that until a loose one has written
  what it holds is what is stored (`StoreInv`), survives every step. The theorems
  need `Structure` for the other calls, not only for the one that moves: a spawn
  keeps `ExclusiveInv` because the spawner has stopped the market daemon, which is
  a fact about its earlier steps. A disconnect worker whose caller was cancelled
  twice is not loose: as long as it is registered and alive, the test behind the
  lock keeps the reads out, which is the second half of `WorkerInv`.

The composition: `BrokerKeepsContract` and `BrokerKeepsRemoved`. A behaviour of
`Broker` is one of each mode's specification, with the other mode's variables
where they started (`EitherMode`), so the theorems above carry over.

### BrowserAuthProofs

From `TaskAssumption` (requests, attempts, the owner and `None` are different
things). One invariant, `Inv`, for any number of requests of the page and of
attempts:

- where each task can be and what it can have there (`Labels`);
- `LockInv`: at most one task awaits inside `self._lock`, and what it tested
  before its await, that its attempt is the current one, still holds after it;
- `StartInv`: an attempt that is being started belongs to the request that
  starts it; no poll, timer or session has it yet;
- `AttemptInv`: the current attempt is being started or its timer is armed or
  finishing it, nobody has cancelled it, and it is not the session.

`EveryAttemptTimed`, `NeverRevived`, `ConfirmsSession` and `SessionIsStored`
follow. None of the four is inductive: that a poll which finds its order complete
may install it rests on the comparison it makes under the lock, and that the
comparison means something on `StartInv`, since an attempt may be replaced while
its first request is out.

### RequestGovernorProofs

For any number of requests, intervals and limits, from the assumptions of
`RequestGovernor`:

- `ClientStaysOpen`: `GovernorInv`. `OpenUnderRequests` says nothing of locks;
  that nobody closes a client under a request rests on who is first in the line
  of `_client_lock`: the request itself, or the batch it belongs to (`SendInv`,
  `BatchInv`). A step of one task takes that place from nobody else
  (`FirstStays`), although it may leave the middle of a line, which is a fact
  about removing an entry from a sequence (`RemoveFirstKeeps`, `Smallest`).
- `EndedSentOnce`: `LateInv`. Between the moment a session is read from the
  provider and the moment it is sent lies the end of an earlier client (or, for
  the paths of a batch, the slots and the pacing). Whoever is there holds the
  client lock, so when a session ends there is one task at most that will still
  send it; a session that was ever replaced does not come back (`OverForGood`),
  and the next holder of the lock reads the provider again and drops the client it
  finds.
- `PublicPaced`: an action property, from `PaceInv`: what is left of the pacing
  and what has passed since the last public request make at least the interval.

### SessionDaemonProofs

From `DaemonAssumption` (lifetimes and durations are positive, the idle one the
shorter): `DaemonTypes`, `AbsoluteLimit`, `IdleLimited`. A timer of the loop lags
behind the true age by at most one wait and one command, and the session is
dropped at the first turn that finds it too old; the slack in the properties is
the sum. `PaceInv` relates each timer to the true age for each place of the loop.

### CredentialStoreProofs

From `HomeAssumption`: `StoreTypes`, and `RegisterKept`, `Spec => KeepsRegister`,
the whole refinement of `SharedRegister`. The file lock is held exactly between
its acquisition and its release (`LockInv`); an operation has had its effect from
the first backend call that wrote or read (`StageInv`); it has an error to report
only if there was trouble (`ResultInv`). Each step is then a step of the register
or leaves it alone.

### ForumProofs

The BankID client, from `CallersAssumption`:

- `Forgotten`, `NothingReturned`: from the moment the attempt is cancelled every
  request of its other calls that is still out is one the cleanup waits for, and
  afterwards none is out (`DrainInv`); only the task that took the attempt out of
  BrowserAuth cleans up (`OwnerInv`). For the Avanza client; the forum's has no
  flag and makes neither promise.

The forum's calls, from `SentinelAssumption` of `ForumWrites`:

- `OnePost`: a confirmed call is a token that is in one place only: the command
  in a pipe, the daemon's task, the POST on the wire, the post. `Token` says that
  these exclude each other, and no step makes a second one of it.
- `ReceiptOwn`, `RetrySafe`: a frame carries no number, so that a caller reads its
  own receipt rests on everything else that could be in the pipe. `Discipline`
  says that with the daemon's lock free nothing is under way in the registered
  daemon, and with the lock taken only what its holder has asked for (`LockInv`,
  `PeerInv`, `SlotInv`, `OneInv`); that a frame or the daemon's result is for the
  call at its turn, and a receipt in it is of a post that exists (`TaskInv`,
  `FrameInv`); and that of a call that is told to sign in nothing is left, in a
  pipe, in a task or on the wire (`EndInv`, `Gone`).

### ScreensProofs

The leveraged screen, from `ScreenAssumption`:

- `ScreenTypes`, `RankingComplete`, `TriedOnce`: whoever advances the cursor has
  tried the products up to it (`TriedInv`), and every call works from a start it
  read from the cursor. `OnceInv` is added for calls that never overlapped.

The options screen, from `OptionsAssumption`:

- `ChainComplete`: while one call screens no other does (`AloneInv`); while the
  types are asked, what has stayed is of a known pair or of a type that is still
  asked for (`KnownInv`); while the pairs are read it has been found, or its pair
  has shifted, or its row lies at or behind the offset of what is still to be read
  (`FoundInv`). A contract's row is how many stand before it (`BeforeBounds`); a
  change moves it up only if one of those is taken off, and if that puts it before
  the offset, the one taken off had been read (`BeforeChanges`). That a pair is left
  with nothing unread is a count: a page that is taken for the last ends where the
  rows end.
- `OneRanking`: `PagesInv`. A client that pages through the frozen list has a
  prefix of it (`ModeInv`); one whose first page of a ranking came while nobody
  ranked has a prefix of the ranking that is cached, and nobody is ranking now
  (`CalmInv`), because a call that would rank again has to find the cache empty.
  A prefix of a list without repetition has no contract twice.

`ScreensKeep`: the composition `Screens` keeps all five.

### CatalogProofs

From `ScanAssumption` and `CatalogAssumption`; the list is any finite set of
natural numbers, which stand for the order of the names.

- What a page holds is said with places: an item's place is how many come before
  it, and every place of a list is taken by one item (`PlacesAreTaken`, a
  bijection), so a page is short only at the end of the list (`PageRows`).
- `StableWhole`: `StableInv`. Of pages side by side, what is missing is on the
  pages that are still out, and no two share a row (`Spreading`; their offsets are
  multiples of the first page's rows); of one page after the other, the rows so
  far are the front of the list (`Following`).
- `ShrinkingSeen`: rows that come once are counted once (`CountInv`), and what has
  come was listed at the first page (`ShrinkInv`). As many rows as the list had,
  none twice and none new, are the list: a counting argument that says nothing of
  which page lost what.
- `ServedWhole`: `CatalogInv`. The file has the earlier rows or the collected ones,
  and while no commit has come between, the count and the rows the screen has read
  are of the same one of the two.

### Model-checked only

Everything about liveness (`EveryCallEnds`, `EveryPersistentCallEnds`,
`AttemptsEnd`, `EveryRequestEnds`, `SessionEnds`, `CleanupEnds`, `OperationsEnd`,
`ScanCompletes`, `ScanEnds`), which is out of the provers' reach, as is
`ENABLED`; and the finding `RemovedCredentialStaysOut`, which is false. No module
uses a recursive operator.

The type invariants of `PersistentAuth`, `BrowserAuth`, `RequestGovernor`,
`AttemptClient`, `ForumWrites`, `OptionsScreen`, `PagedScan` and
`InstrumentCatalog` are stated for the reader and in no run's list: a run spends
its properties on what could be wrong. The proofs carry the parts they need of
them (`Types`, `Shapes`, `ScanTypes` and so on).

## 7. Disagreements found

One is kept as a run that must fail:

- `persistent_removed`: `health_status` checks for a disconnect in progress only
  before it waits for the lock; its worker can put a removed credential back.

The others are configurations to run by hand; each finds its property violated
in a few seconds (`tlc -config <file> <module>`):

| Configuration (module) | Property | What happens |
|---|---|---|
| `MCBrowserAuthServed.cfg` (`MCBrowserAuth`) | `WaitingPageIsServed` | a late `approve` schedules the listener's stop after a reconnect has cancelled it; the page that waits for the user goes away |
| `MCBrowserAuthOneAttempt.cfg` (`MCBrowserAuth`) | `OneAttempt` | `open_disconnect_browser` without a session forgets a running attempt |
| `MCBrowserAuthRevocation.cfg` (`MCBrowserAuth`) | `RevocationReported` | `_run_ui` reports "disconnected" before the logout is known to have failed |
| `MCRequestGovernorSpaced.cfg` (`MCRequestGovernor`) | `StartsSpaced` | the request interval, and the cooldown after a 429, are waited for before the broker and the client lock are, so requests that queue there leave together |
| `MCRequestGovernorCleared.cfg` (`MCRequestGovernor`) | `LeftClientIsCleared` | when one of the four reads of a portfolio snapshot fails, the ones still waiting for the pacing make a new authenticated client after the command's client has been cleaned up |

Seen while modelling, and in the models, without a property of its own:

- Two calls that rank the same options snapshot at a time give their readers
  pages of two rankings; tools/futures_forwards.py speaks of a frozen ranking.
  `PagesOfOneRanking` excepts readers whose first page came while a call ranked.
- The pages of a leveraged scan that is not complete are cut from a list that is
  sorted anew on every call (tools/leveraged.py:144 tells the client to page).
- The final refresh of the leveraged screen runs twice when two calls finish side
  by side, and a refresh that failed still counts as completed.
- A `sqlite3.Error` of the second catalog read is not caught
  (leveraged_screen_service.py:989), while an unreadable catalog at the first
  falls back to the feed.
- The options screen takes a page shorter than it asked for as the last one; if
  the service caps pages below 100 rows, the chain is cut and still reported as
  complete (options_screen_service.py:458). `StableScanIsWhole` excepts it.
- A caller that is cancelled a second time, while the broker waits for a worker it
  has signalled, releases the operation lock under that worker (broker.py:783):
  in persistent mode it may still save what it loaded. The properties except such
  workers (`loose`).
- The options screen reads each pair by offset (options_screen_service.py:579). A
  row that leaves the list after it was read moves the next ones up, one of them
  is never read, and the snapshot is complete all the same. `ChainIsComplete`
  excepts such a pair (`shifted`); without the exception TLC finds the loss.
- A session that is replaced while the client of an earlier one is being closed is
  sent once after its end (base.py:419), by the request that had read it.
- A gathered request that fails leaves its siblings running unobserved.

## 8. Not modelled

Parsing and projection of payloads, filters and formulas of the rankings,
wording, page markup, data models, prompts, resources, Windows scripts and
benchmarks: no state, or no decision that depends on an order of steps. The
endpoint policy is a set of fixed tables; a model would repeat them. The account
reads are requests of `RequestGovernor` and a projection. Market data and search
services are thin wrappers of requests.

The backoff of the market delegate per family (a timestamp) and the public
gateway (key cache, rate window) keep state and are left for later. Two brokers
on one OS credential are covered in two halves only: `CredentialStore` has the
processes, `PersistentAuth` the intervals of one broker, whose lock is what keeps
its workers apart; nothing keeps two brokers' intervals apart, and no document
says that anything should. Memory and time limits of the operating system are
not modelled.
