---------------------------- MODULE RequestGovernor ----------------------------
(***************************************************************************)
(* AvanzaClient (src/avanza_mcp/client/base.py): every upstream request    *)
(* takes a slot of _request_semaphore, passes the pacing under             *)
(* _request_pace_lock, and, when it may carry the session, is sent under   *)
(* _client_lock.  A batch holds _client_lock around its requests instead.  *)
(*                                                                         *)
(* user names who owns the client: the MCP server, whose tools make        *)
(* requests as they please and whose session is reached through the broker *)
(* (the delegate); a worker that makes a client for one command and leaves *)
(* it afterwards ("transient"); or the market worker, which keeps its      *)
(* client from one command to the next.                                    *)
(*                                                                         *)
(* Time is counted in ticks; deadlines are kept as the ticks left to them. *)
(***************************************************************************)
EXTENDS Naturals, Sequences, SequencesExt, FiniteSets

CONSTANTS
  Requests,      \* tasks that make one request each
  Owner,         \* the worker's own task, which serves commands
  Sessions,      \* session objects the provider may return
  None,          \* Python's None
  MaxInFlight,   \* max_in_flight_requests
  MaxRetries,    \* max_retries: attempts, the first included
  Retrying,      \* bound: the requests that have more than one attempt
  MinInterval,   \* min_request_interval, in ticks
  Jitter,        \* bound of request_jitter, in ticks
  Cooldown       \* longest 429 cooldown, in ticks

ASSUME GovernorAssumption ==
  /\ None \notin Sessions
  /\ Owner \notin Requests
  /\ MaxInFlight \in Nat \ {0}
  /\ MaxRetries \in Nat \ {0} /\ Retrying \subseteq Requests
  /\ MinInterval \in Nat /\ Jitter \in Nat /\ Cooldown \in Nat

VARIABLES
  user,          \* "server", "transient" or "market"
  kind, pc,      \* of request r: what it is, and the await it is at
  tries,         \* attempts made of r
  route, on,     \* how r is being sent, and on which authenticated client
  outcome,       \* how r ended
  owner, group,  \* where the owner is, and the requests of its command
  line,          \* line[l]: who holds or waits for lock l, in arrival order
  session,       \* what session_provider() returns
  unused,        \* session objects not handed out yet
  authSession,   \* _authenticated_session
  client, made,  \* number of the open _authenticated_client (0: None), and of
                 \* those ever made
  chosen,        \* the session for which the holder of _client_lock makes one
  pace,          \* ticks to _next_request_start
  cool,          \* ticks to _rate_limit_until
  wake,          \* ticks left of the pacing sleep
  sinceStart,    \* ticks since a request was last sent upstream,
  sincePublic,   \*   and since one that never waits for the session was
  late           \* history: late[s], who sent session s after it had ended

requestVars == <<kind, pc, tries, route, on, outcome>>
ownerVars   == <<owner, group>>
clientVars  == <<authSession, client, made, chosen>>
sessionVars == <<session, unused, clientVars>>
paceVars    == <<pace, cool, wake>>
sentVars    == <<sinceStart, sincePublic, late>>
vars ==
  <<user, requestVars, ownerVars, line, sessionVars, paceVars, sentVars>>

\* _request: get_public, get and get_authenticated (or their post form);
\* request_authenticated; one path of request_authenticated_batch;
\* get_authenticated_order_depth_snapshot.
PipelineKinds == {"public", "market", "require"}
Kinds == PipelineKinds \union {"account", "batch", "depth"}

Locks == {"slot", "pace", "delegate", "client"}
Capacity(l) == IF l = "slot" THEN MaxInFlight ELSE 1

\* asyncio's Lock and Semaphore serve their waiters in the order they came.
Holds(l, t) ==
  \E i \in 1..Capacity(l) : i <= Len(line[l]) /\ line[l][i] = t
Joined(l, t)   == [line EXCEPT ![l] = Append(@, t)]
Moved(t, l, m) == [line EXCEPT ![l] = RemoveFirst(@, t), ![m] = Append(@, t)]
Without(t)     == [l \in Locks |-> RemoveFirst(line[l], t)]

Larger(a, b) == IF a > b THEN a ELSE b
Less(n)      == IF n = 0 THEN 0 ELSE n - 1

Init ==
  /\ user \in {"server", "transient", "market"}
  /\ kind = [r \in Requests |-> "none"]
  /\ pc = [r \in Requests |-> "idle"]
  /\ tries = [r \in Requests |-> 0]
  /\ route = [r \in Requests |-> "none"]
  /\ on = [r \in Requests |-> 0]
  /\ outcome = [r \in Requests |-> "none"]
  /\ owner = "idle" /\ group = {}
  /\ line = [l \in Locks |-> <<>>]
  /\ IF user = "server" THEN session = None ELSE session \in Sessions
  /\ unused = Sessions \ {session}
  /\ authSession = None /\ client = 0 /\ made = 0 /\ chosen = None
  /\ pace = 0 /\ cool = 0 /\ wake = 0
  /\ sinceStart = MinInterval /\ sincePublic = MinInterval
  /\ late = [s \in Sessions |-> {}]

-----------------------------------------------------------------------------
(* The steps of one request.                                               *)

\* The server starts a request whenever a tool calls for one.
Begin(r, k) ==
  /\ user = "server" /\ k \in PipelineKinds
  /\ pc[r] = "idle"
  /\ kind' = [kind EXCEPT ![r] = k]
  /\ pc' = [pc EXCEPT ![r] = "slot"]
  /\ tries' = [tries EXCEPT ![r] = 1]
  /\ line' = Joined("slot", r)
  /\ UNCHANGED <<user, route, on, outcome, ownerVars, sessionVars, paceVars,
                 sentVars>>

\* async with self._request_semaphore: await self._pace_request_start()
TakeSlot(r) ==
  /\ pc[r] = "slot" /\ Holds("slot", r)
  /\ pc' = [pc EXCEPT ![r] = "pace"]
  /\ line' = Joined("pace", r)
  /\ UNCHANGED <<user, kind, tries, route, on, outcome, ownerVars,
                 sessionVars, paceVars, sentVars>>

\* Variant: the cooldown is forgotten.
NotBeforePaceOnly == pace
NotBefore == Larger(pace, cool)

\* The delay is computed once per turn of the loop and slept off.
PaceSleep(r) ==
  /\ pc[r] = "pace" /\ Holds("pace", r)
  /\ wake = 0 /\ NotBefore > 0
  /\ wake' = NotBefore
  /\ UNCHANGED <<user, requestVars, ownerVars, line, sessionVars, pace, cool,
                 sentVars>>

\* A session that has been current, and will not be again.
Over(s) == s \in Sessions /\ s \notin unused \union {session}

\* A request goes upstream: anonymously (c = 0) or through client c, which was
\* made for session s.
Sent(r, c, s) ==
  /\ pc' = [pc EXCEPT ![r] = "sent"]
  /\ route' = [route EXCEPT ![r] = IF c = 0 THEN "public" ELSE "auth"]
  /\ on' = [on EXCEPT ![r] = c]
  /\ sinceStart' = 0
  /\ sincePublic' = IF kind[r] = "public" THEN 0 ELSE sincePublic
  /\ late' = IF c # 0 /\ Over(s)
             THEN [late EXCEPT ![s] = @ \union {IF kind[r] = "batch" THEN Owner ELSE r}]
             ELSE late

\* A request ends, leaving every lock.
Ended(r, o) ==
  /\ pc' = [pc EXCEPT ![r] = "done"]
  /\ outcome' = [outcome EXCEPT ![r] = o]
  /\ route' = [route EXCEPT ![r] = "none"]
  /\ on' = [on EXCEPT ![r] = 0]
  /\ line' = Without(r)

\* The pacing loop ends.  A public request is sent in the same turn of the
\* event loop, and so is a path of a batch; a request that may carry the
\* session waits for the broker or for _client_lock first.
Paced(r, batchLock) ==
  /\ pc[r] = "pace" /\ Holds("pace", r)
  /\ wake = 0 /\ NotBefore = 0
  /\ \E j \in 0..Jitter : pace' = MinInterval + j
  /\ \/ /\ kind[r] = "public" \/ (kind[r] = "batch" /\ ~batchLock)
        /\ Sent(r, IF kind[r] = "batch" THEN client ELSE 0, authSession)
        /\ line' = [line EXCEPT !["pace"] = RemoveFirst(@, r)]
     \/ /\ kind[r] \in {"market", "require"}
        /\ pc' = [pc EXCEPT ![r] = "delegate"]
        /\ line' = Moved(r, "pace", "delegate")
        /\ UNCHANGED <<route, on, sentVars>>
     \/ /\ kind[r] \in {"account", "depth"} \/ (kind[r] = "batch" /\ batchLock)
        /\ pc' = [pc EXCEPT ![r] = "client"]
        /\ line' = Moved(r, "pace", "client")
        /\ UNCHANGED <<route, on, sentVars>>
  /\ UNCHANGED <<user, kind, tries, outcome, ownerVars, sessionVars, cool,
                 wake>>

\* Variant: a path of a batch takes _client_lock too, which the batch holds.
PaceEndsLocking(r) == Paced(r, TRUE)
PaceEnds(r) == Paced(r, FALSE)

\* The broker answers a delegated request: with a response, with a 401, or
\* with None, for "no session, or not this way".
DelegateAnswers(r, answer) ==
  /\ pc[r] = "delegate" /\ Holds("delegate", r)
  /\ \/ answer = "response" /\ Ended(r, "ok")
     \/ answer = "expired" /\ Ended(r, "failed")
     \/ answer = "none" /\ kind[r] = "require" /\ Ended(r, "failed")
     \/ /\ answer = "none" /\ kind[r] = "market"
        /\ pc' = [pc EXCEPT ![r] = "client"]
        /\ line' = Moved(r, "delegate", "client")
        /\ UNCHANGED <<outcome, route, on>>
  /\ UNCHANGED <<user, kind, tries, ownerVars, sessionVars, paceVars,
                 sentVars>>

MakeClient(s) == authSession' = s /\ made' = made + 1 /\ client' = made + 1

\* Variant: a client that is there is used, whatever session it was made for.
EnsureClientCached ==
  IF client # 0
  THEN UNCHANGED clientVars
  ELSE MakeClient(session) /\ UNCHANGED chosen

\* _ensure_authenticated_client_locked: a client made for another session object
\* is dropped, and its end awaited before there is a new one.
EnsureClient ==
  \/ session = authSession /\ UNCHANGED clientVars
  \/ session # authSession /\ client = 0 /\ MakeClient(session) /\ UNCHANGED chosen
  \/ /\ session # authSession /\ client # 0
     /\ authSession' = None /\ client' = 0 /\ chosen' = session
     /\ UNCHANGED made

\* Behind _client_lock.  With a session the lock is kept while the request is
\* under way; without one a market request is sent anonymously.
SendLocked(r) ==
  /\ pc[r] = "client" /\ Holds("client", r)
  /\ \/ /\ session # None
        /\ EnsureClient
        /\ IF client' = 0
           THEN /\ pc' = [pc EXCEPT ![r] = "close"]
                /\ UNCHANGED <<route, on, sentVars>>
           ELSE Sent(r, client', authSession')
        /\ UNCHANGED <<outcome, line>>
     \/ /\ session = None /\ kind[r] = "market"
        /\ Sent(r, 0, None)
        /\ line' = [line EXCEPT !["client"] = RemoveFirst(@, r)]
        /\ UNCHANGED <<clientVars, outcome>>
     \/ /\ session = None /\ kind[r] # "market"
        /\ Ended(r, "expired")
        /\ UNCHANGED <<clientVars, sentVars>>
  /\ UNCHANGED <<user, kind, tries, ownerVars, session, unused, paceVars>>

\* await previous.aclose() is over, or failed: the session it was read for may
\* have ended in the meantime.
Closed(r) ==
  /\ pc[r] = "close"
  /\ chosen' = None
  /\ \/ /\ MakeClient(chosen)
        /\ Sent(r, client', chosen)
        /\ UNCHANGED <<outcome, line>>
     \/ /\ Ended(r, "failed")
        /\ UNCHANGED <<authSession, client, made, sentVars>>
  /\ UNCHANGED <<user, kind, tries, ownerVars, session, unused, paceVars>>

\* _note_rate_limit: Retry-After, or the default when it is absent.
NoteRateLimit == \E d \in 0..Cooldown : cool' = Larger(cool, d)

Answers == {"ok", "unauthorized", "limited", "retryable", "other"}

\* stop_after_attempt(self._max_retries)
Attempts(r) == IF r \in Retrying THEN MaxRetries ELSE 1

\* The pipeline's reaction to an answer, in _request: a timeout, a network
\* error and a 5xx are tried again after a pause.
PipelineAnswer(r, a) ==
  /\ kind[r] \in PipelineKinds
  /\ \/ /\ a = "retryable" /\ tries[r] < Attempts(r)
        /\ pc' = [pc EXCEPT ![r] = "retry"]
        /\ route' = [route EXCEPT ![r] = "none"]
        /\ on' = [on EXCEPT ![r] = 0]
        /\ line' = Without(r)
        /\ UNCHANGED <<outcome, cool>>
     \/ /\ ~(a = "retryable" /\ tries[r] < Attempts(r))
        /\ Ended(r, IF a = "ok" THEN "ok" ELSE "failed")
        /\ IF a = "limited" THEN NoteRateLimit ELSE UNCHANGED cool
  /\ UNCHANGED session

\* request_authenticated hands any response to its caller, which keeps a 401
\* apart from the other failures; a batch has None for a path that failed.
SessionAnswer(r, a) ==
  /\ kind[r] \in {"account", "batch"}
  /\ Ended(r, CASE a = "unauthorized" -> "expired"
                [] a = "ok" \/ kind[r] = "batch" -> "ok"
                [] OTHER -> "failed")
  /\ UNCHANGED <<cool, session>>

\* get_authenticated_order_depth_snapshot: a 401 or 403 invalidates the
\* session under the lock, a 429 always counts with the default cooldown.
DepthAnswer(r, a) ==
  /\ kind[r] = "depth"
  /\ Ended(r, CASE a = "ok" -> "ok"
                [] a = "unauthorized" -> "expired"
                [] OTHER -> "failed")
  /\ cool' = IF a = "limited" THEN Larger(cool, Cooldown) ELSE cool
  /\ session' = IF a = "unauthorized" THEN None ELSE session

\* Avanza answers, or the transport gives up.
Answer(r, a) ==
  /\ pc[r] = "sent"
  /\ PipelineAnswer(r, a) \/ SessionAnswer(r, a) \/ DepthAnswer(r, a)
  /\ UNCHANGED <<user, kind, tries, ownerVars, unused, clientVars, pace,
                 wake, sentVars>>

\* The pause of tenacity is over; the next attempt queues like the first.
Retry(r) ==
  /\ pc[r] = "retry"
  /\ pc' = [pc EXCEPT ![r] = "slot"]
  /\ tries' = [tries EXCEPT ![r] = @ + 1]
  /\ line' = Joined("slot", r)
  /\ UNCHANGED <<user, kind, route, on, outcome, ownerVars, sessionVars,
                 paceVars, sentVars>>

\* asyncio.timeout(request_timeout) ends a pipeline request wherever it is, as
\* does the cancellation of the tool call.
Interrupt(r) ==
  /\ kind[r] \in PipelineKinds /\ pc[r] # "done"
  /\ Ended(r, "failed")
  /\ wake' = IF pc[r] = "pace" /\ Holds("pace", r) THEN 0 ELSE wake
  /\ chosen' = IF pc[r] = "close" THEN None ELSE chosen
  /\ UNCHANGED <<user, kind, tries, ownerVars, session, unused, authSession,
                 client, made, pace, cool, sentVars>>

-----------------------------------------------------------------------------
(* The worker's own task: commands, and leaving the client.                *)

\* A command without a session ends before it asks the client.
StartGroup(S, k) ==
  /\ user # "server" /\ owner = "idle" /\ session # None
  /\ S # {} /\ \A r \in S : pc[r] = "idle"
  /\ group' = S
  /\ kind' = [r \in Requests |-> IF r \in S THEN k ELSE kind[r]]

\* The requests of a command are started together, in order.
Started(S) ==
  /\ pc' = [r \in Requests |-> IF r \in S THEN "slot" ELSE pc[r]]
  /\ tries' = [r \in Requests |-> IF r \in S THEN 1 ELSE tries[r]]

\* _order_depth_operation and _market_operation make one request;
\* _account_operation up to four of them beside each other (asyncio.gather).
StartGather(S, k) ==
  /\ k \in {"account", "depth"}
  /\ Cardinality(S) = 1 \/ (user = "transient" /\ k = "account")
  /\ StartGroup(S, k)
  /\ Started(S)
  /\ owner' = "gather"
  /\ line' = [line EXCEPT !["slot"] = @ \o SetToSeq(S)]
  /\ UNCHANGED <<user, route, on, outcome, sessionVars, paceVars, sentVars>>

\* A command is over: a transient client is left, which begins with the wait
\* for _client_lock; a 401 takes the session with it (invalidate_session).
CommandEnds(expired, others) ==
  /\ group' = {}
  /\ session' = IF expired THEN None ELSE session
  /\ IF user = "transient"
     THEN owner' = "clear" /\ line' = [others EXCEPT !["client"] = Append(@, Owner)]
     ELSE owner' = "idle" /\ line' = others

\* gather returns when every request has, or at the first that failed; then
\* the rest runs on by itself.
GatherEnds ==
  /\ owner = "gather"
  /\ \/ /\ \A r \in group : outcome[r] = "ok"
        /\ CommandEnds(FALSE, line)
     \/ \E r \in group :
          /\ outcome[r] \in {"failed", "expired"}
          /\ CommandEnds(outcome[r] = "expired", line)
  /\ UNCHANGED <<user, requestVars, unused, clientVars, paceVars, sentVars>>

\* request_authenticated_batch: async with self._client_lock
StartBatch(S) ==
  /\ StartGroup(S, "batch")
  /\ owner' = "batch_lock"
  /\ line' = Joined("client", Owner)
  /\ UNCHANGED <<user, pc, tries, route, on, outcome, sessionVars, paceVars,
                 sentVars>>

\* The paths of the batch are asked for.
StartPaths ==
  /\ owner' = "batch"
  /\ Started(group)
  /\ line' = [line EXCEPT !["slot"] = @ \o SetToSeq(group)]

BatchLocked ==
  /\ owner = "batch_lock" /\ Holds("client", Owner)
  /\ \/ /\ session # None
        /\ EnsureClient
        /\ IF client' = 0 THEN owner' = "batch_close" /\ UNCHANGED <<pc, tries, line>>
                          ELSE StartPaths
        /\ UNCHANGED <<group, session>>
     \/ /\ session = None
        /\ CommandEnds(TRUE, Without(Owner))
        /\ UNCHANGED <<pc, tries, clientVars>>
  /\ UNCHANGED <<user, kind, route, on, outcome, unused, paceVars, sentVars>>

BatchClosed ==
  /\ owner = "batch_close"
  /\ chosen' = None
  /\ \/ MakeClient(chosen) /\ StartPaths /\ UNCHANGED <<group, session>>
     \/ /\ CommandEnds(FALSE, Without(Owner))
        /\ UNCHANGED <<pc, tries, authSession, client, made>>
  /\ UNCHANGED <<user, kind, route, on, outcome, unused, paceVars, sentVars>>

\* The lock is kept until the last path has its answer.
BatchEnds ==
  /\ owner = "batch" /\ \A r \in group : pc[r] = "done"
  /\ CommandEnds(\E r \in group : outcome[r] = "expired", Without(Owner))
  /\ UNCHANGED <<user, requestVars, unused, clientVars, paceVars, sentVars>>

\* The market worker leaves its client when it stops or has no valid session.
Exit ==
  /\ user = "market" /\ owner = "idle"
  /\ owner' = "clear"
  /\ line' = Joined("client", Owner)
  /\ UNCHANGED <<user, requestVars, group, sessionVars, paceVars, sentVars>>

\* Variant: the references are dropped without waiting for the lock.
ClearedAtOnce ==
  /\ owner = "clear"
  /\ owner' = "exited"
  /\ client' = 0 /\ authSession' = None
  /\ line' = Without(Owner)
  /\ UNCHANGED <<user, requestVars, group, session, unused, made, chosen,
                 paceVars, sentVars>>

\* __aexit__, clear_authenticated_session
Cleared ==
  /\ owner = "clear" /\ Holds("client", Owner)
  /\ owner' = "exited"
  /\ client' = 0 /\ authSession' = None
  /\ line' = Without(Owner)
  /\ UNCHANGED <<user, requestVars, group, session, unused, made, chosen,
                 paceVars, sentVars>>

\* The provider's session changes: in a transient client's worker when the
\* page or the timer of BrowserAuth ends it and a later login replaces it, in
\* the market worker when ensure_session has loaded the credential again,
\* which makes a new object of it.
SessionChanges ==
  /\ \/ /\ user = "transient" /\ session # None
        /\ session' = None /\ UNCHANGED unused
     \/ /\ \/ user = "transient" /\ session = None
           \/ user = "market" /\ owner = "idle"
        /\ session' \in unused
        /\ unused' = unused \ {session'}
  /\ UNCHANGED <<user, requestVars, ownerVars, line, clientVars, paceVars,
                 sentVars>>

Tick ==
  /\ pace + cool + wake > 0 \/ sinceStart < MinInterval
                          \/ sincePublic < MinInterval
  /\ pace' = Less(pace) /\ cool' = Less(cool) /\ wake' = Less(wake)
  /\ sinceStart' =
       IF sinceStart = MinInterval THEN sinceStart ELSE sinceStart + 1
  /\ sincePublic' =
       IF sincePublic = MinInterval THEN sincePublic ELSE sincePublic + 1
  /\ UNCHANGED <<user, requestVars, ownerVars, line, sessionVars, late>>

-----------------------------------------------------------------------------
RequestStep(r) ==
  \/ TakeSlot(r) \/ PaceSleep(r) \/ PaceEnds(r)
  \/ \E answer \in {"response", "expired", "none"} : DelegateAnswers(r, answer)
  \/ SendLocked(r) \/ Closed(r)
  \/ \E a \in Answers : Answer(r, a)
  \/ Retry(r)

OwnerStep ==
  GatherEnds \/ BatchLocked \/ BatchClosed \/ BatchEnds \/ Cleared

Next ==
  \/ \E r \in Requests :
       \/ RequestStep(r) \/ Interrupt(r)
       \/ \E k \in PipelineKinds : Begin(r, k)
  \/ OwnerStep
  \/ \E S \in SUBSET Requests :
       StartBatch(S) \/ \E k \in {"account", "depth"} : StartGather(S, k)
  \/ Exit
  \/ SessionChanges
  \/ Tick

Spec == Init /\ [][Next]_vars

\* The event loop runs what is ready, httpx gives up after its read timeout,
\* the broker answers every call, and time passes.  No tool has to call, no
\* deadline has to strike, no session has to change.
Fairness ==
  /\ \A r \in Requests : WF_vars(RequestStep(r))
  /\ WF_vars(OwnerStep)
  /\ WF_vars(Tick)

FairSpec == Spec /\ Fairness

-----------------------------------------------------------------------------
(* Properties.                                                             *)

Pcs == {"idle", "slot", "pace", "delegate", "client", "close", "sent", "retry",
        "done"}

\* Every variable holds a value of its kind; locks are asked for once.
TypeOK ==
  /\ user \in {"server", "transient", "market"}
  /\ kind \in [Requests -> Kinds \union {"none"}]
  /\ pc \in [Requests -> Pcs]
  /\ tries \in [Requests -> 0..MaxRetries]
  /\ route \in [Requests -> {"none", "public", "auth"}]
  /\ on \in [Requests -> 0..made]
  /\ outcome \in [Requests -> {"none", "ok", "failed", "expired"}]
  /\ owner \in {"idle", "gather", "batch_lock", "batch_close", "batch",
               "clear", "exited"}
  /\ group \subseteq Requests
  /\ \A l \in Locks :
       /\ line[l] \in Seq(Requests \union {Owner})
       /\ Len(line[l]) = Cardinality({line[l][i] : i \in 1..Len(line[l])})
  /\ session \in Sessions \union {None} /\ unused \subseteq Sessions
  /\ authSession \in Sessions \union {None}
  /\ chosen \in Sessions \union {None}
  /\ late \in [Sessions -> SUBSET (Requests \union {Owner})]
  /\ made \in Nat /\ client \in 0..made
  /\ pace \in 0..(MinInterval + Jitter) /\ cool \in 0..Cooldown
  /\ wake \in 0..Larger(MinInterval + Jitter, Cooldown)
  /\ sinceStart \in 0..MinInterval /\ sincePublic \in 0..MinInterval

\* The authenticated client of a request under way is neither closed nor
\* replaced: not by clear_authenticated_session, not by a request that finds
\* another session, and not while a batch has requests on it.
OpenUnderRequests ==
  \A r \in Requests :
    pc[r] = "sent" /\ route[r] = "auth" => on[r] = client /\ client # 0

\* A session that has ended goes out at most once more, for whoever had
\* _client_lock at its end and was closing the client of an earlier one, or had
\* a batch under way (base.py:415): no request that is let in later finds its
\* cookies in the cached client.
EndedSessionSentOnce == \A s \in Sessions : \A t, u \in late[s] : t = u

\* Requests that never touch the session are min_request_interval apart, and
\* none is sent before a 429's cooldown has passed, even when the 429 arrives
\* while the request is already sleeping off the interval.
StartsPublic(r) ==
  kind[r] = "public" /\ pc[r] # "sent" /\ pc'[r] = "sent"
PublicStartsPaced ==
  [][\A r \in Requests :
       StartsPublic(r) => sincePublic = MinInterval /\ cool = 0]_vars

\* Every request ends, although slot, pacing lock and client lock are taken in
\* one order by single requests and in another by a batch.
EveryRequestEnds ==
  \A r \in Requests : (pc[r] # "idle") ~> (pc[r] = "done")

\* base.py:301: "min_request_interval: Minimum spacing between new upstream
\* request starts".  Violated: the interval is waited for before _client_lock
\* and the broker are, and requests that have queued there leave together.
StartsSpaced ==
  [][\A r \in Requests :
       pc[r] # "sent" /\ pc'[r] = "sent" => sinceStart = MinInterval]_vars

\* base.py:395: "Drop any client object carrying copied authenticated
\* cookies/token."  Violated: a request left behind by a failed gather comes
\* after the clearing and makes a client that nobody closes.
LeftClientIsCleared == owner = "exited" => client = 0
=============================================================================
