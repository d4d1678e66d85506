---------------------------- MODULE AttemptClient ----------------------------
(* One login attempt against an upstream BankID service: BankIDClient for    *)
(* the Avanza session, ForumBankIDClient for Placera Forum, and the use that *)
(* BrowserAuth makes of either.  One task starts the order, polls restart    *)
(* and collect it side by side, and the task that takes the attempt out of   *)
(* BrowserAuth cancels it or logs it out, and closes the client.             *)
EXTENDS Naturals, FiniteSets

CONSTANTS
  Collectors     \* calls of collect, of overlapping polls

Callers == {"start", "restart", "drop"} \union Collectors

ASSUME CallersAssumption ==
  Collectors \intersect {"start", "restart", "drop"} = {}

\* Awaits of a request, in the order a call makes them.
Attempting == {"start", "qr", "restart", "collect", "info", "select", "recheck"}
Cleanup    == {"cancel", "logout"}
Requests   == Attempting \union Cleanup
Answers    == {"ok", "pending", "complete", "denied", "verified", "unverified",
               "gone"}

VARIABLES
  kind,          \* "avanza" or "forum"
  order,         \* upstream: the BankID order
  web,           \* upstream: the session the order led to
  current,       \* BrowserAuth._attempt is this client
  expired,       \* the deadline of the attempt has passed
  order_id,      \* _transaction_id or _order_ref is set
  cancelled,     \* _cancelled
  clientClosed,  \* _closed
  jar,           \* the cookie jar holds session cookies
  drained,       \* history: a cancel or logout has returned
  at,            \* the await a call is suspended at, "idle" or "ready"
  reply,         \* the answer that is on its way back
  stale,         \* the calls a cancel or logout waits for
  result         \* how the last call of a task ended

upstream == <<order, web>>
owner    == <<current, expired>>
client   == <<order_id, cancelled, clientClosed, jar, drained>>
attemptVars == <<kind, upstream, owner, client, at, reply, stale, result>>

InitAttempt ==
  /\ kind \in {"avanza", "forum"}
  /\ order = "none" /\ web = "none"
  /\ current = TRUE /\ expired = FALSE
  /\ order_id = FALSE /\ cancelled = FALSE /\ clientClosed = FALSE
  /\ jar = FALSE /\ drained = FALSE
  /\ at = [c \in Callers |-> "idle"]
  /\ reply = [c \in Callers |-> "none"]
  /\ stale = [c \in Callers |-> {}]
  /\ result = [c \in Callers |-> "none"]

InFlight(c) == at[c] \in Requests

\* Variant: the calling task is in its own snapshot.
InflightWithSelf(c) == {d \in Callers : InFlight(d)} \union {c}

\* set(self._inflight), taken by call c, which has no request out.
Inflight(c) == {d \in Callers \ {c} : InFlight(d)}

-----------------------------------------------------------------------------
(* The service.  It answers a request in flight once, and what it does it    *)
(* does whether or not the answer arrives.                                  *)

\* The user signs, refuses or lets the order expire.
Signed ==
  /\ order = "open" /\ order' \in {"signed", "refused"}
  /\ UNCHANGED <<kind, web, owner, client, at, reply, stale, result>>

AnswersTo(p) ==
  CASE p = "collect" ->
         CASE order = "open" -> {"pending"}
           [] order = "signed" -> {"complete"}
           [] OTHER -> {"denied"}
    [] p \in {"info", "recheck"} ->
         IF web = "open" THEN {"verified", "unverified"} ELSE {"unverified"}
    [] p = "cancel" -> IF order = "open" THEN {"ok"} ELSE {"gone"}
    [] OTHER -> {"ok"}

Serve(c) ==
  /\ InFlight(c) /\ reply[c] = "none"
  /\ \E a \in AnswersTo(at[c]) : reply' = [reply EXCEPT ![c] = a]
  /\ order' = CASE at[c] = "start" -> "open"
                [] at[c] = "cancel" /\ order = "open" -> "closed"
                [] at[c] = "collect" /\ order = "signed" -> "collected"
                [] OTHER -> order
  /\ web' = CASE at[c] = "collect" /\ order = "signed" -> "open"
              [] at[c] = "logout" -> "ended"
              [] OTHER -> web
  /\ UNCHANGED <<kind, owner, client, at, stale, result>>

-----------------------------------------------------------------------------
(* Calls.                                                                   *)

\* The attempt client of Avanza refuses once it is cancelled or closed.
Active == ~clientClosed /\ (kind = "avanza" => ~cancelled)

Return(c, r) ==
  /\ at' = [at EXCEPT ![c] = "idle"]
  /\ reply' = [reply EXCEPT ![c] = "none"]
  /\ result' = [result EXCEPT ![c] = r]

\* _request sends, up to the await; with a deadline that is over it raises.
SendRequest(c, p) ==
  IF p \in Attempting /\ kind = "avanza" /\ expired
  THEN Return(c, "error") /\ UNCHANGED stale
  ELSE /\ at' = [at EXCEPT ![c] = p]
       /\ reply' = [reply EXCEPT ![c] = "none"]
       /\ UNCHANGED <<stale, result>>

\* approve calls start once.
Start ==
  /\ at["start"] = "idle" /\ result["start"] = "none" /\ current
  /\ at' = [at EXCEPT !["start"] = "start"]
  /\ UNCHANGED <<kind, upstream, owner, client, reply, stale, result>>

\* poll calls restart and collect of the current attempt; it may be dropped
\* before the two tasks have sent anything.
Poll(c) ==
  /\ current /\ result["start"] = "ok" /\ at[c] = "idle"
  /\ c \in {"restart"} \union Collectors
  /\ at' = [at EXCEPT ![c] = "ready"]
  /\ result' = [result EXCEPT ![c] = "none"]
  /\ UNCHANGED <<kind, upstream, owner, client, reply, stale>>

SendPoll(c) ==
  /\ at[c] = "ready"
  /\ IF Active /\ order_id
     THEN SendRequest(c, IF c = "restart" THEN "restart" ELSE "collect")
     ELSE Return(c, "error")
          /\ UNCHANGED stale
  /\ UNCHANGED <<kind, upstream, owner, client>>

Deadline ==
  /\ result["start"] # "none" \/ InFlight("start")
  /\ ~expired /\ expired' = TRUE
  /\ UNCHANGED <<kind, upstream, current, client, at, reply, stale, result>>

\* The answer of an attempt's request brings its cookies with it, also when
\* the call is then refused: _request looks at the flag behind the await.
Cookies(c) == jar' = (jar \/ (kind = "avanza" /\ reply[c] = "complete"))

\* Variant: the flag is tested only before a request is sent.
RefusedNever(c) == FALSE

Refused(c) == at[c] \in Attempting /\ ~Active

DeliverRefused(c) ==
  /\ InFlight(c) /\ reply[c] # "none" /\ Refused(c)
  /\ Cookies(c)
  /\ Return(c, "error")
  /\ UNCHANGED <<kind, upstream, owner, order_id, cancelled, clientClosed, drained,
                 stale>>

\* start: the order is known from here on; the forum fetches the code next, and
\* a cancel that forgets the order meanwhile is not undone.
DeliverStart(c) ==
  /\ at[c] \in {"start", "qr"} /\ reply[c] # "none" /\ ~Refused(c)
  /\ order_id' = (order_id \/ at[c] = "start")
  /\ IF kind = "forum" /\ at[c] = "start"
     THEN SendRequest(c, "qr")
     ELSE Return(c, "ok") /\ UNCHANGED stale
  /\ UNCHANGED <<kind, upstream, owner, cancelled, clientClosed, jar, drained>>

DeliverRestart(c) ==
  /\ at[c] = "restart" /\ reply[c] # "none" /\ ~Refused(c)
  /\ Return(c, "ok")
  /\ UNCHANGED <<kind, upstream, owner, client, stale>>

\* collect and _complete: a complete order is verified, where the customer
\* may have to be selected first; the forum takes the token as it is.
DeliverCollect(c) ==
  /\ at[c] \in {"collect", "info", "select", "recheck"}
  /\ reply[c] # "none" /\ ~Refused(c)
  /\ Cookies(c)
  /\ CASE reply[c] = "complete" /\ kind = "avanza" -> SendRequest(c, "info")
       [] reply[c] = "unverified" /\ at[c] = "info" -> SendRequest(c, "select")
       [] at[c] = "select" -> SendRequest(c, "recheck")
       [] reply[c] \in {"verified", "complete"} ->
            Return(c, "session") /\ UNCHANGED stale
       [] OTHER -> Return(c, IF reply[c] = "pending" THEN "ok" ELSE "error")
                   /\ UNCHANGED stale
  /\ UNCHANGED <<kind, upstream, owner, order_id, cancelled, clientClosed, drained>>

\* The request or its answer is lost, times out or is answered with an error;
\* an error of the selection or of the answer's shape ends the call as well.
Fail(c) ==
  /\ at[c] \in Attempting
  /\ Return(c, "error")
  /\ UNCHANGED <<kind, upstream, owner, client, stale>>

-----------------------------------------------------------------------------
(* The end of the attempt.                                                  *)

\* logout of a verified session, which only _finish_attempt calls here: the
\* store refused it.  The forum has no store.
Logout(c) ==
  /\ ~clientClosed
  /\ stale' = [stale EXCEPT ![c] = Inflight(c)]
  /\ cancelled' = TRUE
  /\ jar' = TRUE
  /\ at' = [at EXCEPT ![c] = "logout"]
  /\ UNCHANGED <<order_id, clientClosed, drained, reply, result>>

\* cancel.  Avanza's is done once; it tells the service about the order it
\* knows of.  The forum's forgets the order and has nothing to wait for.
CancelCall(c) ==
  /\ ~clientClosed
  /\ IF kind = "avanza" /\ cancelled
     THEN /\ Return(c, "cancelled")
          /\ UNCHANGED <<stale, order_id, cancelled>>
     ELSE /\ cancelled' = TRUE
          /\ stale' = [stale EXCEPT ![c] =
                         IF kind = "avanza" THEN Inflight(c) ELSE {}]
          /\ order_id' = (order_id /\ kind = "avanza")
          /\ at' = [at EXCEPT ![c] = IF order_id THEN "cancel" ELSE "drain"]
          /\ UNCHANGED <<reply, result>>
  /\ UNCHANGED <<clientClosed, jar, drained>>

\* BrowserAuth takes the attempt out: cancelled, failed, timed out or done.
Drop ==
  /\ current /\ at["drop"] = "idle"
  /\ result["start"] # "none" \/ InFlight("start")
  /\ current' = FALSE
  /\ UNCHANGED <<kind, upstream, expired>>
  /\ \/ CancelCall("drop")
     \/ /\ kind = "avanza" /\ \E c \in Collectors : result[c] = "session"
        /\ Logout("drop")
     \/ \* connected: the client is closed as it is
        /\ \E c \in Collectors : result[c] = "session"
        /\ clientClosed' = TRUE
        /\ result' = [result EXCEPT !["drop"] = "kept"]
        /\ UNCHANGED <<order_id, cancelled, jar, drained, at, reply, stale>>

\* _finish_attempt cancels after its logout.
CancelAfterLogout ==
  /\ at["drop"] = "idle" /\ result["drop"] = "loggedout"
  /\ CancelCall("drop")
  /\ UNCHANGED <<kind, upstream, owner>>

\* approve finds its attempt superseded when start has returned.
CancelSuperseded ==
  /\ ~current /\ result["start"] = "ok" /\ at["start"] = "idle" /\ ~clientClosed
  /\ result' = [result EXCEPT !["start"] = "superseded"]
  /\ IF kind = "avanza" /\ cancelled
     THEN UNCHANGED <<stale, order_id, cancelled, at>>
     ELSE /\ cancelled' = TRUE
          /\ stale' = [stale EXCEPT !["start"] =
                         IF kind = "avanza" THEN Inflight("start") ELSE {}]
          /\ order_id' = (order_id /\ kind = "avanza")
          /\ at' = [at EXCEPT !["start"] = IF order_id THEN "cancel" ELSE "drain"]
  /\ UNCHANGED <<kind, upstream, owner, clientClosed, jar, drained, reply>>

\* The cleanup request is over, one way or the other: its error is kept for
\* the end.
CleanupOver(c) ==
  /\ at[c] \in Cleanup
  /\ at' = [at EXCEPT ![c] = "drain"]
  /\ result' = [result EXCEPT ![c] = at[c]]
  /\ UNCHANGED <<kind, upstream, owner, client, reply, stale>>

\* Variant: nothing is waited for.
StaleNever(c) == {}

Stale(c) == {d \in stale[c] : at[d] # "idle"}

\* gather(*stale) is over: the jar is cleared and the call returns.
Drained(c) ==
  /\ at[c] = "drain" /\ Stale(c) = {}
  /\ jar' = (jar /\ kind # "avanza")
  /\ drained' = TRUE
  /\ Return(c, IF result[c] = "logout" THEN "loggedout" ELSE "cancelled")
  /\ UNCHANGED <<kind, upstream, owner, order_id, cancelled, clientClosed, stale>>

\* aclose: what is still in flight fails.
Close ==
  /\ ~clientClosed
  /\ \/ at["drop"] = "idle" /\ result["drop"] \in {"cancelled", "kept"}
     \/ at["start"] = "idle"
        /\ result["start"] \notin {"none", "ok"}
  /\ clientClosed' = TRUE
  /\ UNCHANGED <<kind, upstream, owner, order_id, cancelled, jar, drained, at,
                 reply, stale, result>>

Progress(c) ==
  \/ SendPoll(c) \/ DeliverRefused(c) \/ DeliverStart(c) \/ DeliverRestart(c)
  \/ DeliverCollect(c) \/ Fail(c) \/ CleanupOver(c) \/ Drained(c)

NextAttempt ==
  \/ Signed \/ Start \/ Deadline \/ Drop \/ CancelAfterLogout
  \/ CancelSuperseded \/ Close
  \/ \E c \in Callers : Serve(c) \/ Poll(c) \/ Progress(c)

SpecAttempt == InitAttempt /\ [][NextAttempt]_attemptVars

\* Every request has a timeout, and the loop runs what is ready.
Fairness == (\A c \in Callers : WF_attemptVars(Progress(c)))
FairAttempt == SpecAttempt /\ Fairness

-----------------------------------------------------------------------------
AttemptTypeOK ==
  /\ kind \in {"avanza", "forum"}
  /\ order \in {"none", "open", "signed", "refused", "collected", "closed"}
  /\ web \in {"none", "open", "ended"}
  /\ {current, expired, order_id, cancelled, clientClosed, jar, drained}
       \subseteq BOOLEAN
  /\ at \in [Callers -> Requests \union {"idle", "ready", "drain"}]
  /\ reply \in [Callers -> Answers \union {"none"}]
  /\ stale \in [Callers -> SUBSET Callers]

\* When cancel or logout has returned, no session cookie is left in the jar
\* and none can still arrive: the calls that were in flight are over and no
\* other can begin.  ("Invalidate locally first, then best-effort drain the
\* obsolete attempt", and "always discard local cookies".)
ForgottenWhenDrained ==
  kind = "avanza" /\ drained /\ at["drop"] = "idle" =>
    /\ ~jar
    /\ \A c \in Callers : at[c] \notin Attempting

\* Once a client of Avanza is cancelled, no call of it returns a session or a
\* code to scan, however late the answer of a request comes that was out.
CancelledReturnsNothing ==
  [][kind = "avanza" /\ cancelled =>
       \A c \in Callers : result'[c] \in {"session", "ok"} =>
                            result'[c] = result[c]]_attemptVars

\* A cancel or logout returns: the calls it waits for have requests with a
\* timeout and never wait for it in turn.
CleanupEnds ==
  \A c \in Callers : at[c] \in Cleanup \union {"drain"} ~> at[c] = "idle"
==============================================================================
