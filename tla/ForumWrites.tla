----------------------------- MODULE ForumWrites -----------------------------
(* A confirmed post or reply to Placera Forum, from the tool call to the     *)
(* upstream service and back: the tool (auth/server.py), the broker's forum  *)
(* methods (auth/broker.py), the forum daemon (auth/worker.py) and           *)
(* ForumAPIClient (client/forum.py).  A post is public and cannot be taken   *)
(* back, and the frame that reports it carries no request number.           *)
EXTENDS Naturals, Sequences, SequencesExt

CONSTANTS
  Calls,               \* one tool call each, made at most once
  Workers,             \* bound: forum daemons spawned
  NoCall, NoWorker

ASSUME SentinelAssumption == NoCall \notin Calls /\ NoWorker \notin Workers

Writes  == {"post", "reply"}
Methods == Writes \union {"connect", "disconnect", "status", "aclose"}
\* Variant: no answer from Placera is taken for an ended session.
SignInWide == {"auth_required", "auth_expired", "network"}

\* The codes _result_from_response turns into a request to sign in.
SignIn == {"auth_required", "auth_expired"}
\* Codes of a write that ended before, or without, a receipt; "failed" stands
\* for the ones that are only passed on: request_failed, malformed_response,
\* reply_not_verified, parent_unavailable and the like.
Codes == {"auth_required", "auth_expired", "network", "failed"}
AuthStates == {"idle", "awaiting_approval", "connected"}

VARIABLES
  method,   \* the broker method of a call
  pc,       \* the await a call is suspended at
  outcome,  \* how a call ended, or will end once its worker has stopped
  got,      \* history: the call whose write the frame of a write answered
  peer,     \* the local variable "process" of a call
  queue,    \* _forum_daemon_lock: the call that holds it, then its waiters
  slot,     \* self._forum_daemon
  closed,   \* self._closed
  proc,     \* state of a process
  inbox,    \* commands written to a process
  outbox,   \* frames it has emitted
  auth,     \* auth.status().state in a process
  task,     \* what its command loop is at
  wire,     \* POST requests that have not reached Placera or got lost
  posts     \* posts at Placera that came from a call

callVars   == <<method, pc, outcome, got, peer>>
brokerVars == <<queue, slot, closed>>
pipes      == <<inbox, outbox>>
placera    == <<wire, posts>>
vars == <<callVars, brokerVars, proc, pipes, auth, task, placera>>

Loop == [step |-> "loop", call |-> NoCall, code |-> "none"]
At(step, c) == [step |-> step, call |-> c, code |-> "none"]
Answer(c, code) == [step |-> "answered", call |-> c, code |-> code]

Init ==
  /\ method = [c \in Calls |-> "status"]
  /\ pc = [c \in Calls |-> "idle"]
  /\ outcome = [c \in Calls |-> "none"]
  /\ got = [c \in Calls |-> NoCall]
  /\ peer = [c \in Calls |-> NoWorker]
  /\ queue = <<>> /\ slot = NoWorker /\ closed = FALSE
  /\ proc = [w \in Workers |-> "unborn"]
  /\ inbox = [w \in Workers |-> <<>>] /\ outbox = [w \in Workers |-> <<>>]
  /\ auth = [w \in Workers |-> "idle"]
  /\ task = [w \in Workers |-> Loop]
  /\ wire = {} /\ posts = [c \in Calls |-> 0]

-----------------------------------------------------------------------------
(* The tool and the broker.                                                 *)

Finish(c, how) ==
  /\ pc' = [pc EXCEPT ![c] = "done"]
  /\ peer' = [peer EXCEPT ![c] = NoWorker]
  /\ outcome' = [outcome EXCEPT ![c] = how]
  /\ queue' = RemoveFirst(queue, c)

\* _ensure_open, then the lock is asked for.
Ask(c, m) ==
  /\ UNCHANGED <<got, slot, proc, pipes, auth, task, placera>>
  /\ IF closed /\ m # "aclose"
     THEN Finish(c, "failed") /\ UNCHANGED closed
     ELSE /\ closed' = (closed \/ m = "aclose")
          /\ pc' = [pc EXCEPT ![c] = "lock"]
          /\ queue' = Append(queue, c)
          /\ UNCHANGED <<outcome, peer>>

\* A tool is called.  Without confirm=True, or when the ISIN of its instrument
\* cannot be looked up, nothing is asked of the broker.
Begin(c) ==
  /\ pc[c] = "idle"
  /\ \E m \in Methods :
       /\ method' = [method EXCEPT ![c] = m]
       /\ \/ Ask(c, m)
          \/ /\ m \in Writes
             /\ Finish(c, "refused")
             /\ UNCHANGED <<got, slot, closed, proc, pipes, auth, task,
                            placera>>

Live(w) == w # NoWorker /\ proc[w] # "reaped"

\* First half of _command: one line to the worker's stdin.
Send(c, w, action, next) ==
  /\ peer' = [peer EXCEPT ![c] = w]
  /\ pc' = [pc EXCEPT ![c] = next]
  /\ inbox' = IF proc'[w] = "running"
              THEN [inbox EXCEPT ![w] =
                      Append(@, [call |-> c, action |-> action])]
              ELSE inbox

FirstAction(m) ==
  CASE m \in Writes  -> "status"
    [] m = "aclose"  -> "shutdown"
    [] OTHER         -> m

\* The lock is free for c: the live worker is written to; without one,
\* connect spawns it and the other methods end.
Enter(c) ==
  LET m == method[c]
  IN
  /\ pc[c] = "lock" /\ queue # <<>> /\ Head(queue) = c
  /\ UNCHANGED <<method, got, closed, outbox, auth, task, placera>>
  /\ \/ /\ Live(slot)
        /\ slot' = IF m = "aclose" THEN NoWorker ELSE slot
        /\ UNCHANGED proc
        /\ Send(c, slot, FirstAction(m),
                IF m \in Writes THEN "status" ELSE "asked")
        /\ UNCHANGED <<outcome, queue>>
     \/ /\ ~Live(slot) /\ m # "connect"
        /\ slot' = NoWorker
        /\ Finish(c, IF m \in Writes THEN "sign_in" ELSE "status")
        /\ UNCHANGED <<proc, inbox>>
     \/ /\ ~Live(slot) /\ m = "connect"
        /\ \E w \in Workers :
             /\ proc[w] = "unborn"
             /\ proc' = [proc EXCEPT ![w] = "running"]
             /\ slot' = w
             /\ Send(c, w, "connect", "asked")
        /\ UNCHANGED <<outcome, queue>>
     \/ /\ ~Live(slot) /\ m = "connect"     \* the process cannot be started
        /\ slot' = NoWorker
        /\ Finish(c, "failed")
        /\ UNCHANGED <<proc, inbox>>

\* Variant: the worker is kept after a call that left it without its answer.
RetireNothing(c, how) == Finish(c, how) /\ UNCHANGED <<slot, proc>>

\* _retire_uncertain_worker, up to the wait for the process to end.
Retire(c, how) ==
  /\ slot' = IF slot = peer[c] THEN NoWorker ELSE slot
  /\ proc' = [proc EXCEPT ![peer[c]] =
                IF @ = "running" THEN "terminating" ELSE @]
  /\ pc' = [pc EXCEPT ![c] = "stopping"]
  /\ outcome' = [outcome EXCEPT ![c] = how]
  /\ UNCHANGED <<queue, peer>>

Awaits(c) == pc[c] \in {"status", "write", "asked"}

\* A frame whose key does not fit the command, which _command notices for
\* every command except forum_reply.
Mismatched(c, f) ==
  IF pc[c] = "write" THEN f.kind = "status" /\ method[c] = "post"
  ELSE f.kind = "result"

\* How a write that is not retired ends with frame f.
WriteEnd(f) ==
  CASE f.kind = "result"                        -> "receipt"
    [] f.kind = "error" /\ f.code \in SignIn -> "sign_in"
    [] OTHER                                     -> "failed"

\* Second half of _command: a frame is read, and the call goes on.
Reads(c) ==
  /\ Awaits(c) /\ outbox[peer[c]] # <<>>
  /\ LET f == Head(outbox[peer[c]])
         goesOn == /\ pc[c] = "status" /\ f.kind = "status"
                   /\ f.code = "connected"
     IN
     /\ outbox' = [outbox EXCEPT ![peer[c]] = Tail(@)]
     /\ got' = IF pc[c] = "write" THEN [got EXCEPT ![c] = f.call] ELSE got
     /\ IF Mismatched(c, f) \/ method[c] = "aclose"
        THEN Retire(c, "failed") /\ UNCHANGED inbox
        ELSE IF goesOn
        THEN /\ UNCHANGED <<outcome, queue, slot, proc>>
             /\ Send(c, peer[c], method[c], "write")
        ELSE /\ Finish(c, CASE pc[c] = "write"  -> WriteEnd(f)
                           [] pc[c] = "status" -> "sign_in"
                           [] OTHER            -> "status")
             /\ UNCHANGED <<slot, proc, inbox>>
  /\ UNCHANGED <<method, closed, auth, task, placera>>

Others == <<method, got, closed, pipes, auth, task, placera>>

\* The command times out, or the pipe ends.
NoAnswer(c) ==
  /\ Awaits(c) /\ outbox[peer[c]] = <<>>
  /\ Retire(c, "failed") /\ UNCHANGED Others

\* The client cancels the tool call; a second time while the worker stops.
Cancel(c) ==
  /\ \/ /\ pc[c] \in {"lock", "stopping"}
        /\ Finish(c, "cancelled") /\ UNCHANGED <<slot, proc>>
     \/ Awaits(c) /\ Retire(c, "cancelled")
  /\ UNCHANGED Others

\* The process has ended: _stop_process returns and the call leaves.
Stopped(c) ==
  /\ pc[c] = "stopping" /\ proc[peer[c]] \in {"exited", "reaped"}
  /\ proc' = [proc EXCEPT ![peer[c]] = "reaped"]
  /\ Finish(c, outcome[c])
  /\ UNCHANGED slot /\ UNCHANGED Others

-----------------------------------------------------------------------------
(* The daemon.  One command at a time; the local page runs beside the loop.  *)

Runs(w) == proc[w] \in {"running", "terminating"}

Emit(w, c, kind, code) ==
  outbox' = [outbox EXCEPT ![w] =
               Append(@, [call |-> c, kind |-> kind, code |-> code])]

\* A write captures the token of the session it finds.
Take(w) ==
  /\ Runs(w) /\ task[w].step = "loop" /\ inbox[w] # <<>>
  /\ LET cmd == Head(inbox[w])
         state == CASE cmd.action = "connect" /\ auth[w] # "connected"
                         -> "awaiting_approval"
                    [] cmd.action \in {"disconnect", "shutdown"} -> "idle"
                    [] OTHER -> auth[w]
         starts == cmd.action \in Writes /\ auth[w] = "connected"
     IN
     /\ inbox' = [inbox EXCEPT ![w] = Tail(@)]
     /\ auth' = [auth EXCEPT ![w] = state]
     /\ proc' = IF cmd.action = "shutdown"
                THEN [proc EXCEPT ![w] = "exited"] ELSE proc
     /\ task' = IF starts THEN [task EXCEPT ![w] = At("prepare", cmd.call)]
                ELSE task
     /\ IF starts THEN UNCHANGED outbox
        ELSE IF cmd.action \in Writes
        THEN Emit(w, cmd.call, "error", "auth_required")
        ELSE Emit(w, cmd.call, "status", state)
  /\ UNCHANGED <<callVars, brokerVars, placera>>

\* resolve_instrument of a post, the parent's GET of a reply: the POST goes
\* out, or the write ends here.
Prepared(w) ==
  /\ Runs(w) /\ task[w].step = "prepare"
  /\ LET c == task[w].call
     IN \/ /\ wire' = wire \union {[by |-> w, call |-> c]}
           /\ task' = [task EXCEPT ![w] = At("write", c)]
        \/ /\ \E code \in Codes \ {"auth_required"} :
                task' = [task EXCEPT ![w] = Answer(c, code)]
           /\ UNCHANGED wire
  /\ UNCHANGED <<callVars, brokerVars, proc, pipes, auth, posts>>

\* httpx gives up after request_timeout; the request may still arrive.
GiveUp(w) ==
  /\ Runs(w) /\ task[w].step = "write"
  /\ task' = [task EXCEPT ![w] = Answer(task[w].call, "network")]
  /\ UNCHANGED <<callVars, brokerVars, proc, pipes, auth, placera>>

\* Variant: a write whose answer was lost is sent again.
AnsweredRetries(w) ==
  /\ Runs(w) /\ task[w].step = "answered"
  /\ LET c == task[w].call
         code == task[w].code
     IN
     /\ \/ /\ code = "network"
           /\ task' = [task EXCEPT ![w] = At("prepare", c)]
           /\ UNCHANGED <<auth, outbox>>
        \/ /\ code \notin {"network", "auth_expired"}
           /\ task' = [task EXCEPT ![w] = Loop]
           /\ Emit(w, c, IF code = "ok" THEN "result" ELSE "error", code)
           /\ UNCHANGED auth
        \/ /\ code = "auth_expired"
           /\ auth' = [auth EXCEPT ![w] = "idle"]
           /\ task' = [task EXCEPT ![w] = At("signing_out", c)]
           /\ UNCHANGED outbox
  /\ UNCHANGED <<callVars, brokerVars, proc, inbox, placera>>

\* _forum_post_operation, _forum_reply_operation after ForumAPIClient: a 401
\* or 403 drops the session first.
Answered(w) ==
  /\ Runs(w) /\ task[w].step = "answered"
  /\ LET c == task[w].call
         code == task[w].code
     IN
     /\ \/ /\ code # "auth_expired"
           /\ task' = [task EXCEPT ![w] = Loop]
           /\ Emit(w, c, IF code = "ok" THEN "result" ELSE "error", code)
           /\ UNCHANGED auth
        \/ /\ code = "auth_expired"
           /\ auth' = [auth EXCEPT ![w] = "idle"]
           /\ task' = [task EXCEPT ![w] = At("signing_out", c)]
           /\ UNCHANGED outbox
  /\ UNCHANGED <<callVars, brokerVars, proc, inbox, placera>>

SignedOut(w) ==
  /\ Runs(w) /\ task[w].step = "signing_out"
  /\ task' = [task EXCEPT ![w] = Loop]
  /\ Emit(w, task[w].call, "error", "auth_expired")
  /\ UNCHANGED <<callVars, brokerVars, proc, inbox, auth, placera>>

\* The local page completes a login or a logout, or the session is evicted.
Page(w) ==
  /\ Runs(w)
  /\ \/ /\ auth[w] = "awaiting_approval"
        /\ auth' = [auth EXCEPT ![w] = "connected"]
     \/ /\ auth[w] = "connected"
        /\ auth' = [auth EXCEPT ![w] = "idle"]
  /\ UNCHANGED <<callVars, brokerVars, proc, pipes, task, placera>>

\* The process dies of itself or of SIGTERM.
Exit(w) ==
  /\ Runs(w)
  /\ proc' = [proc EXCEPT ![w] = "exited"]
  /\ inbox' = [inbox EXCEPT ![w] = <<>>]
  /\ auth' = [auth EXCEPT ![w] = "idle"]
  /\ task' = [task EXCEPT ![w] = Loop]
  /\ UNCHANGED <<callVars, brokerVars, outbox, placera>>

Reaped(w) ==
  /\ proc[w] = "exited"
  /\ proc' = [proc EXCEPT ![w] = "reaped"]
  /\ UNCHANGED <<callVars, brokerVars, pipes, auth, task, placera>>

-----------------------------------------------------------------------------
(* Placera and the network.                                                 *)

\* An answer reaches the daemon that still waits for it.
Back(r, code) ==
  task' = IF Runs(r.by) /\ task[r.by] = At("write", r.call)
          THEN [task EXCEPT ![r.by] = Answer(r.call, code)] ELSE task

\* The post appears; its answer may be unreadable, wrong or lost.
Publish(r) ==
  /\ posts' = [posts EXCEPT ![r.call] = @ + 1]
  /\ wire' = wire \ {r}
  /\ \E code \in {"ok", "network", "failed"} : Back(r, code)
  /\ UNCHANGED <<callVars, brokerVars, proc, pipes, auth>>

\* The request is refused, or lost before it arrives.
Refuse(r) ==
  /\ wire' = wire \ {r}
  /\ \E code \in {"auth_expired", "network", "failed"} : Back(r, code)
  /\ UNCHANGED <<callVars, brokerVars, proc, pipes, auth, posts>>

BrokerStep(c) ==
  Begin(c) \/ Enter(c) \/ Reads(c) \/ NoAnswer(c)
  \/ Cancel(c) \/ Stopped(c)
WorkerStep(w) ==
  Take(w) \/ Prepared(w) \/ GiveUp(w) \/ Answered(w) \/ SignedOut(w)
  \/ Page(w) \/ Exit(w) \/ Reaped(w)

Next ==
  \/ \E c \in Calls : BrokerStep(c)
  \/ \E w \in Workers : WorkerStep(w)
  \/ \E r \in wire : Publish(r) \/ Refuse(r)

Spec == Init /\ [][Next]_vars

-----------------------------------------------------------------------------
(* Properties.                                                              *)

\* Every variable has its type.
TypeOK ==
  /\ method \in [Calls -> Methods]
  /\ pc \in [Calls -> {"idle", "lock", "status", "write", "asked",
                       "stopping", "done"}]
  /\ outcome \in [Calls -> {"none", "refused", "failed", "sign_in", "status",
                            "receipt", "cancelled"}]
  /\ got \in [Calls -> Calls \union {NoCall}]
  /\ peer \in [Calls -> Workers \union {NoWorker}]
  /\ slot \in Workers \union {NoWorker} /\ closed \in BOOLEAN
  /\ proc \in [Workers -> {"unborn", "running", "terminating", "exited",
                           "reaped"}]
  /\ auth \in [Workers -> AuthStates]
  /\ wire \subseteq [by : Workers, call : Calls]

Told(c, how) == pc[c] = "done" /\ outcome[c] = how

\* "Publish exactly one post": a confirmed call never puts two posts on the
\* forum, however its answer was lost, its worker replaced or the call
\* cancelled, and a call that was not confirmed puts none.
PostedOnce ==
  \A c \in Calls :
    /\ posts[c] <= 1
    /\ Told(c, "refused") => posts[c] = 0

\* A receipt is the receipt of the call that got it, for a post that exists:
\* never the late answer to an earlier call on the same pipe.
ReceiptIsOwn ==
  \A c \in Calls : Told(c, "receipt") => got[c] = c /\ posts[c] = 1

\* A caller told to sign in "then retry with confirm=true" can do so: the
\* call published nothing and nothing of it is under way.
RetryIsSafe ==
  \A c \in Calls :
    Told(c, "sign_in") => posts[c] = 0 /\ \A r \in wire : r.call # c
=============================================================================
