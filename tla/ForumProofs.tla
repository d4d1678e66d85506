------------------------------ MODULE ForumProofs ------------------------------
(* The daemon of the forum: its login, which is made as Avanza's is, and its *)
(* writes, for any number of overlapping polls, of calls and of daemons.     *)
EXTENDS AttemptClient, ForumWrites, SequenceTheorems, WellFoundedInduction, TLAPS

-----------------------------------------------------------------------------
(* What a cancelled attempt client of Avanza keeps and returns.  Only the    *)
(* task that takes the attempt out of BrowserAuth ever cancels it in earnest, *)
(* and from then on the requests that are out are among those that this task *)
(* waits for.                                                                *)

Results == {"none", "ok", "error", "session", "cancelled", "loggedout", "kept",
            "superseded", "cancel", "logout"}

AttemptTypes ==
  /\ kind \in {"avanza", "forum"}
  /\ at \in [Callers -> Requests \union {"idle", "ready", "drain"}]
  /\ stale \in [Callers -> SUBSET Callers]
  /\ result \in [Callers -> Results]
  /\ at["drop"] \in {"idle", "cancel", "logout", "drain"}
  /\ current \in BOOLEAN /\ cancelled \in BOOLEAN /\ clientClosed \in BOOLEAN
  /\ jar \in BOOLEAN /\ drained \in BOOLEAN

Draining == Cleanup \union {"drain"}

\* The flag is raised by "drop" as it takes the attempt out, unless it leaves
\* a client that is connected, and closes it.
OwnerInv ==
  /\ cancelled => ~current
  /\ ~current => cancelled \/ clientClosed
  /\ result["drop"] # "none" => ~current
  /\ \A c \in Callers : at[c] \in Draining => c = "drop"
  /\ at["drop"] \in Draining => cancelled

\* Whatever is still out is waited for, until nothing is out.
DrainInv ==
  /\ cancelled /\ ~drained =>
       /\ at["drop"] \in Draining
       /\ \A c \in Callers : at[c] \in Attempting => c \in stale["drop"]
  /\ drained =>
       cancelled /\ ~jar /\ \A c \in Callers : at[c] \notin Attempting \union Draining

AttemptInv == AttemptTypes /\ (kind = "avanza" => OwnerInv /\ DrainInv)

LEMMA DropIsCaller == "drop" \in Callers /\ "start" \in Callers /\ "restart" \in Callers
                      /\ "drop" \notin Collectors /\ "start" \notin Collectors
BY CallersAssumption DEF CallersAssumption, Callers

LEMMA AttemptInit == InitAttempt => AttemptInv
<1> SUFFICES ASSUME InitAttempt PROVE AttemptInv
  OBVIOUS
<1>1. AttemptTypes
  BY DropIsCaller DEF InitAttempt, AttemptTypes, Results
<1>2. OwnerInv /\ DrainInv
  BY DropIsCaller DEF InitAttempt, OwnerInv, DrainInv, Draining, Cleanup
<1>. QED BY <1>1, <1>2 DEF AttemptInv

\* A request is sent by a client that is active, and one that has come back is
\* no longer out.
CallMoves(c) ==
  /\ UNCHANGED <<kind, current, cancelled, clientClosed, drained, stale>>
  /\ at[c] \in Attempting \union {"ready"}
  /\ jar' = jar \/ (at[c] \in Attempting /\ jar' \in BOOLEAN)

LEMMA MoveStep ==
  ASSUME AttemptInv, NEW c \in Callers, CallMoves(c),
         NEW p \in Attempting \union {"idle"}, p = "idle" \/ Active,
         at' = [at EXCEPT ![c] = p],
         NEW r \in Results, result' = result \/ result' = [result EXCEPT ![c] = r]
  PROVE  AttemptInv'
<1>1. c # "drop"
  BY DEF AttemptInv, AttemptTypes, Attempting, CallMoves
<1>2. AttemptTypes'
  BY <1>1, DropIsCaller DEF AttemptInv, AttemptTypes, Requests, CallMoves
<1>3. ASSUME kind' = "avanza" PROVE OwnerInv' /\ DrainInv'
  <2>1. OwnerInv /\ DrainInv /\ kind = "avanza"
    BY <1>3 DEF AttemptInv, CallMoves
  <2>2. /\ at'["drop"] = at["drop"] /\ result'["drop"] = result["drop"]
        /\ \A d \in Callers : at'[d] \in Draining => at[d] \in Draining
        /\ \A d \in Callers : cancelled /\ at'[d] \in Attempting => at[d] \in Attempting
    BY <1>1, <2>1, DropIsCaller DEF AttemptInv, AttemptTypes, Active, Draining, Cleanup, Attempting
  <2>3. OwnerInv'
    BY <2>1, <2>2 DEF OwnerInv, CallMoves
  <2>4. drained => at[c] \notin Attempting
    BY <2>1 DEF DrainInv
  <2>5. DrainInv'
    BY <2>1, <2>2, <2>4 DEF DrainInv, CallMoves
  <2>. QED BY <2>3, <2>5
<1>. QED BY <1>2, <1>3 DEF AttemptInv

LEMMA ReturnStep ==
  ASSUME AttemptInv, NEW c \in Callers, CallMoves(c), NEW r \in Results, Return(c, r)
  PROVE  AttemptInv'
<1>1. at' = [at EXCEPT ![c] = "idle"] /\ result' = [result EXCEPT ![c] = r]
  BY DEF Return
<1>. QED BY <1>1, MoveStep

LEMMA SendStep ==
  ASSUME AttemptInv, NEW c \in Callers, CallMoves(c), Active, NEW p \in Attempting, SendRequest(c, p)
  PROVE  AttemptInv'
<1>1. CASE Return(c, "error")
  BY <1>1, ReturnStep DEF Results
<1>2. CASE at' = [at EXCEPT ![c] = p] /\ result' = result
  BY <1>2, MoveStep DEF Results
<1>. QED BY <1>1, <1>2 DEF SendRequest

LEMMA SendUnchanged ==
  ASSUME NEW c, NEW p, SendRequest(c, p)
  PROVE  UNCHANGED stale
BY DEF SendRequest

LEMMA CallStep ==
  ASSUME AttemptInv, NEW c \in Callers,
         \/ SendPoll(c) \/ DeliverRefused(c) \/ DeliverStart(c) \/ DeliverRestart(c)
         \/ DeliverCollect(c) \/ Fail(c)
  PROVE  AttemptInv'
<1>1. CASE SendPoll(c)
  <2>1. CASE Active /\ order_id
    <3>1. PICK p \in {"restart", "collect"} : SendRequest(c, p)
      BY <1>1, <2>1 DEF SendPoll
    <3>2. CallMoves(c) /\ p \in Attempting
      BY <1>1, <3>1, SendUnchanged DEF SendPoll, CallMoves, owner, client, Attempting
    <3>. QED BY <2>1, <3>1, <3>2, SendStep
  <2>2. CASE ~(Active /\ order_id)
    <3>1. Return(c, "error") /\ CallMoves(c)
      BY <1>1, <2>2 DEF SendPoll, CallMoves, owner, client
    <3>. QED BY <3>1, ReturnStep DEF Results
  <2>. QED BY <2>1, <2>2
<1>2. CASE DeliverRefused(c)
  <2>1. Return(c, "error") /\ CallMoves(c)
    BY <1>2 DEF DeliverRefused, Refused, Cookies, CallMoves, owner, AttemptInv, AttemptTypes
  <2>. QED BY <2>1, ReturnStep DEF Results
<1>3. CASE DeliverStart(c)
  <2>1. UNCHANGED stale /\ Active
    BY <1>3, SendUnchanged DEF DeliverStart, Refused, Attempting
  <2>2. CallMoves(c)
    BY <1>3, <2>1 DEF DeliverStart, CallMoves, owner, Attempting
  <2>3. SendRequest(c, "qr") \/ Return(c, "ok")
    BY <1>3 DEF DeliverStart
  <2>. QED BY <2>1, <2>2, <2>3, SendStep, ReturnStep DEF Attempting, Results
<1>4. CASE DeliverRestart(c)
  <2>1. Return(c, "ok") /\ CallMoves(c)
    BY <1>4 DEF DeliverRestart, CallMoves, owner, client, Attempting
  <2>. QED BY <2>1, ReturnStep DEF Results
<1>5. CASE DeliverCollect(c)
  <2>1. \/ \E p \in {"info", "select", "recheck"} : SendRequest(c, p)
        \/ \E r \in {"session", "ok", "error"} : Return(c, r) /\ UNCHANGED stale
    BY <1>5 DEF DeliverCollect
  <2>2. Active /\ UNCHANGED stale
    BY <1>5, <2>1, SendUnchanged DEF DeliverCollect, Refused, Attempting
  <2>3. CallMoves(c)
    BY <1>5, <2>2 DEF DeliverCollect, Cookies, CallMoves, owner, Attempting, AttemptInv, AttemptTypes
  <2>. QED BY <2>1, <2>2, <2>3, SendStep, ReturnStep DEF Attempting, Results
<1>6. CASE Fail(c)
  <2>1. Return(c, "error") /\ CallMoves(c)
    BY <1>6 DEF Fail, CallMoves, owner, client
  <2>. QED BY <2>1, ReturnStep DEF Results
<1>. QED BY <1>1, <1>2, <1>3, <1>4, <1>5, <1>6

\* A poll begins while the attempt is there.
LEMMA AttemptBegins ==
  ASSUME AttemptInv, Start \/ \E c \in Callers : Poll(c)
  PROVE  AttemptInv'
<1>1. /\ UNCHANGED <<kind, current, cancelled, clientClosed, drained, stale, jar>> /\ current
      /\ \E c \in Callers \ {"drop"}, p \in {"start", "ready"} :
           at' = [at EXCEPT ![c] = p]
      /\ result' = result \/ \E c \in Callers : result' = [result EXCEPT ![c] = "none"]
  BY DropIsCaller DEF Start, Poll, owner, client
<1>2. AttemptTypes'
  BY <1>1, DropIsCaller DEF AttemptInv, AttemptTypes, Requests, Attempting, Results
<1>3. kind' = "avanza" => OwnerInv' /\ DrainInv'
  BY <1>1, DropIsCaller DEF AttemptInv, AttemptTypes, OwnerInv, DrainInv, Draining, Cleanup
<1>. QED BY <1>2, <1>3 DEF AttemptInv

\* The attempt is taken out.
LEMMA DropStep ==
  ASSUME AttemptInv, Drop
  PROVE  AttemptInv'
<1>1. /\ kind' = kind /\ current /\ current' = FALSE /\ at["drop"] = "idle"
      /\ UNCHANGED drained
  BY DEF Drop, CancelCall, Logout
<1>2. CASE CancelCall("drop")
  <2>0. /\ UNCHANGED <<clientClosed, jar, drained>> /\ cancelled' \in BOOLEAN
        /\ \E p \in {"idle", "cancel", "drain"} : at' = [at EXCEPT !["drop"] = p]
        /\ \/ stale' = stale
           \/ \E S \in SUBSET Callers : stale' = [stale EXCEPT !["drop"] = S]
        /\ result' = result \/ result' = [result EXCEPT !["drop"] = "cancelled"]
    BY <1>2 DEF CancelCall, Return, Inflight, AttemptInv, AttemptTypes
  <2>1. AttemptTypes'
    <3>1. at' \in [Callers -> Requests \union {"idle", "ready", "drain"}]
          /\ at'["drop"] \in {"idle", "cancel", "logout", "drain"}
      BY <2>0, DropIsCaller DEF AttemptInv, AttemptTypes, Requests, Cleanup
    <3>2. stale' \in [Callers -> SUBSET Callers]
      BY <2>0, DropIsCaller DEF AttemptInv, AttemptTypes
    <3>3. result' \in [Callers -> Results]
      BY <2>0, DropIsCaller DEF AttemptInv, AttemptTypes, Results
    <3>. QED BY <1>1, <2>0, <3>1, <3>2, <3>3 DEF AttemptInv, AttemptTypes
  <2>2. ASSUME kind' = "avanza" PROVE OwnerInv' /\ DrainInv'
    <3>1. OwnerInv /\ DrainInv /\ kind = "avanza" /\ ~cancelled
      BY <1>1, <2>2 DEF AttemptInv, OwnerInv
    <3>2. /\ cancelled' = TRUE /\ jar' = jar /\ ~drained
          /\ stale' = [stale EXCEPT !["drop"] = Inflight("drop")]
          /\ \E p \in {"cancel", "drain"} : at' = [at EXCEPT !["drop"] = p]
      BY <1>2, <3>1 DEF CancelCall, DrainInv
    <3>3. OwnerInv'
      BY <1>1, <3>1, <3>2, DropIsCaller DEF OwnerInv, AttemptInv, AttemptTypes, Draining, Cleanup
    <3>4. stale'["drop"] = Inflight("drop") /\ at'["drop"] \in Draining
      BY <3>2, DropIsCaller DEF AttemptInv, AttemptTypes, Draining, Cleanup
    <3>5. ASSUME NEW c \in Callers, at'[c] \in Attempting PROVE c \in stale'["drop"]
      BY <3>2, <3>4, <3>5, DropIsCaller DEF AttemptInv, AttemptTypes, Inflight, InFlight, Requests,
         Attempting, Draining, Cleanup
    <3>. QED BY <1>1, <3>2, <3>3, <3>4, <3>5 DEF DrainInv
  <2>. QED BY <2>1, <2>2 DEF AttemptInv
<1>3. CASE kind = "avanza" /\ Logout("drop")
  <2>1. AttemptTypes'
    BY <1>1, <1>3, DropIsCaller DEF AttemptInv, AttemptTypes, Logout, Inflight, InFlight, Requests,
       Cleanup
  <2>2. ~drained /\ OwnerInv /\ DrainInv
    BY <1>1, <1>3 DEF AttemptInv, OwnerInv, DrainInv
  <2>3. /\ cancelled' = TRUE /\ stale' = [stale EXCEPT !["drop"] = Inflight("drop")]
        /\ at' = [at EXCEPT !["drop"] = "logout"] /\ clientClosed' = clientClosed
    BY <1>3 DEF Logout
  <2>4. OwnerInv'
    BY <1>1, <2>2, <2>3, DropIsCaller DEF OwnerInv, AttemptInv, AttemptTypes, Draining, Cleanup
  <2>5. stale'["drop"] = Inflight("drop") /\ at'["drop"] \in Draining
    BY <2>3, DropIsCaller DEF AttemptInv, AttemptTypes, Draining, Cleanup
  <2>6. ASSUME NEW c \in Callers, at'[c] \in Attempting PROVE c \in stale'["drop"]
    BY <2>3, <2>5, <2>6, DropIsCaller DEF AttemptInv, AttemptTypes, Inflight, InFlight, Requests,
       Attempting, Draining, Cleanup
  <2>. QED BY <1>1, <2>1, <2>2, <2>3, <2>4, <2>5, <2>6 DEF AttemptInv, DrainInv
<1>4. CASE /\ clientClosed' = TRUE /\ result' = [result EXCEPT !["drop"] = "kept"]
           /\ UNCHANGED <<cancelled, jar, drained, at, stale>>
  <2>1. AttemptTypes'
    BY <1>1, <1>4, DropIsCaller DEF AttemptInv, AttemptTypes, Results
  <2>2. kind' = "avanza" => OwnerInv' /\ DrainInv'
    BY <1>1, <1>4, <2>1 DEF AttemptInv, OwnerInv, DrainInv
  <2>. QED BY <2>1, <2>2 DEF AttemptInv
<1>. QED BY <1>2, <1>3, <1>4 DEF Drop

\* Later cancellations of a client of Avanza find the flag raised.
LEMMA CancelStep ==
  ASSUME AttemptInv, CancelAfterLogout \/ CancelSuperseded
  PROVE  AttemptInv'
<1> DEFINE Cancels(c) ==
      /\ cancelled' \in BOOLEAN
      /\ \E p \in {"idle", "cancel", "drain"} :
           at' = at \/ (at[c] = "idle" /\ at' = [at EXCEPT ![c] = p])
      /\ \/ stale' = stale
         \/ \E S \in SUBSET Callers : stale' = [stale EXCEPT ![c] = S]
      /\ \E r \in Results : result' = result \/ result' = [result EXCEPT ![c] = r]
      /\ kind = "avanza" =>
           ~current /\ UNCHANGED <<cancelled, stale>> /\ at' = at
<1>1. UNCHANGED <<kind, current, clientClosed, jar, drained>>
  BY DEF CancelAfterLogout, CancelSuperseded, CancelCall, owner
<1>2. CASE CancelSuperseded
  <2>1. kind = "avanza" => cancelled /\ ~current
    BY <1>2 DEF CancelSuperseded, AttemptInv, OwnerInv
  <2>2. Cancels("start")
    BY <1>2, <2>1 DEF CancelSuperseded, Inflight, Results, AttemptInv, AttemptTypes
  <2>3. AttemptTypes'
    BY <1>1, <2>2, DropIsCaller DEF AttemptInv, AttemptTypes, Requests, Cleanup
  <2>4. kind = "avanza" => result'["drop"] = result["drop"]
    BY <1>2, DropIsCaller DEF CancelSuperseded, AttemptInv, AttemptTypes
  <2>. QED BY <1>1, <2>2, <2>3, <2>4 DEF AttemptInv, OwnerInv, DrainInv
<1>3. CASE CancelAfterLogout
  <2>1. ~clientClosed /\ CancelCall("drop") /\ at["drop"] = "idle" /\ result["drop"] = "loggedout"
    BY <1>3 DEF CancelAfterLogout, CancelCall
  <2>2. kind = "avanza" => cancelled /\ ~current
    BY <2>1 DEF AttemptInv, OwnerInv
  <2>3. Cancels("drop")
    <3>1. CASE kind = "avanza"
      <4>1. /\ at' = [at EXCEPT !["drop"] = "idle"] /\ UNCHANGED <<stale, cancelled>>
            /\ result' = [result EXCEPT !["drop"] = "cancelled"]
        BY <2>1, <2>2, <3>1 DEF CancelCall, Return
      <4>2. at' = at
        BY <2>1, <4>1 DEF AttemptInv, AttemptTypes
      <4>. QED BY <2>2, <4>1, <4>2 DEF Results, AttemptInv, AttemptTypes
    <3>2. CASE kind # "avanza"
      <4>1. /\ at' = [at EXCEPT !["drop"] = IF order_id THEN "cancel" ELSE "drain"]
            /\ cancelled' = TRUE /\ UNCHANGED result
            /\ stale' = [stale EXCEPT !["drop"] = {}]
        BY <2>1, <3>2 DEF CancelCall
      <4>. QED BY <2>1, <3>2, <4>1 DEF Results
    <3>. QED BY <3>1, <3>2
  <2>4. AttemptTypes'
    BY <1>1, <2>3, DropIsCaller DEF AttemptInv, AttemptTypes, Requests, Cleanup
  <2>. QED BY <1>1, <2>2, <2>3, <2>4 DEF AttemptInv, OwnerInv, DrainInv
<1>. QED BY <1>2, <1>3

\* The cleanup request is over, and then the requests that it waits for.
LEMMA DrainStep ==
  ASSUME AttemptInv, NEW c \in Callers, CleanupOver(c) \/ Drained(c)
  PROVE  AttemptInv'
<1>1. CASE CleanupOver(c)
  <2>1. /\ UNCHANGED <<kind, current, cancelled, clientClosed, jar, drained, stale>>
        /\ at[c] \in Cleanup /\ at' = [at EXCEPT ![c] = "drain"]
        /\ \E r \in Results : result' = [result EXCEPT ![c] = r]
    BY <1>1 DEF CleanupOver, owner, client, Cleanup, Results
  <2>2. AttemptTypes'
    BY <2>1, DropIsCaller DEF AttemptInv, AttemptTypes
  <2>3. ASSUME kind' = "avanza" PROVE OwnerInv' /\ DrainInv'
    <3>1. OwnerInv /\ DrainInv /\ c = "drop" /\ cancelled /\ ~current
      BY <2>1, <2>3 DEF AttemptInv, OwnerInv, Draining
    <3>2. \A d \in Callers : /\ at'[d] \in Draining <=> at[d] \in Draining
                            /\ at'[d] \in Attempting <=> at[d] \in Attempting
      BY <2>1 DEF AttemptInv, AttemptTypes, Draining, Cleanup, Attempting
    <3>3. OwnerInv'
      BY <2>1, <3>1, <3>2 DEF OwnerInv
    <3>4. at'["drop"] \in Draining
      BY <2>1, <3>1 DEF AttemptInv, AttemptTypes, Draining, Cleanup
    <3>5. ~drained
      BY <2>1, <3>1 DEF DrainInv, Draining
    <3>. QED BY <2>1, <3>1, <3>2, <3>3, <3>4, <3>5 DEF DrainInv
  <2>. QED BY <2>2, <2>3 DEF AttemptInv
<1>2. CASE Drained(c)
  <2>1. /\ UNCHANGED <<kind, current, cancelled, clientClosed, stale>>
        /\ at[c] = "drain" /\ at' = [at EXCEPT ![c] = "idle"]
        /\ jar' = (jar /\ kind # "avanza") /\ drained' = TRUE /\ Stale(c) = {}
        /\ \E r \in Results : result' = [result EXCEPT ![c] = r]
    BY <1>2 DEF Drained, Return, owner, Results
  <2>2. AttemptTypes'
    BY <2>1, DropIsCaller DEF AttemptInv, AttemptTypes
  <2>3. ASSUME kind' = "avanza" PROVE OwnerInv' /\ DrainInv'
    <3>1. OwnerInv /\ DrainInv /\ c = "drop" /\ cancelled /\ ~current /\ ~jar'
      BY <2>1, <2>3 DEF AttemptInv, OwnerInv, Draining
    <3>2. ~drained
      BY <2>1, <3>1 DEF DrainInv, Draining
    <3>3. \A d \in Callers : at'[d] \notin Attempting
      BY <2>1, <3>1, <3>2 DEF DrainInv, Stale, Attempting, AttemptInv, AttemptTypes
    <3>4. \A d \in Callers : at'[d] \notin Draining
      BY <2>1, <3>1 DEF OwnerInv, Draining, Cleanup, AttemptInv, AttemptTypes
    <3>. QED BY <2>1, <3>1, <3>3, <3>4, DropIsCaller DEF OwnerInv, DrainInv
  <2>. QED BY <2>2, <2>3 DEF AttemptInv
<1>. QED BY <1>1, <1>2

LEMMA OtherStep ==
  ASSUME AttemptInv, Signed \/ Deadline \/ (\E c \in Callers : Serve(c)) \/ UNCHANGED attemptVars
  PROVE  AttemptInv'
<1>1. UNCHANGED <<kind, current, cancelled, clientClosed, jar, drained, at, stale, result>>
  BY DEF Signed, Deadline, Serve, attemptVars, owner, client
<1>. QED BY <1>1 DEF AttemptInv, AttemptTypes, OwnerInv, DrainInv

LEMMA CloseStep ==
  ASSUME AttemptInv, Close
  PROVE  AttemptInv'
<1>1. UNCHANGED <<kind, current, cancelled, jar, drained, at, stale, result>> /\ clientClosed' = TRUE
  BY DEF Close, owner
<1>. QED BY <1>1 DEF AttemptInv, AttemptTypes, OwnerInv, DrainInv

LEMMA AttemptInductive == AttemptInv /\ [NextAttempt]_attemptVars => AttemptInv'
<1> SUFFICES ASSUME AttemptInv, [NextAttempt]_attemptVars PROVE AttemptInv'
  OBVIOUS
<1>1. ASSUME NEW c \in Callers, Progress(c) PROVE AttemptInv'
  BY <1>1, CallStep, DrainStep DEF Progress
<1>. QED BY <1>1, AttemptBegins, DropStep, CancelStep, OtherStep, CloseStep DEF NextAttempt

\* Once a cancel or logout has returned, the jar is empty and nothing can fill
\* it again, for any number of overlapping polls.
THEOREM Forgotten == SpecAttempt => []ForgottenWhenDrained
<1>1. AttemptInv => ForgottenWhenDrained
  BY DEF AttemptInv, DrainInv, ForgottenWhenDrained
<1>. QED BY <1>1, AttemptInit, AttemptInductive, PTL DEF SpecAttempt

\* What a task of a cancelled client ends with.
LEMMA QuietStep ==
  ASSUME AttemptInv, kind = "avanza", cancelled, NextAttempt
  PROVE  \E c \in Callers, r \in Results \ {"session", "ok"} :
           result' = result \/ result' = [result EXCEPT ![c] = r]
<1> DEFINE Ends == \E c \in Callers, r \in Results \ {"session", "ok"} :
                     result' = result \/ result' = [result EXCEPT ![c] = r]
<1> SUFFICES Ends
  OBVIOUS
<1>1. ~Active /\ ~current
  BY DEF Active, AttemptInv, OwnerInv
<1>2. \A c \in Callers, r \in Results \ {"session", "ok"} :
        (result' = result \/ result' = [result EXCEPT ![c] = r]) => Ends
  OBVIOUS
<1> HIDE DEF Ends
<1>3. CASE Signed \/ Start \/ Deadline \/ Drop \/ Close \/ \E c \in Callers : Serve(c)
  <2>1. result' = result
    BY <1>1, <1>3 DEF Signed, Start, Deadline, Drop, Close, Serve
  <2>2. "start" \in Callers /\ "none" \in Results \ {"session", "ok"}
    BY DropIsCaller DEF Results
  <2>. QED BY <1>2, <2>1, <2>2
<1>4. CASE CancelAfterLogout
  BY <1>2, <1>4, DropIsCaller DEF CancelAfterLogout, CancelCall, Return, Results
<1>5. CASE CancelSuperseded
  <2>1. result' = [result EXCEPT !["start"] = "superseded"]
    BY <1>5 DEF CancelSuperseded
  <2>. QED BY <1>2, <2>1, DropIsCaller DEF Results
<1>6. ASSUME NEW c \in Callers, Poll(c) \/ SendPoll(c) PROVE Ends
  BY <1>1, <1>2, <1>6 DEF Poll, SendPoll, Return, Results
<1>7. ASSUME NEW c \in Callers, DeliverRefused(c) \/ Fail(c) \/ CleanupOver(c) \/ Drained(c)
      PROVE  Ends
  BY <1>2, <1>7 DEF DeliverRefused, Fail, CleanupOver, Drained, Return, Results, Cleanup
<1>8. ASSUME NEW c \in Callers, DeliverStart(c) \/ DeliverRestart(c) \/ DeliverCollect(c)
      PROVE  Ends
  BY <1>1, <1>8 DEF DeliverStart, DeliverRestart, DeliverCollect, Refused, Attempting
<1>9. ASSUME NEW c \in Callers, Poll(c) \/ Progress(c) PROVE Ends
  BY <1>6, <1>7, <1>8, <1>9 DEF Progress
<1>. QED BY <1>3, <1>4, <1>5, <1>9 DEF NextAttempt

\* A cancelled client gives nobody a session or a code to scan.
THEOREM NothingReturned == SpecAttempt => CancelledReturnsNothing
<1> DEFINE Quiet == kind = "avanza" /\ cancelled =>
             \A c \in Callers : result'[c] \in {"session", "ok"} =>
                                  result'[c] = result[c]
<1>1. ASSUME AttemptInv, [NextAttempt]_attemptVars PROVE [Quiet]_attemptVars
  <2>1. CASE UNCHANGED attemptVars
    BY <2>1
  <2>2. ASSUME NextAttempt, kind = "avanza", cancelled, NEW d \in Callers,
               result'[d] \in {"session", "ok"}
        PROVE  result'[d] = result[d]
    <3>1. PICK c \in Callers, r \in Results \ {"session", "ok"} :
            result' = result \/ result' = [result EXCEPT ![c] = r]
      BY <1>1, <2>2, QuietStep
    <3>. QED BY <1>1, <2>2, <3>1 DEF AttemptInv, AttemptTypes
  <2>. QED BY <1>1, <2>1, <2>2
<1>. QED BY <1>1, AttemptInit, AttemptInductive, PTL DEF SpecAttempt, CancelledReturnsNothing

-----------------------------------------------------------------------------
(* One confirmed call publishes at most one post.  The right to publish is a *)
(* token: it is made when the command is written to the pipe, and moves to   *)
(* the daemon's task, to the request on the wire and to the post.  It is     *)
(* never in two places, so no place is entered twice.                        *)

Command == [call : Calls, action : Methods \union {"shutdown"}]
Steps   == {"loop", "prepare", "write", "answered", "signing_out"}
Task    == [step : Steps, call : Calls \union {NoCall},
            code : Codes \union {"none", "ok"}]

Types ==
  /\ method \in [Calls -> Methods]
  /\ pc \in [Calls -> {"idle", "lock", "status", "write", "asked",
                       "stopping", "done"}]
  /\ outcome \in [Calls -> {"none", "refused", "failed", "sign_in", "status",
                            "receipt", "cancelled"}]
  /\ \A c \in Calls : outcome[c] = "refused" => pc[c] = "done"
  /\ inbox \in [Workers -> Seq(Command)]
  /\ task \in [Workers -> Task]
  /\ \A w \in Workers : task[w].step # "loop" => task[w].call \in Calls
  /\ wire \subseteq [by : Workers, call : Calls]
  /\ posts \in [Calls -> Nat]

\* The places of the token of call c.
Queued(w, i, c) ==
  i \in 1 .. Len(inbox[w]) /\ inbox[w][i].call = c /\ inbox[w][i].action \in Writes
Preparing(w, c) == task[w].step = "prepare" /\ task[w].call = c
OnWire(c) == \E r \in wire : r.call = c

\* The call has written its command, so it has had its token.
Sent(c) == pc[c] \notin {"idle", "lock", "status"} /\ outcome[c] # "refused"

QueuedInv(c) ==
  \A w \in Workers, i \in Nat : Queued(w, i, c) =>
    /\ Sent(c) /\ ~OnWire(c) /\ posts[c] = 0
    /\ \A v \in Workers, j \in Nat : Queued(v, j, c) => v = w /\ j = i
    /\ \A v \in Workers : ~Preparing(v, c)

PreparingInv(c) ==
  \A w \in Workers : Preparing(w, c) =>
    /\ Sent(c) /\ ~OnWire(c) /\ posts[c] = 0
    /\ \A v \in Workers : Preparing(v, c) => v = w

WireInv(c) ==
  /\ OnWire(c) => Sent(c) /\ posts[c] = 0
  /\ \A r, q \in wire : r.call = c /\ q.call = c => r = q

PostInv(c) == posts[c] \in {0, 1} /\ (posts[c] = 1 => Sent(c))

Token(c) == QueuedInv(c) /\ PreparingInv(c) /\ WireInv(c) /\ PostInv(c)

Inv == Types /\ \A c \in Calls : Token(c)

LEMMA InitInv == Init => Inv
BY DEF Init, Inv, Types, Methods, Writes, Task, Steps, Codes, Loop, Token, QueuedInv,
   PreparingInv, WireInv, PostInv, Queued, Preparing, OnWire

\* A step that makes no token and moves none.
LEMMA Fewer ==
  ASSUME Inv, NEW c \in Calls,
         \A w \in Workers, i \in Nat : Queued(w, i, c)' => Queued(w, i, c),
         \A w \in Workers : Preparing(w, c)' => Preparing(w, c),
         wire' \subseteq wire, posts' = posts,
         Sent(c) => Sent(c)'
  PROVE  Token(c)'
<1>1. Token(c) /\ (OnWire(c)' => OnWire(c))
  BY DEF Inv, OnWire
<1>2. QueuedInv(c)'
  BY <1>1 DEF Token, QueuedInv
<1>3. PreparingInv(c)'
  BY <1>1 DEF Token, PreparingInv
<1>4. WireInv(c)' /\ PostInv(c)'
  BY <1>1 DEF Token, WireInv, PostInv
<1>. QED BY <1>2, <1>3, <1>4 DEF Token

\* A command that is no write is appended to one inbox, or to none.
LEMMA SendsOther ==
  ASSUME Inv, NEW d \in Calls, NEW w, NEW action \in Methods \union {"shutdown"},
         action \notin Writes,
         \/ inbox' = inbox
         \/ inbox' = [inbox EXCEPT ![w] = Append(@, [call |-> d, action |-> action])]
  PROVE  /\ inbox' \in [Workers -> Seq(Command)]
         /\ \A c \in Calls, v \in Workers, i \in Nat :
              Queued(v, i, c)' => Queued(v, i, c)
<1> DEFINE r == [call |-> d, action |-> action]
<1>0. \A v \in Workers : inbox[v] \in Seq(Command) /\ Append(inbox[v], r) \in Seq(Command)
  <2>1. r \in Command
    BY DEF Command
  <2>. QED BY <2>1 DEF Inv, Types
<1>1. inbox' \in [Workers -> Seq(Command)]
  BY <1>0 DEF Inv, Types
<1>2. ASSUME NEW c \in Calls, NEW v \in Workers, NEW i \in Nat, Queued(v, i, c)'
      PROVE  Queued(v, i, c)
  <2>1. CASE inbox'[v] = inbox[v]
    BY <1>2, <2>1 DEF Queued
  <2>2. CASE inbox'[v] = Append(inbox[v], [call |-> d, action |-> action])
    BY <1>2, <2>2 DEF Queued, Inv, Types, Command
  <2>. QED BY <2>1, <2>2 DEF Inv, Types
<1>. QED BY <1>1, <1>2

-----------------------------------------------------------------------------
(* The broker.                                                              *)

LEMMA BeginStep ==
  ASSUME Inv, NEW d \in Calls, Begin(d)
  PROVE  Inv'
<1>1. /\ pc[d] = "idle" /\ UNCHANGED <<inbox, task, wire, posts>>
      /\ \E m \in Methods : method' = [method EXCEPT ![d] = m]
      /\ \/ pc' = [pc EXCEPT ![d] = "lock"] /\ outcome' = outcome
         \/ /\ pc' = [pc EXCEPT ![d] = "done"]
            /\ \E o \in {"failed", "refused"} : outcome' = [outcome EXCEPT ![d] = o]
  BY DEF Begin, Ask, Finish, pipes, placera
<1>2. Types'
  <2>1. method' \in [Calls -> Methods]
    BY <1>1 DEF Inv, Types
  <2>2. CASE pc' = [pc EXCEPT ![d] = "lock"] /\ outcome' = outcome
    BY <1>1, <2>1, <2>2 DEF Inv, Types
  <2>3. CASE /\ pc' = [pc EXCEPT ![d] = "done"]
             /\ \E o \in {"failed", "refused"} : outcome' = [outcome EXCEPT ![d] = o]
    BY <1>1, <2>1, <2>3 DEF Inv, Types
  <2>. QED BY <1>1, <2>2, <2>3
<1>3. ASSUME NEW c \in Calls PROVE Token(c)'
  <2>1. Sent(c) => Sent(c)'
    BY <1>1 DEF Inv, Types, Sent
  <2>. QED BY <1>1, <2>1, Fewer DEF Queued, Preparing
<1>. QED BY <1>2, <1>3 DEF Inv

LEMMA EnterStep ==
  ASSUME Inv, NEW d \in Calls, Enter(d)
  PROVE  Inv'
<1>1. /\ pc[d] = "lock" /\ UNCHANGED <<method, task, wire, posts>>
      /\ \E p \in {"status", "asked", "done"} : pc' = [pc EXCEPT ![d] = p]
      /\ \/ outcome' = outcome
         \/ \E o \in {"sign_in", "status", "failed"} :
              outcome' = [outcome EXCEPT ![d] = o]
  BY DEF Enter, Send, Finish, placera
<1>2. /\ FirstAction(method[d]) \in Methods \union {"shutdown"}
      /\ FirstAction(method[d]) \notin Writes
      /\ FirstAction("connect") = "connect"
  BY DEF Inv, Types, FirstAction, Methods, Writes
<1>3. \E w : \/ inbox' = inbox
             \/ inbox' = [inbox EXCEPT ![w] =
                  Append(@, [call |-> d, action |-> FirstAction(method[d])])]
  BY <1>2 DEF Enter, Send
<1>4. /\ inbox' \in [Workers -> Seq(Command)]
      /\ \A c \in Calls, v \in Workers, i \in Nat :
           Queued(v, i, c)' => Queued(v, i, c)
  BY <1>2, <1>3, SendsOther
<1>5. Types'
  BY <1>1, <1>4 DEF Inv, Types
<1>6. ASSUME NEW c \in Calls PROVE Token(c)'
  <2>1. Sent(c) => Sent(c)'
    BY <1>1 DEF Inv, Types, Sent
  <2>. QED BY <1>1, <1>4, <2>1, Fewer DEF Preparing
<1>. QED BY <1>5, <1>6 DEF Inv

\* A frame that ends the call, a timeout, a cancellation, the worker's end.
Leaves(d) ==
  /\ pc[d] \notin {"idle", "done"} /\ UNCHANGED <<method, inbox, task, wire, posts>>
  /\ \E p \in {"stopping", "done"} : pc' = [pc EXCEPT ![d] = p]
  /\ \/ outcome' = outcome
     \/ \E o \in {"sign_in", "status", "failed", "receipt", "cancelled"} :
          outcome' = [outcome EXCEPT ![d] = o]

LEMMA LeavesStep ==
  ASSUME Inv, NEW d \in Calls, Leaves(d)
  PROVE  Inv'
<1>1. Types'
  BY DEF Inv, Types, Leaves
<1>2. ASSUME NEW c \in Calls PROVE Token(c)'
  <2>1. Sent(c) => Sent(c)'
    BY DEF Inv, Types, Sent, Leaves
  <2>. QED BY <2>1, Fewer DEF Leaves, Queued, Preparing
<1>. QED BY <1>1, <1>2 DEF Inv

\* The daemon reports a session: the write goes into the pipe.
LEMMA WriteSent ==
  ASSUME Inv, NEW d \in Calls, pc[d] = "status", pc' = [pc EXCEPT ![d] = "write"],
         UNCHANGED <<method, outcome, task, wire, posts>>, NEW w,
         \/ inbox' = inbox
         \/ inbox' = [inbox EXCEPT ![w] =
              Append(@, [call |-> d, action |-> method[d]])]
  PROVE  Inv'
<1>0. \A v \in Workers :
        Append(inbox[v], [call |-> d, action |-> method[d]]) \in Seq(Command)
  <2>1. [call |-> d, action |-> method[d]] \in Command
    BY DEF Command, Inv, Types
  <2>. QED BY <2>1 DEF Inv, Types
<1>1. Types'
  <2>0. inbox \in [Workers -> Seq(Command)]
    BY DEF Inv, Types
  <2>1. inbox' \in [Workers -> Seq(Command)]
    BY <1>0, <2>0
  <2>. QED BY <2>1 DEF Inv, Types
<1>2. ASSUME NEW c \in Calls, c # d PROVE Token(c)'
  <2>1. Sent(c) => Sent(c)'
    BY <1>2 DEF Inv, Types, Sent
  <2>2. ASSUME NEW v \in Workers, NEW i \in Nat, Queued(v, i, c)'
        PROVE  Queued(v, i, c)
    <3>1. CASE inbox'[v] = inbox[v]
      BY <2>2, <3>1 DEF Queued
    <3>2. CASE inbox'[v] = Append(inbox[v], [call |-> d, action |-> method[d]])
      BY <1>2, <2>2, <3>2 DEF Queued, Inv, Types, Command
    <3>. QED BY <3>1, <3>2 DEF Inv, Types
  <2>. QED BY <2>1, <2>2, Fewer DEF Preparing
<1>3. Token(d)'
  <2>1. ~Sent(d) /\ Token(d) /\ Sent(d)'
    BY DEF Sent, Inv, Types
  <2>2. /\ \A v \in Workers, i \in Nat : ~Queued(v, i, d)
        /\ \A v \in Workers : ~Preparing(v, d)
        /\ ~OnWire(d) /\ posts[d] = 0
    BY <2>1 DEF Token, QueuedInv, PreparingInv, WireInv, PostInv
  <2>3. /\ \A v \in Workers : ~Preparing(v, d)'
        /\ ~OnWire(d)' /\ posts'[d] = 0
    BY <2>2 DEF Preparing, OnWire
  <2>4. ASSUME NEW v \in Workers, NEW i \in Nat, Queued(v, i, d)'
        PROVE  v = w /\ i = Len(inbox[w]) + 1
    <3>1. CASE inbox'[v] = inbox[v]
      BY <2>2, <2>4, <3>1 DEF Queued
    <3>2. CASE v = w /\ inbox'[v] = Append(inbox[v], [call |-> d, action |-> method[d]])
      BY <2>2, <2>4, <3>2 DEF Queued, Inv, Types, Command
    <3>. QED BY <3>1, <3>2 DEF Inv, Types
  <2>. QED BY <2>1, <2>3, <2>4 DEF Token, QueuedInv, PreparingInv, WireInv, PostInv,
             OnWire
<1>. QED BY <1>1, <1>2, <1>3 DEF Inv

LEMMA ReadsStep ==
  ASSUME Inv, NEW d \in Calls, Reads(d)
  PROVE  Inv'
<1>1. \/ Leaves(d)
      \/ /\ pc[d] = "status" /\ pc' = [pc EXCEPT ![d] = "write"]
         /\ UNCHANGED <<method, outcome, task, wire, posts>>
         /\ \E w : \/ inbox' = inbox
                   \/ inbox' = [inbox EXCEPT ![w] =
                        Append(@, [call |-> d, action |-> method[d]])]
  BY DEF Reads, Awaits, Retire, Finish, Send, WriteEnd, Leaves, placera
<1>. QED BY <1>1, LeavesStep, WriteSent

LEMMA EndsStep ==
  ASSUME Inv, NEW d \in Calls, NoAnswer(d) \/ Cancel(d) \/ Stopped(d)
  PROVE  Inv'
<1>1. Leaves(d)
  BY DEF NoAnswer, Cancel, Stopped, Retire, Finish, Awaits, Others, Leaves, pipes,
     placera, Inv, Types
<1>. QED BY <1>1, LeavesStep

-----------------------------------------------------------------------------
(* The daemon.                                                              *)

\* The first command of an inbox is taken; the rest moves up.
LEMMA Taken ==
  ASSUME Inv, NEW w \in Workers, inbox[w] # <<>>,
         inbox' = [inbox EXCEPT ![w] = Tail(@)],
         NEW c \in Calls, NEW v \in Workers, NEW i \in Nat, Queued(v, i, c)'
  PROVE  Queued(v, IF v = w THEN i + 1 ELSE i, c)
<1>1. CASE v = w
  BY <1>1 DEF Queued, Inv, Types
<1>2. CASE v # w
  BY <1>2 DEF Queued, Inv, Types
<1>. QED BY <1>1, <1>2

LEMMA TakeStep ==
  ASSUME Inv, NEW w \in Workers, Take(w)
  PROVE  Inv'
<1> DEFINE cmd == Head(inbox[w])
           starts == cmd.action \in Writes /\ auth[w] = "connected"
<1>1. /\ inbox[w] # <<>> /\ inbox' = [inbox EXCEPT ![w] = Tail(@)]
      /\ task' = IF starts THEN [task EXCEPT ![w] = At("prepare", cmd.call)] ELSE task
      /\ UNCHANGED <<method, pc, outcome, wire, posts>>
      /\ task[w].step = "loop"
  BY DEF Take, callVars, placera
<1>2. cmd \in Command /\ cmd = inbox[w][1] /\ 1 \in 1 .. Len(inbox[w])
      /\ Tail(inbox[w]) \in Seq(Command)
  BY <1>1 DEF Inv, Types
<1>3. Types'
  <2>1. inbox' \in [Workers -> Seq(Command)]
    BY <1>1, <1>2 DEF Inv, Types
  <2>2. task' \in [Workers -> Task]
    BY <1>1, <1>2 DEF Inv, Types, Task, Steps, At, Command
  <2>3. \A v \in Workers : task'[v].step # "loop" => task'[v].call \in Calls
    BY <1>1, <1>2 DEF Inv, Types, Task, Steps, At, Command
  <2>. QED BY <1>1, <2>1, <2>2, <2>3 DEF Inv, Types
<1>4. ASSUME NEW c \in Calls PROVE Token(c)'
  <2>0. Token(c) /\ Sent(c)' = Sent(c) /\ OnWire(c)' = OnWire(c) /\ posts' = posts
    BY <1>1 DEF Inv, Sent, OnWire
  <2>1. \A v \in Workers, i \in Nat :
          Queued(v, i, c)' => Queued(v, IF v = w THEN i + 1 ELSE i, c)
    BY <1>1, Taken
  <2>2. \A v \in Workers : Preparing(v, c)' =>
          Preparing(v, c) \/ (v = w /\ Queued(w, 1, c))
    BY <1>1, <1>2 DEF Preparing, Queued, At, Inv, Types
  <2>3. QueuedInv(c)'
    <3> SUFFICES ASSUME NEW v \in Workers, NEW i \in Nat, Queued(v, i, c)'
                 PROVE  /\ Sent(c)' /\ ~OnWire(c)' /\ posts'[c] = 0
                        /\ \A u \in Workers, j \in Nat :
                             Queued(u, j, c)' => u = v /\ j = i
                        /\ \A u \in Workers : ~Preparing(u, c)'
      BY DEF QueuedInv
    <3> DEFINE k == IF v = w THEN i + 1 ELSE i
    <3>1. Queued(v, k, c) /\ k \in Nat /\ i \in 1 .. Len(inbox'[v])
      BY <2>1 DEF Queued
    <3>2. ~(v = w /\ k = 1)
      BY <3>1, <1>1, <1>2 DEF Inv, Types
    <3>3. /\ Sent(c) /\ ~OnWire(c) /\ posts[c] = 0
          /\ \A u \in Workers, j \in Nat : Queued(u, j, c) => u = v /\ j = k
          /\ \A u \in Workers : ~Preparing(u, c)
      BY <2>0, <3>1 DEF Token, QueuedInv
    <3>4. ASSUME NEW u \in Workers, NEW j \in Nat, Queued(u, j, c)'
          PROVE  u = v /\ j = i
      BY <2>1, <3>3, <3>4
    <3>5. ~Queued(w, 1, c)
      BY <3>2, <3>3
    <3>. QED BY <2>0, <2>2, <3>3, <3>4, <3>5
  <2>4. PreparingInv(c)'
    <3> SUFFICES ASSUME NEW v \in Workers, Preparing(v, c)'
                 PROVE  /\ Sent(c)' /\ ~OnWire(c)' /\ posts'[c] = 0
                        /\ \A u \in Workers : Preparing(u, c)' => u = v
      BY DEF PreparingInv
    <3>1. CASE Preparing(v, c)
      <4>1. ~Queued(w, 1, c)
        BY <2>0, <3>1 DEF Token, QueuedInv
      <4>. QED BY <2>0, <2>2, <3>1, <4>1 DEF Token, PreparingInv
    <3>2. CASE v = w /\ Queued(w, 1, c)
      BY <2>0, <2>2, <3>2 DEF Token, QueuedInv
    <3>. QED BY <2>2, <3>1, <3>2
  <2>5. WireInv(c)' /\ PostInv(c)'
    BY <1>1, <2>0 DEF Token, WireInv, PostInv
  <2>. QED BY <2>3, <2>4, <2>5 DEF Token
<1>. QED BY <1>3, <1>4 DEF Inv

\* The steps of a command that make nothing ready to be sent.
LEMMA TaskStep ==
  ASSUME Inv, NEW w \in Workers,
         GiveUp(w) \/ Answered(w) \/ SignedOut(w) \/ Page(w) \/ Exit(w) \/ Reaped(w)
  PROVE  Inv'
<1>1. /\ UNCHANGED <<method, pc, outcome, wire, posts>>
      /\ inbox' = inbox \/ inbox' = [inbox EXCEPT ![w] = <<>>]
      /\ \/ task' = task
         \/ task' = [task EXCEPT ![w] = Loop]
         \/ /\ task[w].step # "loop"
            /\ \/ task' = [task EXCEPT ![w] = Answer(task[w].call, "network")]
               \/ task' = [task EXCEPT ![w] = At("signing_out", task[w].call)]
  BY DEF GiveUp, Answered, SignedOut, Page, Exit, Reaped, callVars, pipes, placera
<1>2. /\ Loop \in Task /\ Loop.step = "loop"
      /\ task[w].step # "loop" => LET c == task[w].call IN
           /\ c \in Calls /\ Answer(c, "network") \in Task /\ At("signing_out", c) \in Task
           /\ Answer(c, "network").call = c /\ Answer(c, "network").step = "answered"
           /\ At("signing_out", c).call = c /\ At("signing_out", c).step = "signing_out"
  BY DEF Inv, Types, Task, Steps, Codes, Loop, At, Answer
<1>3. /\ task' \in [Workers -> Task]
      /\ \A v \in Workers : /\ task'[v].step # "loop" => task'[v].call \in Calls
                            /\ task'[v] = task[v] \/ task'[v].step # "prepare"
  BY <1>1, <1>2 DEF Inv, Types
<1>4. inbox' \in [Workers -> Seq(Command)]
  <2>1. inbox \in [Workers -> Seq(Command)] /\ <<>> \in Seq(Command)
    BY DEF Inv, Types
  <2>. QED BY <1>1, <2>1
<1>5. Types'
  BY <1>1, <1>3, <1>4 DEF Inv, Types
<1>6. ASSUME NEW c \in Calls PROVE Token(c)'
  <2>1. ASSUME NEW v \in Workers, NEW i \in Nat, Queued(v, i, c)'
        PROVE  Queued(v, i, c)
    <3>1. CASE inbox'[v] = inbox[v]
      BY <2>1, <3>1 DEF Queued
    <3>2. CASE inbox'[v] = <<>>
      BY <2>1, <3>2 DEF Queued
    <3>. QED BY <1>1, <3>1, <3>2 DEF Inv, Types
  <2>2. \A v \in Workers : Preparing(v, c)' => Preparing(v, c)
    BY <1>3 DEF Preparing
  <2>3. Sent(c) => Sent(c)'
    BY <1>1 DEF Sent
  <2>. QED BY <1>1, <2>1, <2>2, <2>3, Fewer
<1>. QED BY <1>5, <1>6 DEF Inv

\* The request goes out, or the write ends before it.
LEMMA PreparedStep ==
  ASSUME Inv, NEW w \in Workers, Prepared(w)
  PROVE  Inv'
<1>0. PICK d \in Calls : d = task[w].call /\ task[w].step = "prepare"
  BY DEF Prepared, Inv, Types
<1>1. /\ Preparing(w, d)
      /\ UNCHANGED <<method, pc, outcome, inbox, posts>>
      /\ \/ /\ wire' = wire \union {[by |-> w, call |-> d]}
            /\ task' = [task EXCEPT ![w] = At("write", d)]
         \/ /\ \E code \in Codes : task' = [task EXCEPT ![w] = Answer(d, code)]
            /\ wire' = wire
  BY <1>0 DEF Prepared, callVars, pipes, Preparing
<1>2a. /\ At("write", d) \in Task /\ At("write", d).call = d
       /\ At("write", d).step = "write"
       /\ \A code \in Codes : /\ Answer(d, code) \in Task /\ Answer(d, code).call = d
                              /\ Answer(d, code).step = "answered"
  BY DEF Task, Steps, At, Answer
<1>2b. /\ task' \in [Workers -> Task] /\ task'[w].call = d
       /\ task'[w].step \in {"write", "answered"}
       /\ \A v \in Workers \ {w} : task'[v] = task[v]
  BY <1>1, <1>2a DEF Inv, Types
<1>2. Types'
  <2>1. \A v \in Workers : task'[v].step # "loop" => task'[v].call \in Calls
    BY <1>2b DEF Inv, Types
  <2>2. wire' \subseteq [by : Workers, call : Calls]
    BY <1>1 DEF Inv, Types
  <2>. QED BY <1>1, <1>2b, <2>1, <2>2 DEF Inv, Types
<1>3. ASSUME NEW c \in Calls
      PROVE  /\ \A v \in Workers : Preparing(v, c)' => Preparing(v, c) /\ v # w
             /\ Sent(c)' = Sent(c)
             /\ \A v \in Workers, i \in Nat : Queued(v, i, c)' = Queued(v, i, c)
  BY <1>1, <1>2b DEF Preparing, Sent, Queued
<1>4. ASSUME NEW c \in Calls, c # d \/ wire' = wire PROVE Token(c)'
  <2>1. Token(c) /\ OnWire(c)' = OnWire(c)
    BY <1>1, <1>4 DEF Inv, OnWire
  <2>2. QueuedInv(c)' /\ PreparingInv(c)'
    BY <1>1, <1>3, <2>1 DEF Token, QueuedInv, PreparingInv
  <2>3. WireInv(c)' /\ PostInv(c)'
    BY <1>1, <1>3, <1>4, <2>1 DEF Token, WireInv, PostInv, OnWire
  <2>. QED BY <2>2, <2>3 DEF Token
<1>5. CASE wire' = wire \union {[by |-> w, call |-> d]}
  <2>1. /\ Sent(d) /\ ~OnWire(d) /\ posts[d] = 0
        /\ \A v \in Workers : Preparing(v, d) => v = w
        /\ \A v \in Workers, i \in Nat : ~Queued(v, i, d)
    BY <1>1 DEF Inv, Token, PreparingInv, QueuedInv
  <2>2. QueuedInv(d)' /\ PreparingInv(d)'
    BY <1>1, <1>3, <2>1 DEF QueuedInv, PreparingInv
  <2>3. WireInv(d)' /\ PostInv(d)'
    BY <1>1, <1>3, <1>5, <2>1 DEF WireInv, PostInv, OnWire
  <2>. QED BY <1>1, <1>2, <1>4, <2>2, <2>3 DEF Inv, Token
<1>. QED BY <1>1, <1>2, <1>4, <1>5 DEF Inv

-----------------------------------------------------------------------------
(* Placera.                                                                 *)

LEMMA BackShape ==
  ASSUME Inv, NEW r \in wire, NEW code \in Codes \union {"ok"}, Back(r, code)
  PROVE  /\ task' \in [Workers -> Task]
         /\ \A w \in Workers : task'[w].step # "loop" => task'[w].call \in Calls
         /\ \A w \in Workers, c \in Calls : Preparing(w, c)' => Preparing(w, c)
BY DEF Inv, Types, Back, Answer, Preparing, Task, Steps

LEMMA RefuseStep ==
  ASSUME Inv, NEW r \in wire, Refuse(r)
  PROVE  Inv'
<1>1. /\ wire' = wire \ {r}
      /\ UNCHANGED <<method, pc, outcome, inbox, posts>>
  BY DEF Refuse, callVars, pipes
<1>2. \E code \in Codes \union {"ok"} : Back(r, code)
  BY DEF Refuse, Codes
<1>3. Types'
  BY <1>1, <1>2, BackShape DEF Inv, Types
<1>4. ASSUME NEW c \in Calls PROVE Token(c)'
  BY <1>1, <1>2, BackShape, Fewer DEF Sent, Queued
<1>. QED BY <1>3, <1>4 DEF Inv

LEMMA PublishStep ==
  ASSUME Inv, NEW r \in wire, Publish(r)
  PROVE  Inv'
<1> DEFINE d == r.call
<1>1. /\ wire' = wire \ {r} /\ d \in Calls
      /\ posts' = [posts EXCEPT ![d] = @ + 1]
      /\ UNCHANGED <<method, pc, outcome, inbox>>
  BY DEF Publish, callVars, pipes, Inv, Types
<1>2. \E code \in Codes \union {"ok"} : Back(r, code)
  BY DEF Publish, Codes
<1>3. Types'
  BY <1>1, <1>2, BackShape DEF Inv, Types
<1>4. ASSUME NEW c \in Calls
      PROVE  /\ \A v \in Workers : Preparing(v, c)' => Preparing(v, c)
             /\ Sent(c)' = Sent(c)
             /\ \A v \in Workers, i \in Nat : Queued(v, i, c)' = Queued(v, i, c)
             /\ OnWire(c)' => OnWire(c)
  BY <1>1, <1>2, BackShape DEF Sent, Queued, OnWire
<1>5. ASSUME NEW c \in Calls, c # d PROVE Token(c)'
  <2>1. Token(c) /\ posts'[c] = posts[c]
    BY <1>1, <1>5 DEF Inv, Types
  <2>2. QueuedInv(c)' /\ PreparingInv(c)'
    BY <1>4, <2>1 DEF Token, QueuedInv, PreparingInv
  <2>3. WireInv(c)' /\ PostInv(c)'
    BY <1>1, <1>4, <2>1 DEF Token, WireInv, PostInv
  <2>. QED BY <2>2, <2>3 DEF Token
<1>6. Token(d)'
  <2>1. OnWire(d) /\ Token(d)
    BY <1>1 DEF OnWire, Inv
  <2>2. /\ Sent(d) /\ posts'[d] = 1
        /\ \A v \in Workers : ~Preparing(v, d)
        /\ \A v \in Workers, i \in Nat : ~Queued(v, i, d)
    BY <1>1, <2>1 DEF Token, WireInv, QueuedInv, PreparingInv, Inv, Types
  <2>3. ~OnWire(d)'
    BY <1>1, <2>1 DEF Token, WireInv, OnWire
  <2>. QED BY <1>1, <1>4, <2>2, <2>3 DEF Token, QueuedInv, PreparingInv, WireInv,
             PostInv, OnWire
<1>. QED BY <1>3, <1>5, <1>6 DEF Inv

LEMMA InvIsInductive == Inv /\ [Next]_vars => Inv'
<1> SUFFICES ASSUME Inv, [Next]_vars PROVE Inv'
  OBVIOUS
<1>1. ASSUME NEW d \in Calls, BrokerStep(d) PROVE Inv'
  BY <1>1, BeginStep, EnterStep, ReadsStep, EndsStep DEF BrokerStep
<1>2. ASSUME NEW w \in Workers, WorkerStep(w) PROVE Inv'
  BY <1>2, TakeStep, PreparedStep, TaskStep DEF WorkerStep
<1>3. ASSUME NEW r \in wire, Publish(r) \/ Refuse(r) PROVE Inv'
  BY <1>3, PublishStep, RefuseStep
<1>4. CASE UNCHANGED vars
  <2>1. UNCHANGED <<method, pc, outcome, inbox, task, wire, posts>>
    BY <1>4 DEF vars, callVars, pipes, placera
  <2>2. Types'
    BY <2>1 DEF Inv, Types
  <2>. QED BY <2>1, <2>2, Fewer DEF Inv, Queued, Preparing, Sent
<1>. QED BY <1>1, <1>2, <1>3, <1>4 DEF Next

\* No confirmed call puts two posts on the forum and no other call puts one, for
\* any number of calls and daemons and whatever is lost, late or cancelled.
THEOREM OnePost == Spec => []PostedOnce
<1>1. Inv => PostedOnce
  <2> SUFFICES ASSUME Inv, NEW c \in Calls
               PROVE  posts[c] <= 1 /\ (Told(c, "refused") => posts[c] = 0)
    BY DEF PostedOnce
  <2>1. posts[c] \in {0, 1} /\ (posts[c] = 1 => outcome[c] # "refused")
    BY DEF Inv, Token, PostInv, Sent
  <2>. QED BY <2>1 DEF Told
<1>. QED BY <1>1, InitInv, InvIsInductive, PTL DEF Spec
-----------------------------------------------------------------------------
(* Who answers whom.  The frame of a write carries no number: that it is the   *)
(* answer to the call that reads it rests on the lock, whose holder alone has  *)
(* anything under way in the registered daemon, and on the daemons that are    *)
(* thrown away with an answer still to come.                                   *)

Frame == [call : Calls, kind : {"status", "result", "error"},
          code : Codes \union AuthStates \union {"none", "ok"}]

PipeTypes ==
  /\ queue \in Seq(Calls)
  /\ peer \in [Calls -> Workers \union {NoWorker}] /\ slot \in Workers \union {NoWorker}
  /\ got \in [Calls -> Calls \union {NoCall}]
  /\ proc \in [Workers -> {"unborn", "running", "terminating", "exited", "reaped"}]
  /\ auth \in [Workers -> AuthStates]
  /\ outbox \in [Workers -> Seq(Frame)]

Critical  == {"status", "write", "asked", "stopping"}
Holder(c) == queue # <<>> /\ Head(queue) = c
LockInv(c) == pc[c] \in Critical => Holder(c)

\* The process a call talks to is the registered one, which aclose unregisters
\* before it has its answer and nobody reads a write's frame from.
PeerInv(c) ==
  /\ pc[c] \in {"status", "write"} => method[c] \in Writes /\ peer[c] = slot /\ slot \in Workers
  /\ pc[c] = "asked" => peer[c] \in Workers /\ slot \in {peer[c], NoWorker}
  /\ pc[c] # "done" => outcome[c] \notin {"receipt", "sign_in"}

\* A command is in one place: the inbox, the task or, answered, the outbox.
OneInv(w) ==
  /\ task[w].step # "loop" => inbox[w] = <<>> /\ outbox[w] = <<>>
  /\ inbox[w] # <<>> => outbox[w] = <<>> /\ Len(inbox[w]) = 1
  /\ outbox[w] # <<>> => Len(outbox[w]) = 1
  /\ proc[w] = "unborn" => inbox[w] = <<>> /\ outbox[w] = <<>> /\ task[w].step = "loop"

\* In the registered daemon that command is one that a call waits for.
SlotInv(w) ==
  w = slot =>
    /\ inbox[w] # <<>> => Awaits(Head(inbox[w]).call)
    /\ outbox[w] # <<>> => Awaits(Head(outbox[w]).call)
    /\ task[w].step # "loop" => Awaits(task[w].call)

\* The write of c has been asked for and will not be, nor has been, published.
Gone(c) ==
  /\ Sent(c) /\ ~OnWire(c) /\ posts[c] = 0
  /\ \A w \in Workers : ~Preparing(w, c)
  /\ \A w \in Workers, i \in Nat : ~Queued(w, i, c)

\* What the daemon is about to answer is true, whatever happened to the call.
TaskInv(w) ==
  /\ task[w].step = "answered" =>
       /\ task[w].code # "auth_required"
       /\ task[w].code = "auth_expired" => Gone(task[w].call)
       /\ task[w].code = "ok" => posts[task[w].call] = 1
  /\ task[w].step = "signing_out" => Gone(task[w].call)

FrameInv(w) ==
  outbox[w] # <<>> => LET f == Head(outbox[w]) IN
    /\ f.kind = "error" /\ f.code \in SignIn => Gone(f.call)
    /\ f.kind = "result" => posts[f.call] = 1

EndInv(c) ==
  pc[c] = "done" =>
    /\ outcome[c] = "receipt" => got[c] = c /\ posts[c] = 1
    /\ outcome[c] = "sign_in" => Gone(c)

Discipline ==
  /\ PipeTypes
  /\ \A c \in Calls : LockInv(c) /\ PeerInv(c) /\ EndInv(c)
  /\ \A w \in Workers : OneInv(w) /\ SlotInv(w) /\ TaskInv(w) /\ FrameInv(w)

LEMMA DisciplineInit == Init => Discipline
BY DEF Init, Discipline, PipeTypes, LockInv, PeerInv, EndInv, OneInv, SlotInv, TaskInv, FrameInv,
   AuthStates, Critical, Awaits, Loop

\* A set of naturals that is not empty has a least member.
LEMMA Smallest ==
  ASSUME NEW T \in SUBSET Nat, T # {}
  PROVE  \E x \in T : \A y \in T : x <= y
<1> DEFINE R == OpToRel(<, Nat)
<1>1. IsWellFoundedOn(R, Nat)
  BY NatLessThanWellFounded
<1>2. \A x, y \in Nat : x < y => <<x, y>> \in R
  BY DEF OpToRel
<1> HIDE DEF R
<1>3. PICK x \in T : \A y \in T : ~ (<<y, x>> \in R)
  BY <1>1, WFMin
<1>4. x \in Nat /\ \A y \in T : y \in Nat /\ ~ (y < x)
  BY <1>2, <1>3
<1>5. \A y \in T : x <= y
  BY ONLY <1>4
<1>. QED BY <1>5

\* Whoever leaves the lock's queue, the others keep their order.
LEMMA RemoveFirstKeeps ==
  ASSUME NEW S, NEW q \in Seq(S), NEW e
  PROVE  /\ RemoveFirst(q, e) \in Seq(S)
         /\ q # <<>> /\ Head(q) # e =>
              RemoveFirst(q, e) # <<>> /\ Head(RemoveFirst(q, e)) = Head(q)
<1>1. CASE ~ \E i \in 1..Len(q) : q[i] = e
  BY <1>1 DEF RemoveFirst
<1>2. CASE \E i \in 1..Len(q) : q[i] = e
  <2> DEFINE I == {i \in 1..Len(q) : q[i] = e}
             k == Min(I)
  <2>1. k \in I
    <3>1. I \in SUBSET Nat /\ I # {}
      BY <1>2
    <3>2. \E x \in I : \A y \in I : x <= y
      BY <3>1, Smallest
    <3>. HIDE DEF I
    <3>. QED BY <3>2 DEF Min
  <2>2. RemoveFirst(q, e) = SubSeq(q, 1, k - 1) \o SubSeq(q, k + 1, Len(q))
    BY <1>2 DEF RemoveFirst, RemoveAt, SelectInSeq
  <2>3. k \in 1..Len(q) /\ (q # <<>> /\ Head(q) # e => k > 1)
    BY <2>1
  <2>. HIDE DEF k, I
  <2>4. SubSeq(q, 1, k - 1) \in Seq(S) /\ SubSeq(q, k + 1, Len(q)) \in Seq(S)
    BY <2>3
  <2>5. RemoveFirst(q, e) \in Seq(S)
    BY <2>2, <2>4
  <2>6. ASSUME q # <<>>, Head(q) # e
        PROVE  RemoveFirst(q, e) # <<>> /\ Head(RemoveFirst(q, e)) = Head(q)
    <3>1. k \in 2..Len(q)
      BY <2>3, <2>6
    <3>2. /\ Len(SubSeq(q, 1, k - 1)) = k - 1 /\ k - 1 \in Nat /\ k - 1 >= 1
          /\ SubSeq(q, 1, k - 1)[1] = q[1]
      BY <3>1
    <3>3. RemoveFirst(q, e)[1] = q[1] /\ Len(RemoveFirst(q, e)) >= 1
      BY <2>2, <2>4, <3>2, ConcatProperties
    <3>. QED BY <2>5, <2>6, <3>3
  <2>. QED BY <2>5, <2>6
<1>. QED BY <1>1, <1>2

LEMMA AppendKeeps ==
  ASSUME NEW S, NEW q \in Seq(S), NEW e \in S
  PROVE  /\ Append(q, e) \in Seq(S)
         /\ q # <<>> => Append(q, e) # <<>> /\ Head(Append(q, e)) = Head(q)
  OBVIOUS

\* The first command or answer in a pipe.
LEMMA First ==
  ASSUME NEW S, NEW q \in Seq(S), q # <<>>
  PROVE  /\ Head(q) \in S /\ Head(q) = q[1] /\ 1 \in 1 .. Len(q)
         /\ Tail(q) \in Seq(S) /\ Len(Tail(q)) = Len(q) - 1
  OBVIOUS

LEMMA LenZero ==
  ASSUME NEW S, NEW q \in Seq(S), Len(q) = 0
  PROVE  q = <<>>
  OBVIOUS

\* A pipe with nothing but the command or the answer in question.
LEMMA Only ==
  ASSUME NEW S, NEW q \in Seq(S), q # <<>>, Len(q) = 1
  PROVE  Tail(q) = <<>>
<1>1. Tail(q) \in Seq(S) /\ Len(Tail(q)) = Len(q) - 1
  BY First
<1>2. Len(Tail(q)) = 0
  BY ONLY <1>1, Len(q) = 1
<1>. QED BY <1>1, <1>2, LenZero

LEMMA Written ==
  ASSUME NEW S, NEW q \in Seq(S), NEW e \in S, q = <<>>
  PROVE  /\ Append(q, e) \in Seq(S) /\ Append(q, e) # <<>>
         /\ Len(Append(q, e)) = 1 /\ Head(Append(q, e)) = e
<1>1. Len(q) = 0 /\ Append(q, e) \in Seq(S) /\ Append(q, e)[Len(q) + 1] = e
      /\ Len(Append(q, e)) = Len(q) + 1
  OBVIOUS
<1>2. Len(Append(q, e)) = 1 /\ Append(q, e)[1] = e
  BY <1>1
<1>. QED BY <1>1, <1>2

LEMMA FrameCall ==
  ASSUME PipeTypes, NEW w \in Workers, outbox[w] # <<>>
  PROVE  Head(outbox[w]) \in Frame /\ Head(outbox[w]).call \in Calls
<1>1. outbox[w] \in Seq(Frame)
  BY DEF PipeTypes
<1>2. Head(outbox[w]) \in Frame
  BY <1>1, First
<1>. QED BY <1>2 DEF Frame

LEMMA CommandCall ==
  ASSUME Inv, NEW w \in Workers, inbox[w] # <<>>
  PROVE  Head(inbox[w]) \in Command /\ Head(inbox[w]).call \in Calls
<1>1. inbox[w] \in Seq(Command)
  BY DEF Inv, Types
<1>2. Head(inbox[w]) \in Command
  BY <1>1, First
<1>. QED BY <1>2 DEF Command

LEMMA TaskCall ==
  ASSUME Inv, NEW w \in Workers
  PROVE  task[w] \in Task /\ (task[w].step # "loop" => task[w].call \in Calls)
BY DEF Inv, Types

-----------------------------------------------------------------------------
(* What is decided about a write stays so.                                  *)

Keeps ==
  \A c \in Calls : (Gone(c) => Gone(c)') /\ (posts[c] = 1 => posts'[c] = 1)

\* A command enters an inbox only from a call that has not sent its write.
LEMMA QueuedFrom ==
  ASSUME Inv, NEW c \in Calls, Sent(c), NEW v \in Workers, NEW i \in Nat, Queued(v, i, c)',
         \/ inbox'[v] \in {inbox[v], <<>>}
         \/ inbox[v] # <<>> /\ inbox'[v] = Tail(inbox[v])
         \/ \E k \in Command : /\ inbox'[v] = Append(inbox[v], k)
                               /\ k.call = c => k.action \notin Writes
  PROVE  \E j \in Nat : Queued(v, j, c)
<1>0. inbox[v] \in Seq(Command)
  BY DEF Inv, Types
<1>1. CASE inbox'[v] \in {inbox[v], <<>>}
  BY <1>1 DEF Queued
<1>2. CASE inbox[v] # <<>> /\ inbox'[v] = Tail(inbox[v])
  <2>1. Queued(v, i + 1, c) /\ i + 1 \in Nat
    BY <1>0, <1>2 DEF Queued
  <2>. QED BY <2>1
<1>3. ASSUME NEW k \in Command, inbox'[v] = Append(inbox[v], k), k.call = c => k.action \notin Writes
      PROVE  Queued(v, i, c)
  BY <1>0, <1>3 DEF Queued
<1>. QED BY <1>1, <1>2, <1>3

\* No step makes a token for a call that has sent its write.
LEMMA GoneStays ==
  ASSUME Inv, NEW c \in Calls, Gone(c), Sent(c)', posts'[c] = 0, ~OnWire(c)',
         \A w \in Workers : ~Preparing(w, c)',
         \A v \in Workers :
           \/ inbox'[v] \in {inbox[v], <<>>}
           \/ inbox[v] # <<>> /\ inbox'[v] = Tail(inbox[v])
           \/ \E k \in Command : /\ inbox'[v] = Append(inbox[v], k)
                                 /\ k.call = c => k.action \notin Writes
  PROVE  Gone(c)'
BY QueuedFrom DEF Gone

\* The pipes and the tokens as the steps of a call leave them.
LEMMA BrokerTokens ==
  ASSUME Inv, NEW d \in Calls, BrokerStep(d)
  PROVE  Keeps
<1>0. UNCHANGED <<task, wire, posts>>
  BY DEF BrokerStep, Begin, Ask, Enter, Reads, NoAnswer, Cancel, Stopped, Others, placera
<1>1. \A c \in Calls : Sent(c) => Sent(c)'
  BY DEF BrokerStep, Begin, Ask, Enter, Reads, NoAnswer, Cancel, Stopped, Finish, Retire, Send,
         Awaits, Others, WriteEnd, Sent, Inv, Types
<1>2. ASSUME NEW c \in Calls, Gone(c) PROVE Gone(c)'
  <2>1. ASSUME NEW v \in Workers
        PROVE  \/ inbox'[v] = inbox[v]
               \/ \E k \in Command : /\ inbox'[v] = Append(inbox[v], k)
                                     /\ k.call = c => k.action \notin Writes
    <3>1. CASE inbox' = inbox
      BY <3>1
    <3>2. ASSUME NEW w, NEW a \in Methods \union {"shutdown"}, d = c => a \notin Writes,
                 inbox' = [inbox EXCEPT ![w] = Append(@, [call |-> d, action |-> a])]
          PROVE  \/ inbox'[v] = inbox[v]
                 \/ \E k \in Command : /\ inbox'[v] = Append(inbox[v], k)
                                       /\ k.call = c => k.action \notin Writes
      <4>1. [call |-> d, action |-> a] \in Command
        BY DEF Command
      <4>. QED BY <3>2, <4>1 DEF Inv, Types
    <3>3. CASE Begin(d) \/ NoAnswer(d) \/ Cancel(d) \/ Stopped(d)
      BY <3>1, <3>3 DEF Begin, Ask, NoAnswer, Cancel, Stopped, Others, pipes
    <3>4. CASE Enter(d)
      <4>1. /\ FirstAction(method[d]) \in Methods \union {"shutdown"}
            /\ FirstAction(method[d]) \notin Writes /\ FirstAction("connect") = "connect"
        BY DEF Inv, Types, FirstAction, Methods, Writes
      <4>2. \/ inbox' = inbox
            \/ \E w : inbox' = [inbox EXCEPT ![w] =
                        Append(@, [call |-> d, action |-> FirstAction(method[d])])]
        BY <3>4, <4>1 DEF Enter, Send
      <4>. QED BY <3>1, <3>2, <4>1, <4>2
    <3>5. CASE Reads(d)
      <4>1. \/ inbox' = inbox
            \/ /\ pc[d] = "status"
               /\ inbox' = [inbox EXCEPT ![peer[d]] = Append(@, [call |-> d, action |-> method[d]])]
        BY <3>5 DEF Reads, Retire, Finish, Send
      <4>2. pc[d] = "status" => d # c
        BY <1>2 DEF Gone, Sent
      <4>3. method[d] \in Methods
        BY DEF Inv, Types
      <4>. QED BY <3>1, <3>2, <4>1, <4>2, <4>3
    <3>. QED BY <3>3, <3>4, <3>5 DEF BrokerStep
  <2>. QED BY <1>0, <1>1, <1>2, <2>1, GoneStays DEF Gone, OnWire, Preparing
<1>. QED BY <1>0, <1>2 DEF Keeps

LEMMA WorkerTokens ==
  ASSUME Inv, NEW w \in Workers, WorkerStep(w)
  PROVE  Keeps
<1>0. UNCHANGED <<pc, outcome, posts>>
  BY DEF WorkerStep, Take, Prepared, GiveUp, Answered, SignedOut, Page, Exit, Reaped, callVars, placera
<1>1. ASSUME NEW c \in Calls, Gone(c) PROVE Gone(c)'
  <2>1. \A v \in Workers : \/ inbox'[v] \in {inbox[v], <<>>}
                           \/ inbox[v] # <<>> /\ inbox'[v] = Tail(inbox[v])
    BY DEF WorkerStep, Take, Prepared, GiveUp, Answered, SignedOut, Page, Exit, Reaped, pipes, Inv, Types
  <2>2. /\ \A v \in Workers : ~Preparing(v, c)'
        /\ ~OnWire(c)'
    <3>1. CASE Take(w)
      <4>0. inbox[w] \in Seq(Command) /\ inbox[w] # <<>>
        BY <3>1 DEF Take, Inv, Types
      <4>1. Head(inbox[w]) \in Command /\ Head(inbox[w]) = inbox[w][1] /\ 1 \in 1 .. Len(inbox[w])
        BY <4>0, First
      <4>2. PICK k \in Calls : k = Head(inbox[w]).call
        BY <4>1 DEF Command
      <4>3. \/ task' = task
            \/ Queued(w, 1, k) /\ task' = [task EXCEPT ![w] = At("prepare", k)]
        BY <3>1, <4>1, <4>2 DEF Take, Queued
      <4>4. ~Queued(w, 1, c) /\ wire' = wire
        BY <1>1, <3>1 DEF Gone, Take, placera
      <4>5. At("prepare", k).call = k
        BY DEF At
      <4>6. \A v \in Workers : task'[v] = task[v] \/ task'[v].call # c
        BY <4>3, <4>4, <4>5 DEF Inv, Types
      <4>. QED BY <1>1, <4>4, <4>6 DEF Gone, Preparing, OnWire
    <3>2. CASE Prepared(w)
      <4>1. PICK k \in Calls : k = task[w].call /\ task[w].step = "prepare"
        BY <3>2 DEF Prepared, Inv, Types
      <4>2. k # c
        BY <1>1, <4>1 DEF Gone, Preparing
      <4>3. /\ wire' = wire \/ wire' = wire \union {[by |-> w, call |-> k]}
            /\ \/ task' = [task EXCEPT ![w] = At("write", k)]
               \/ \E code \in Codes : task' = [task EXCEPT ![w] = Answer(k, code)]
        BY <3>2, <4>1 DEF Prepared
      <4>4. At("write", k).call = k /\ \A code \in Codes : Answer(k, code).call = k
        BY DEF At, Answer
      <4>5. \A v \in Workers : task'[v] = task[v] \/ task'[v].call # c
        BY <4>2, <4>3, <4>4 DEF Inv, Types
      <4>6. ~OnWire(c)'
        BY <1>1, <4>2, <4>3 DEF Gone, OnWire
      <4>. QED BY <1>1, <4>5, <4>6 DEF Gone, Preparing
    <3>3. CASE GiveUp(w) \/ Answered(w) \/ SignedOut(w) \/ Page(w) \/ Exit(w) \/ Reaped(w)
      <4>1. /\ wire' = wire
            /\ \/ task' \in {task, [task EXCEPT ![w] = Loop]}
               \/ \E k : task' \in {[task EXCEPT ![w] = Answer(k, "network")],
                                  [task EXCEPT ![w] = At("signing_out", k)]}
        BY <3>3 DEF GiveUp, Answered, SignedOut, Page, Exit, Reaped, placera
      <4>2. /\ Loop.step # "prepare"
            /\ \A k : /\ Answer(k, "network").step # "prepare"
                     /\ At("signing_out", k).step # "prepare"
        BY DEF Loop, Answer, At
      <4>3. \A v \in Workers : task'[v] = task[v] \/ task'[v].step # "prepare"
        BY <4>1, <4>2 DEF Inv, Types
      <4>. QED BY <1>1, <4>1, <4>3 DEF Gone, Preparing, OnWire
    <3>. QED BY <3>1, <3>2, <3>3 DEF WorkerStep
  <2>. QED BY <1>0, <1>1, <2>1, <2>2, GoneStays DEF Gone, Sent
<1>. QED BY <1>0, <1>1 DEF Keeps

LEMMA NetTokens ==
  ASSUME Inv, NEW r \in wire, Publish(r) \/ Refuse(r)
  PROVE  Keeps
<1>0. /\ wire' = wire \ {r} /\ UNCHANGED <<pc, outcome, inbox>> /\ r.call \in Calls
      /\ posts' = posts \/ posts' = [posts EXCEPT ![r.call] = @ + 1]
  BY DEF Publish, Refuse, callVars, pipes, Inv, Types
<1>1. \E code \in Codes \union {"ok"} : Back(r, code)
  BY DEF Publish, Refuse, Codes
<1>2. ASSUME NEW c \in Calls PROVE /\ \A v \in Workers : Preparing(v, c)' => Preparing(v, c)
                                   /\ OnWire(c)' => OnWire(c)
  BY <1>0, <1>1, BackShape DEF OnWire
<1>3. ASSUME NEW c \in Calls, Gone(c) \/ posts[c] = 1 PROVE posts'[c] = posts[c]
  <2>1. ~OnWire(c)
    BY <1>3 DEF Gone, Inv, Token, WireInv
  <2>. QED BY <1>0, <2>1 DEF OnWire, Inv, Types
<1>4. ASSUME NEW c \in Calls, Gone(c) PROVE Gone(c)'
  BY <1>0, <1>2, <1>3, <1>4, GoneStays DEF Gone, Sent
<1>. QED BY <1>3, <1>4 DEF Keeps

-----------------------------------------------------------------------------
(* The steps of a call.                                                     *)

\* What any step of call d leaves alone.
Local(d) ==
  /\ UNCHANGED <<task, wire, posts, auth>>
  /\ \A c \in Calls \ {d} : /\ pc'[c] = pc[c] /\ outcome'[c] = outcome[c] /\ got'[c] = got[c]
                            /\ peer'[c] = peer[c] /\ method'[c] = method[c]

LEMMA LocalSteps ==
  ASSUME Inv, PipeTypes, NEW d \in Calls, BrokerStep(d)
  PROVE  Local(d)
BY DEF BrokerStep, Begin, Ask, Enter, Reads, NoAnswer, Cancel, Stopped, Finish, Retire, Send,
   Others, placera, Inv, Types, PipeTypes, Local

\* The other calls do not notice a step of call d, which moves the registered daemon
\* only while it holds the lock.
LEMMA OthersKeep ==
  ASSUME Discipline, Keeps, NEW d \in Calls, Local(d),
         queue' \in {queue, Append(queue, d), RemoveFirst(queue, d)},
         pc'[d] \in Critical => queue' = queue /\ Holder(d),
         slot' = slot \/ Holder(d)
  PROVE  /\ queue' \in Seq(Calls) /\ LockInv(d)'
         /\ \A c \in Calls \ {d} : LockInv(c)' /\ PeerInv(c)' /\ EndInv(c)'
<1>1. queue \in Seq(Calls)
  BY DEF Discipline, PipeTypes
<1>2. queue' \in Seq(Calls) /\ \A c \in Calls \ {d} : Holder(c) => Holder(c)'
  BY <1>1, RemoveFirstKeeps, AppendKeeps DEF Holder
<1>3. ASSUME NEW c \in Calls \ {d} PROVE LockInv(c)' /\ PeerInv(c)' /\ EndInv(c)'
  <2>1. LockInv(c) /\ PeerInv(c) /\ EndInv(c)
    BY DEF Discipline
  <2>2. pc[c] \in Critical => slot' = slot
    BY <2>1 DEF LockInv, Holder
  <2>3. LockInv(c)'
    BY <1>2, <2>1 DEF LockInv, Local
  <2>4. PeerInv(c)'
    BY <2>1, <2>2 DEF PeerInv, Local, Critical
  <2>5. EndInv(c)'
    BY <2>1 DEF EndInv, Local, Keeps
  <2>. QED BY <2>3, <2>4, <2>5
<1>. QED BY <1>2, <1>3 DEF LockInv, Holder

\* The daemons' answers stay as they are, or are read.
LEMMA AnswersKeep ==
  ASSUME Inv, Discipline, Keeps, NEW d \in Calls, Local(d), NEW w \in Workers,
         outbox'[w] \in {outbox[w], <<>>}
  PROVE  TaskInv(w)' /\ FrameInv(w)'
<1>1. TaskInv(w) /\ FrameInv(w) /\ task'[w] = task[w]
  BY DEF Discipline, Local
<1>2. outbox[w] # <<>> => Head(outbox[w]).call \in Calls
  BY FrameCall DEF Discipline
<1>3. TaskInv(w)'
  BY <1>1 DEF TaskInv, Keeps, Inv, Types
<1>4. FrameInv(w)'
  BY <1>1, <1>2 DEF FrameInv, Keeps
<1>. QED BY <1>3, <1>4

\* The pipes when call d writes nothing.  A call that stops waiting leaves nothing
\* under way in the registered daemon.
LEMMA PipesKeep ==
  ASSUME Inv, Discipline, NEW d \in Calls, Local(d), inbox' = inbox,
         \A w \in Workers : outbox'[w] \in {outbox[w], <<>>},
         \A w \in Workers : proc'[w] = "unborn" => proc[w] = "unborn",
         slot' \in {slot, NoWorker},
         slot' \in Workers /\ Awaits(d) /\ ~Awaits(d)' =>
           inbox[slot] = <<>> /\ outbox'[slot] = <<>> /\ task[slot].step = "loop",
         NEW w \in Workers
  PROVE  OneInv(w)' /\ SlotInv(w)'
<1>1. OneInv(w) /\ SlotInv(w) /\ task'[w] = task[w] /\ inbox'[w] = inbox[w]
  BY DEF Discipline, Local
<1>2. OneInv(w)'
  BY <1>1 DEF OneInv
<1>3. SlotInv(w)'
  <2> SUFFICES ASSUME w = slot' PROVE SlotInv(w)'
    BY DEF SlotInv
  <2>1. w = slot
    BY SentinelAssumption
  <2>2. \A c \in Calls : Awaits(c) => Awaits(c)' \/ c = d
    BY DEF Awaits, Local
  <2>3. /\ inbox[w] # <<>> => Head(inbox[w]).call \in Calls
        /\ outbox[w] # <<>> => Head(outbox[w]).call \in Calls
        /\ task[w].step # "loop" => task[w].call \in Calls
    BY FrameCall, CommandCall, TaskCall DEF Discipline
  <2>4. CASE Awaits(d) /\ ~Awaits(d)'
    BY <1>1, <2>1, <2>4 DEF SlotInv
  <2>5. CASE Awaits(d) => Awaits(d)'
    BY <1>1, <2>1, <2>2, <2>3, <2>5 DEF SlotInv, Awaits
  <2>. QED BY <2>4, <2>5
<1>. QED BY <1>2, <1>3

\* The pipes when call d writes to a daemon with nothing in them.
LEMMA PipesWritten ==
  ASSUME Discipline, NEW d \in Calls, Local(d), NEW a \in Methods \union {"shutdown"}, NEW u \in Workers,
         inbox[u] = <<>>, outbox'[u] = <<>>, task[u].step = "loop",
         \/ inbox' = inbox
         \/ /\ proc'[u] # "unborn"
            /\ inbox' = [inbox EXCEPT ![u] = Append(@, [call |-> d, action |-> a])],
         inbox \in [Workers -> Seq(Command)],
         \A w \in Workers : outbox'[w] \in {outbox[w], <<>>},
         \A w \in Workers : proc'[w] = "unborn" => proc[w] = "unborn",
         slot' \in {u, NoWorker}, Awaits(d)',
         NEW w \in Workers
  PROVE  OneInv(w)' /\ SlotInv(w)'
<1>1. OneInv(w) /\ task'[w] = task[w]
  BY DEF Discipline, Local
<1>2. CASE w # u
  BY <1>1, <1>2, SentinelAssumption DEF OneInv, SlotInv
<1>3. CASE w = u
  <2> DEFINE k == [call |-> d, action |-> a]
  <2>1. k \in Command /\ k.call = d
    BY DEF Command
  <2>2. \/ inbox'[u] = <<>>
        \/ /\ inbox'[u] # <<>> /\ Len(inbox'[u]) = 1 /\ Head(inbox'[u]) = k
           /\ proc'[u] # "unborn"
    <3>1. inbox'[u] = <<>> \/ (inbox'[u] = Append(inbox[u], k) /\ proc'[u] # "unborn")
      OBVIOUS
    <3>2. inbox[u] \in Seq(Command)
      OBVIOUS
    <3>3. /\ Append(inbox[u], k) # <<>> /\ Len(Append(inbox[u], k)) = 1
          /\ Head(Append(inbox[u], k)) = k
      BY <2>1, <3>2, Written
    <3>. QED BY <3>1, <3>3
  <2>. QED BY <1>1, <1>3, <2>1, <2>2 DEF OneInv, SlotInv
<1>. QED BY <1>2, <1>3

\* The holder of the lock finds the registered daemon idle, unless it waits for it.
LEMMA IdleDaemon ==
  ASSUME Inv, Discipline, NEW d \in Calls, Holder(d), slot \in Workers
  PROVE  /\ ~Awaits(d) => inbox[slot] = <<>> /\ outbox[slot] = <<>> /\ task[slot].step = "loop"
         /\ outbox[slot] # <<>> =>
              /\ Head(outbox[slot]).call = d /\ Tail(outbox[slot]) = <<>>
              /\ inbox[slot] = <<>> /\ task[slot].step = "loop"
<1>1. OneInv(slot) /\ SlotInv(slot) /\ outbox[slot] \in Seq(Frame) /\ inbox[slot] \in Seq(Command)
  BY DEF Discipline, PipeTypes, Inv, Types
<1>2. /\ inbox[slot] # <<>> => Head(inbox[slot]).call \in Calls
      /\ outbox[slot] # <<>> => Head(outbox[slot]).call \in Calls
      /\ task[slot].step # "loop" => task[slot].call \in Calls
  BY FrameCall, CommandCall, TaskCall DEF Discipline
<1>3. \A c \in Calls : Awaits(c) => c = d
  BY DEF Discipline, LockInv, Critical, Awaits, Holder
<1>4. outbox[slot] # <<>> => Tail(outbox[slot]) = <<>>
  BY <1>1, Only DEF OneInv
<1>5. outbox[slot] # <<>> => inbox[slot] = <<>> /\ task[slot].step = "loop"
  BY <1>1 DEF OneInv
<1>. QED BY <1>1, <1>2, <1>3, <1>4, <1>5 DEF SlotInv

\* A call that has not sent its write and ends has published nothing.
LEMMA NotSentGone ==
  ASSUME Inv, NEW d \in Calls, ~Sent(d), Sent(d)', UNCHANGED <<inbox, task, wire, posts>>
  PROVE  Gone(d)'
<1>1. /\ ~OnWire(d) /\ posts[d] = 0
      /\ \A w \in Workers : ~Preparing(w, d)
      /\ \A w \in Workers, i \in Nat : ~Queued(w, i, d)
  BY DEF Inv, Token, QueuedInv, PreparingInv, WireInv, PostInv
<1>. QED BY <1>1 DEF Gone, OnWire, Preparing, Queued

\* The invariant after a step of call d, from its parts.
LEMMA CallKeeps ==
  ASSUME Inv, Discipline, Keeps, NEW d \in Calls, Local(d), PipeTypes',
         queue' \in {queue, Append(queue, d), RemoveFirst(queue, d)},
         pc'[d] \in Critical => queue' = queue /\ Holder(d),
         slot' = slot \/ Holder(d),
         \A w \in Workers : outbox'[w] \in {outbox[w], <<>>},
         PeerInv(d)', EndInv(d)', \A w \in Workers : OneInv(w)' /\ SlotInv(w)'
  PROVE  Discipline'
<1>1. \A c \in Calls : LockInv(c)' /\ PeerInv(c)' /\ EndInv(c)'
  BY OthersKeep
<1>2. \A w \in Workers : TaskInv(w)' /\ FrameInv(w)'
  BY AnswersKeep
<1>. QED BY <1>1, <1>2 DEF Discipline

LEMMA QueueTypes ==
  ASSUME PipeTypes, NEW d \in Calls,
         queue' \in {queue, Append(queue, d), RemoveFirst(queue, d)}
  PROVE  queue' \in Seq(Calls)
<1>1. queue \in Seq(Calls)
  BY DEF PipeTypes
<1>. QED BY <1>1, RemoveFirstKeeps, AppendKeeps

LEMMA BeginKeeps ==
  ASSUME Inv, Discipline, Keeps, NEW d \in Calls, Begin(d), Local(d)
  PROVE  Discipline'
<1>1. /\ pc[d] = "idle" /\ UNCHANGED <<got, slot, proc, inbox, outbox, auth, task>>
      /\ \/ /\ pc' = [pc EXCEPT ![d] = "lock"] /\ queue' = Append(queue, d)
            /\ UNCHANGED <<outcome, peer>>
         \/ /\ pc' = [pc EXCEPT ![d] = "done"] /\ queue' = RemoveFirst(queue, d)
            /\ peer' = [peer EXCEPT ![d] = NoWorker]
            /\ \E o \in {"failed", "refused"} : outcome' = [outcome EXCEPT ![d] = o]
  BY DEF Begin, Ask, Finish, pipes
<1>2. PipeTypes /\ PeerInv(d)
  BY DEF Discipline
<1>3. pc'[d] \in {"lock", "done"}
  BY <1>1 DEF Inv, Types
<1>4. PipeTypes'
  <2>1. queue' \in Seq(Calls)
    BY <1>1, <1>2, QueueTypes
  <2>2. peer' \in [Calls -> Workers \union {NoWorker}]
    BY <1>1, <1>2 DEF PipeTypes
  <2>. QED BY <1>1, <1>2, <2>1, <2>2 DEF PipeTypes
<1>5. PeerInv(d)' /\ EndInv(d)'
  <2>1. CASE pc' = [pc EXCEPT ![d] = "lock"] /\ outcome' = outcome
    <3>1. pc'[d] = "lock" /\ outcome'[d] = outcome[d]
      BY <2>1 DEF Inv, Types
    <3>. QED BY <1>1, <1>2, <3>1 DEF PeerInv, EndInv
  <2>2. CASE /\ pc' = [pc EXCEPT ![d] = "done"]
             /\ \E o \in {"failed", "refused"} : outcome' = [outcome EXCEPT ![d] = o]
    <3>1. pc'[d] = "done" /\ outcome'[d] \in {"failed", "refused"}
      BY <2>2 DEF Inv, Types
    <3>. QED BY <3>1 DEF PeerInv, EndInv
  <2>. QED BY <1>1, <2>1, <2>2
<1>6. ~Awaits(d)
  BY <1>1 DEF Awaits
<1>7. \A w \in Workers : OneInv(w)' /\ SlotInv(w)'
  BY <1>1, <1>6, PipesKeep
<1>. QED BY <1>1, <1>3, <1>4, <1>5, <1>7, CallKeeps DEF Critical

\* A call that gives its answer up throws its daemon away.
LEMMA RetireKeeps ==
  ASSUME Inv, Discipline, Keeps, NEW d \in Calls, Local(d), Awaits(d),
         NEW how \in {"failed", "cancelled"}, Retire(d, how),
         inbox' = inbox, \A w \in Workers : outbox'[w] \in {outbox[w], <<>>},
         outbox' \in [Workers -> Seq(Frame)], auth' = auth,
         got' \in [Calls -> Calls \union {NoCall}]
  PROVE  Discipline'
<1>1. PipeTypes /\ PeerInv(d) /\ LockInv(d)
  BY DEF Discipline
<1>2. /\ Holder(d) /\ slot' = NoWorker /\ UNCHANGED <<queue, peer>>
      /\ pc'[d] = "stopping" /\ outcome'[d] = how
  BY <1>1, SentinelAssumption DEF Retire, Awaits, PeerInv, LockInv, Critical, Inv, Types
<1>3. /\ proc' \in [Workers -> {"unborn", "running", "terminating", "exited", "reaped"}]
      /\ \A w \in Workers : proc'[w] = "unborn" => proc[w] = "unborn"
  BY <1>1 DEF Retire, PipeTypes
<1>4. PipeTypes'
  BY <1>1, <1>2, <1>3 DEF PipeTypes
<1>5. PeerInv(d)' /\ EndInv(d)'
  BY <1>2 DEF PeerInv, EndInv
<1>6. \A w \in Workers : OneInv(w)' /\ SlotInv(w)'
  BY <1>2, <1>3, PipesKeep, SentinelAssumption
<1>. QED BY <1>2, <1>4, <1>5, <1>6, CallKeeps

\* A call that ends leaves the queue of the lock.
LEMMA FinishKeeps ==
  ASSUME Inv, Discipline, Keeps, NEW d \in Calls, Local(d),
         NEW how \in {"none", "refused", "failed", "sign_in", "status", "receipt", "cancelled"},
         Finish(d, how), slot' = slot \/ (slot' = NoWorker /\ Holder(d)), inbox' = inbox,
         \A w \in Workers : outbox'[w] \in {outbox[w], <<>>},
         outbox' \in [Workers -> Seq(Frame)], auth' = auth,
         got' \in [Calls -> Calls \union {NoCall}],
         proc' \in [Workers -> {"unborn", "running", "terminating", "exited", "reaped"}],
         \A w \in Workers : proc'[w] = "unborn" => proc[w] = "unborn",
         Awaits(d) /\ slot \in Workers =>
           inbox[slot] = <<>> /\ outbox'[slot] = <<>> /\ task[slot].step = "loop",
         how = "receipt" => got'[d] = d /\ posts'[d] = 1,
         how = "sign_in" => Gone(d)'
  PROVE  Discipline'
<1>1. PipeTypes
  BY DEF Discipline
<1>2. /\ pc'[d] = "done" /\ outcome'[d] = how /\ queue' = RemoveFirst(queue, d)
      /\ peer' \in [Calls -> Workers \union {NoWorker}]
  BY <1>1 DEF Finish, Inv, Types, PipeTypes
<1>3. queue' \in Seq(Calls)
  BY <1>1, <1>2, QueueTypes
<1>4. PipeTypes'
  BY <1>1, <1>2, <1>3 DEF PipeTypes
<1>5. PeerInv(d)' /\ EndInv(d)'
  BY <1>2 DEF PeerInv, EndInv
<1>6. \A w \in Workers : OneInv(w)' /\ SlotInv(w)'
  BY PipesKeep, SentinelAssumption
<1>. QED BY <1>2, <1>4, <1>5, <1>6, CallKeeps DEF Critical

\* A call writes to a daemon that has nothing in its pipes, and waits.
LEMMA SendKeeps ==
  ASSUME Inv, Discipline, Keeps, NEW d \in Calls, Local(d), Holder(d),
         NEW u \in Workers, inbox[u] = <<>>, outbox'[u] = <<>>, task[u].step = "loop",
         NEW a \in Methods \union {"shutdown"}, NEW next \in {"status", "write", "asked"},
         Send(d, u, a, next), UNCHANGED <<outcome, queue, auth, got>>, pc[d] # "done",
         next # "asked" => method'[d] \in Writes /\ slot' = u,
         slot' \in {u, NoWorker},
         \A w \in Workers : outbox'[w] \in {outbox[w], <<>>},
         outbox' \in [Workers -> Seq(Frame)],
         proc' \in [Workers -> {"unborn", "running", "terminating", "exited", "reaped"}],
         \A w \in Workers : proc'[w] = "unborn" => proc[w] = "unborn"
  PROVE  Discipline'
<1>1. PipeTypes /\ PeerInv(d) /\ inbox \in [Workers -> Seq(Command)]
  BY DEF Discipline, Inv, Types
<1>2. /\ pc'[d] = next /\ peer'[d] = u /\ outcome'[d] = outcome[d]
      /\ peer' \in [Calls -> Workers \union {NoWorker}]
  BY <1>1 DEF Send, Inv, Types, PipeTypes
<1>3. PipeTypes'
  BY <1>1, <1>2 DEF PipeTypes
<1>4. PeerInv(d)' /\ EndInv(d)'
  BY <1>1, <1>2 DEF PeerInv, EndInv
<1>5. \/ inbox' = inbox
      \/ /\ proc'[u] # "unborn"
         /\ inbox' = [inbox EXCEPT ![u] = Append(@, [call |-> d, action |-> a])]
  BY DEF Send
<1>6. Awaits(d)'
  BY <1>2 DEF Awaits
<1>7. \A w \in Workers : OneInv(w)' /\ SlotInv(w)'
  BY <1>1, <1>5, <1>6, PipesWritten
<1>. QED BY <1>3, <1>4, <1>7, CallKeeps

LEMMA EnterKeeps ==
  ASSUME Inv, Discipline, Keeps, NEW d \in Calls, Enter(d), Local(d)
  PROVE  Discipline'
<1>1. /\ pc[d] = "lock" /\ Holder(d) /\ UNCHANGED <<method, got, outbox, auth, task, wire, posts>>
      /\ ~Awaits(d) /\ ~Sent(d)
  BY DEF Enter, Holder, placera, Awaits, Sent
<1>2. PipeTypes
  BY DEF Discipline
<1>3. method[d] \in Methods
  BY DEF Inv, Types
<1>4. slot \in Workers => inbox[slot] = <<>> /\ outbox[slot] = <<>> /\ task[slot].step = "loop"
  BY <1>1, IdleDaemon
<1>5. CASE /\ Live(slot) /\ UNCHANGED <<proc, outcome, queue>>
           /\ slot' = IF method[d] = "aclose" THEN NoWorker ELSE slot
           /\ Send(d, slot, FirstAction(method[d]), IF method[d] \in Writes THEN "status" ELSE "asked")
  <2>1. slot \in Workers
    BY <1>2, <1>5 DEF Live, PipeTypes
  <2>2. FirstAction(method[d]) \in Methods \union {"shutdown"}
    BY <1>3 DEF FirstAction, Methods, Writes
  <2>3. method[d] \in Writes => slot' = slot
    BY <1>5 DEF Writes
  <2>4. CASE method[d] \in Writes
    BY <1>1, <1>2, <1>4, <1>5, <2>1, <2>2, <2>3, <2>4, SendKeeps DEF PipeTypes
  <2>5. CASE method[d] \notin Writes
    BY <1>1, <1>2, <1>4, <1>5, <2>1, <2>2, <2>5, SendKeeps DEF PipeTypes
  <2>. QED BY <2>4, <2>5
<1>6. CASE /\ slot' = NoWorker /\ UNCHANGED <<proc, inbox>>
           /\ \E how \in {"sign_in", "status", "failed"} : Finish(d, how)
  <2>1. PICK how \in {"sign_in", "status", "failed"} : Finish(d, how)
    BY <1>6
  <2>2. Sent(d)'
    BY <2>1 DEF Finish, Sent, Inv, Types
  <2>3. Gone(d)'
    BY <1>1, <1>6, <2>2, NotSentGone
  <2>. QED BY <1>1, <1>2, <1>6, <2>1, <2>3, FinishKeeps DEF PipeTypes
<1>7. CASE /\ UNCHANGED <<outcome, queue>> /\ method[d] = "connect"
           /\ \E w \in Workers : /\ proc[w] = "unborn"
                                 /\ proc' = [proc EXCEPT ![w] = "running"]
                                 /\ slot' = w /\ Send(d, w, "connect", "asked")
  <2>1. PICK w \in Workers : /\ proc[w] = "unborn"
                             /\ proc' = [proc EXCEPT ![w] = "running"]
                             /\ slot' = w /\ Send(d, w, "connect", "asked")
    BY <1>7
  <2>2. inbox[w] = <<>> /\ outbox[w] = <<>> /\ task[w].step = "loop"
    BY <2>1 DEF Discipline, OneInv
  <2>3. /\ proc' \in [Workers -> {"unborn", "running", "terminating", "exited", "reaped"}]
        /\ \A v \in Workers : proc'[v] = "unborn" => proc[v] = "unborn"
    BY <1>2, <2>1 DEF PipeTypes
  <2>4. "connect" \in Methods
    BY DEF Methods
  <2>. QED BY <1>1, <1>2, <1>7, <2>1, <2>2, <2>3, <2>4, SendKeeps DEF PipeTypes
<1>. QED BY <1>5, <1>6, <1>7 DEF Enter

LEMMA ReadsKeeps ==
  ASSUME Inv, Discipline, Keeps, NEW d \in Calls, Reads(d), Local(d)
  PROVE  Discipline'
<1>1. PipeTypes /\ PeerInv(d) /\ LockInv(d)
  BY DEF Discipline
<1>2. Awaits(d) /\ Holder(d) /\ pc[d] # "done" /\ UNCHANGED <<method, auth, task, wire, posts>>
  BY <1>1 DEF Reads, Awaits, LockInv, Critical, placera
<1>3. PICK p \in Workers : p = peer[d] /\ slot \in {p, NoWorker} /\ (pc[d] # "asked" => slot = p)
  BY <1>1, <1>2 DEF PeerInv, Awaits
<1>4. outbox[p] # <<>> /\ outbox' = [outbox EXCEPT ![p] = Tail(@)]
  BY <1>3 DEF Reads
<1>5. PICK f \in Frame : f = Head(outbox[p]) /\ f.call \in Calls
  BY <1>1, <1>4, FrameCall
<1>6. inbox[p] = <<>> /\ task[p].step = "loop" /\ Tail(outbox[p]) = <<>>
  <2>1. OneInv(p) /\ outbox[p] \in Seq(Frame)
    BY <1>1 DEF Discipline, PipeTypes
  <2>2. Tail(outbox[p]) = <<>>
    BY <1>4, <2>1, Only DEF OneInv
  <2>. QED BY <1>4, <2>1, <2>2 DEF OneInv
<1>7. /\ outbox'[p] = <<>> /\ \A w \in Workers : outbox'[w] \in {outbox[w], <<>>}
      /\ outbox' \in [Workers -> Seq(Frame)]
  BY <1>1, <1>4, <1>6 DEF PipeTypes
<1>8. /\ got' \in [Calls -> Calls \union {NoCall}] /\ (pc[d] = "write" => got'[d] = f.call)
      /\ pc[d] # "write" => got' = got
  BY <1>1, <1>3, <1>5 DEF Reads, PipeTypes
<1>9. pc[d] = "write" => f.call = d
  BY <1>2, <1>3, <1>4, <1>5, IdleDaemon
<1>10. CASE Retire(d, "failed") /\ inbox' = inbox
  BY <1>2, <1>7, <1>8, <1>10, RetireKeeps
<1>11. CASE /\ UNCHANGED <<outcome, queue, slot, proc>> /\ pc[d] = "status"
            /\ Send(d, peer[d], method[d], "write")
  <2>1. method[d] \in Writes /\ method[d] \in Methods /\ slot' = p /\ Send(d, p, method[d], "write")
    BY <1>1, <1>3, <1>11 DEF PeerInv, Methods
  <2>2. got' = got
    BY <1>8, <1>11
  <2>. QED BY <1>1, <1>2, <1>6, <1>7, <1>11, <2>1, <2>2, SendKeeps DEF PipeTypes
<1>12. CASE /\ UNCHANGED <<slot, proc, inbox>>
            /\ Finish(d, CASE pc[d] = "write"  -> WriteEnd(f)
                          [] pc[d] = "status" -> "sign_in"
                          [] OTHER            -> "status")
  <2>0. Awaits(d) /\ slot \in Workers =>
          inbox[slot] = <<>> /\ outbox'[slot] = <<>> /\ task[slot].step = "loop"
    BY <1>3, <1>6, <1>7, SentinelAssumption
  <2>1. CASE pc[d] = "write"
    <3>1. PICK how \in {"receipt", "sign_in", "failed"} : how = WriteEnd(f)
      BY DEF WriteEnd
    <3>2. FrameInv(p)
      BY DEF Discipline
    <3>3. (how = "receipt" => posts'[d] = 1) /\ (how = "sign_in" => Gone(d))
      BY <1>2, <1>4, <1>5, <1>9, <2>1, <3>1, <3>2 DEF WriteEnd, FrameInv
    <3>4. how = "sign_in" => Gone(d)'
      BY <3>3 DEF Keeps
    <3>. QED BY <1>1, <1>2, <1>7, <1>8, <1>9, <1>12, <2>0, <2>1, <3>1, <3>3, <3>4,
             FinishKeeps DEF PipeTypes
  <2>2. CASE pc[d] = "status"
    <3>1. Finish(d, "sign_in")
      BY <1>12, <2>2
    <3>2. ~Sent(d) /\ Sent(d)'
      BY <2>2, <3>1 DEF Finish, Sent, Inv, Types
    <3>3. Gone(d)'
      BY <1>2, <1>12, <3>2, NotSentGone
    <3>. QED BY <1>1, <1>2, <1>7, <1>8, <1>12, <2>0, <3>1, <3>3, FinishKeeps DEF PipeTypes
  <2>3. CASE pc[d] = "asked"
    <3>1. Finish(d, "status")
      BY <1>12, <2>3
    <3>. QED BY <1>1, <1>2, <1>7, <1>8, <1>12, <2>0, <3>1, FinishKeeps DEF PipeTypes
  <2>. QED BY <1>2, <2>1, <2>2, <2>3 DEF Awaits
<1>. QED
  <2>1. f = Head(outbox[peer[d]])
    BY <1>3, <1>5
  <2>. QED BY <1>10, <1>11, <1>12, <2>1 DEF Reads

LEMMA EndsKeeps ==
  ASSUME Inv, Discipline, Keeps, NEW d \in Calls, NoAnswer(d) \/ Cancel(d) \/ Stopped(d), Local(d)
  PROVE  Discipline'
<1>1. /\ PipeTypes /\ PeerInv(d) /\ UNCHANGED <<method, got, inbox, outbox, auth>>
      /\ outcome[d] \in {"none", "refused", "failed", "sign_in", "status", "receipt", "cancelled"}
  BY DEF Discipline, NoAnswer, Cancel, Stopped, Others, pipes, Inv, Types
<1>2. CASE Awaits(d) /\ (Retire(d, "failed") \/ Retire(d, "cancelled"))
  BY <1>1, <1>2, RetireKeeps DEF PipeTypes
<1>3. CASE pc[d] \in {"lock", "stopping"} /\ Finish(d, "cancelled") /\ UNCHANGED <<slot, proc>>
  BY <1>1, <1>3, FinishKeeps DEF PipeTypes, Awaits
<1>4. CASE Stopped(d)
  <2>1. ~Awaits(d) /\ outcome[d] \notin {"receipt", "sign_in"} /\ slot' = slot /\ Finish(d, outcome[d])
    BY <1>1, <1>4 DEF Stopped, Awaits, PeerInv
  <2>2. /\ proc' \in [Workers -> {"unborn", "running", "terminating", "exited", "reaped"}]
        /\ \A v \in Workers : proc'[v] = "unborn" => proc[v] = "unborn"
    BY <1>1, <1>4 DEF PipeTypes, Stopped
  <2>. QED BY <1>1, <2>1, <2>2, FinishKeeps DEF PipeTypes
<1>. QED BY <1>2, <1>3, <1>4 DEF NoAnswer, Cancel

LEMMA BrokerKeeps ==
  ASSUME Inv, Discipline, NEW d \in Calls, BrokerStep(d)
  PROVE  Discipline'
<1>1. Keeps
  BY BrokerTokens
<1>2. Local(d)
  BY LocalSteps DEF Discipline
<1>. QED BY <1>1, <1>2, BeginKeeps, EnterKeeps, ReadsKeeps, EndsKeeps DEF BrokerStep

-----------------------------------------------------------------------------
(* The steps of a daemon.                                                   *)

Alone(w) ==
  /\ UNCHANGED <<method, pc, outcome, got, peer, queue, slot, posts>>
  /\ \A v \in Workers \ {w} : /\ inbox'[v] = inbox[v] /\ outbox'[v] = outbox[v]
                              /\ task'[v] = task[v] /\ proc'[v] = proc[v]

\* The invariant after a step of daemon w, from its parts.
LEMMA WorkerKeeps ==
  ASSUME Inv, Discipline, Keeps, NEW w \in Workers, Alone(w),
         proc' \in [Workers -> {"unborn", "running", "terminating", "exited", "reaped"}],
         auth' \in [Workers -> AuthStates], outbox' \in [Workers -> Seq(Frame)],
         OneInv(w)', SlotInv(w)', TaskInv(w)', FrameInv(w)'
  PROVE  Discipline'
<1>1. PipeTypes'
  BY DEF Discipline, PipeTypes, Alone
<1>2. ASSUME NEW c \in Calls PROVE LockInv(c)' /\ PeerInv(c)' /\ EndInv(c)'
  <2>1. LockInv(c) /\ PeerInv(c) /\ EndInv(c)
    BY DEF Discipline
  <2>. QED BY <2>1 DEF Alone, LockInv, Holder, PeerInv, EndInv, Keeps
<1>3. ASSUME NEW v \in Workers \ {w}
      PROVE  OneInv(v)' /\ SlotInv(v)' /\ TaskInv(v)' /\ FrameInv(v)'
  <2>1. OneInv(v) /\ SlotInv(v) /\ TaskInv(v) /\ FrameInv(v)
    BY DEF Discipline
  <2>2. OneInv(v)' /\ SlotInv(v)'
    BY <2>1 DEF Alone, OneInv, SlotInv, Awaits
  <2>3. TaskInv(v)'
    BY <2>1, TaskCall DEF Alone, TaskInv, Keeps
  <2>4. outbox[v] # <<>> => Head(outbox[v]).call \in Calls
    BY FrameCall DEF Discipline
  <2>5. FrameInv(v)'
    BY <2>1, <2>4 DEF Alone, FrameInv, Keeps
  <2>. QED BY <2>2, <2>3, <2>5
<1>. QED BY <1>1, <1>2, <1>3 DEF Discipline

\* A frame written to an empty pipe is the only one in it.
LEMMA Emitted ==
  ASSUME PipeTypes, NEW w \in Workers, outbox[w] = <<>>, NEW c \in Calls,
         NEW sort \in {"status", "result", "error"},
         NEW code \in Codes \union AuthStates \union {"none", "ok"},
         Emit(w, c, sort, code)
  PROVE  /\ outbox' \in [Workers -> Seq(Frame)]
         /\ outbox'[w] # <<>> /\ Len(outbox'[w]) = 1
         /\ Head(outbox'[w]) = [call |-> c, kind |-> sort, code |-> code]
         /\ \A v \in Workers \ {w} : outbox'[v] = outbox[v]
<1> DEFINE f == [call |-> c, kind |-> sort, code |-> code]
<1>1. f \in Frame /\ outbox \in [Workers -> Seq(Frame)]
  BY DEF Frame, PipeTypes
<1>2. /\ Append(outbox[w], f) \in Seq(Frame) /\ Append(outbox[w], f) # <<>>
      /\ Len(Append(outbox[w], f)) = 1 /\ Head(Append(outbox[w], f)) = f
  <2>1. outbox[w] \in Seq(Frame)
    BY <1>1
  <2>. QED BY <1>1, <2>1, Written
<1>3. outbox' = [outbox EXCEPT ![w] = Append(@, f)]
  BY DEF Emit
<1>4. outbox'[w] = Append(outbox[w], f) /\ \A v \in Workers \ {w} : outbox'[v] = outbox[v]
  BY <1>1, <1>3
<1>5. outbox' \in [Workers -> Seq(Frame)]
  BY <1>1, <1>2, <1>3
<1>. QED BY <1>2, <1>4, <1>5

\* A write that is found in the inbox, or about to be sent, is nowhere else.
LEMMA NowhereElse ==
  ASSUME Inv, NEW c \in Calls, NEW w \in Workers,
         \/ /\ Queued(w, 1, c) /\ task' = task /\ inbox'[w] = <<>>
            /\ \A v \in Workers \ {w} : inbox'[v] = inbox[v]
         \/ Preparing(w, c) /\ inbox' = inbox /\ ~Preparing(w, c)'
            /\ \A v \in Workers \ {w} : task'[v] = task[v],
         UNCHANGED <<pc, outcome, wire, posts>>
  PROVE  Gone(c)'
<1>1. Token(c)
  BY DEF Inv
<1>2. CASE /\ Queued(w, 1, c) /\ task' = task /\ inbox'[w] = <<>>
           /\ \A v \in Workers \ {w} : inbox'[v] = inbox[v]
  <2>1. /\ Sent(c) /\ ~OnWire(c) /\ posts[c] = 0
        /\ \A v \in Workers, j \in Nat : Queued(v, j, c) => v = w
        /\ \A v \in Workers : ~Preparing(v, c)
    BY <1>1, <1>2 DEF Token, QueuedInv
  <2>2. \A v \in Workers, j \in Nat : ~Queued(v, j, c)'
    BY <1>2, <2>1 DEF Queued
  <2>. QED BY <1>2, <2>1, <2>2 DEF Gone, Sent, OnWire, Preparing
<1>3. CASE /\ Preparing(w, c) /\ inbox' = inbox /\ ~Preparing(w, c)'
           /\ \A v \in Workers \ {w} : task'[v] = task[v]
  <2>1. /\ Sent(c) /\ ~OnWire(c) /\ posts[c] = 0
        /\ \A v \in Workers : Preparing(v, c) => v = w
        /\ \A v \in Workers, j \in Nat : ~Queued(v, j, c)
    BY <1>1, <1>3 DEF Token, PreparingInv, QueuedInv
  <2>2. \A v \in Workers : ~Preparing(v, c)'
    BY <1>3, <2>1 DEF Preparing
  <2>. QED BY <1>3, <2>1, <2>2 DEF Gone, Sent, OnWire, Queued
<1>. QED BY <1>2, <1>3

LEMMA TakeKeeps ==
  ASSUME Inv, Discipline, Keeps, NEW w \in Workers, Take(w)
  PROVE  Discipline'
<1>1. /\ PipeTypes /\ OneInv(w) /\ SlotInv(w) /\ inbox[w] \in Seq(Command)
      /\ inbox \in [Workers -> Seq(Command)]
  BY DEF Discipline, Inv, Types
<1>2. /\ inbox[w] # <<>> /\ task[w].step = "loop" /\ inbox' = [inbox EXCEPT ![w] = Tail(@)]
      /\ UNCHANGED <<method, pc, outcome, got, peer, queue, slot, posts, wire>>
      /\ proc[w] # "unborn"
  BY DEF Take, callVars, brokerVars, placera, Runs
<1>3. outbox[w] = <<>> /\ Tail(inbox[w]) = <<>>
  BY <1>1, <1>2, Only DEF OneInv
<1>4. PICK cmd \in Command : /\ cmd = Head(inbox[w]) /\ cmd = inbox[w][1]
                            /\ 1 \in 1 .. Len(inbox[w]) /\ cmd.call \in Calls
  <2>1. Head(inbox[w]) = inbox[w][1] /\ 1 \in 1 .. Len(inbox[w])
    BY <1>1, <1>2, First
  <2>2. Head(inbox[w]) \in Command /\ Head(inbox[w]).call \in Calls
    BY <1>2, CommandCall
  <2>. QED BY <2>1, <2>2
<1>5. PICK c \in Calls : c = cmd.call
  BY <1>4
<1>6. inbox'[w] = <<>> /\ \A v \in Workers \ {w} : inbox'[v] = inbox[v]
  BY <1>1, <1>2, <1>3
<1>7. w = slot => Awaits(c) /\ Awaits(c)'
  BY <1>1, <1>2, <1>4, <1>5 DEF SlotInv, Awaits
<1>8. PICK state \in AuthStates :
        /\ auth' = [auth EXCEPT ![w] = state]
        /\ proc' = IF cmd.action = "shutdown" THEN [proc EXCEPT ![w] = "exited"] ELSE proc
        /\ \/ /\ task' = [task EXCEPT ![w] = At("prepare", c)] /\ outbox' = outbox
           \/ /\ task' = task /\ cmd.action \in Writes
              /\ Emit(w, c, "error", "auth_required")
           \/ /\ task' = task /\ Emit(w, c, "status", state)
  BY <1>1, <1>4, <1>5 DEF Take, AuthStates, PipeTypes
<1>9. /\ proc' \in [Workers -> {"unborn", "running", "terminating", "exited", "reaped"}]
      /\ \A v \in Workers \ {w} : proc'[v] = proc[v]
      /\ proc'[w] # "unborn" /\ auth' \in [Workers -> AuthStates]
  BY <1>1, <1>2, <1>8 DEF PipeTypes
<1>10. CASE task' = [task EXCEPT ![w] = At("prepare", c)] /\ outbox' = outbox
  <2>1. /\ task'[w] = At("prepare", c) /\ At("prepare", c).step = "prepare"
        /\ At("prepare", c).call = c /\ \A v \in Workers \ {w} : task'[v] = task[v]
    BY <1>10 DEF Inv, Types, At
  <2>2. OneInv(w)' /\ SlotInv(w)' /\ TaskInv(w)' /\ FrameInv(w)'
    BY <1>2, <1>3, <1>6, <1>7, <1>9, <1>10, <2>1 DEF OneInv, SlotInv, TaskInv, FrameInv
  <2>. QED BY <1>1, <1>2, <1>6, <1>9, <1>10, <2>1, <2>2, WorkerKeeps DEF Alone, PipeTypes
<1>11. ASSUME task' = task, NEW sort \in {"status", "error"},
              NEW code \in Codes \union AuthStates \union {"none", "ok"},
              Emit(w, c, sort, code), sort = "error" => Gone(c)'
       PROVE  Discipline'
  <2>1. /\ outbox' \in [Workers -> Seq(Frame)]
        /\ outbox'[w] # <<>> /\ Len(outbox'[w]) = 1
        /\ Head(outbox'[w]) = [call |-> c, kind |-> sort, code |-> code]
        /\ \A v \in Workers \ {w} : outbox'[v] = outbox[v]
    BY <1>1, <1>3, <1>11, Emitted
  <2>2. OneInv(w)'
    BY <1>2, <1>6, <1>9, <1>11, <2>1 DEF OneInv
  <2>3. SlotInv(w)' /\ TaskInv(w)'
    BY <1>2, <1>6, <1>7, <1>11, <2>1 DEF SlotInv, TaskInv
  <2>4. FrameInv(w)'
    BY <1>11, <2>1 DEF FrameInv
  <2>. QED BY <1>2, <1>6, <1>9, <1>11, <2>1, <2>2, <2>3, <2>4, WorkerKeeps DEF Alone
<1>12. CASE task' = task /\ cmd.action \in Writes /\ Emit(w, c, "error", "auth_required")
  <2>1. Queued(w, 1, c)
    BY <1>4, <1>5, <1>12 DEF Queued
  <2>2. Gone(c)'
    BY <1>2, <1>6, <1>12, <2>1, NowhereElse
  <2>. QED BY <1>11, <1>12, <2>2 DEF Codes
<1>13. CASE task' = task /\ Emit(w, c, "status", state)
  BY <1>11, <1>13
<1>. QED BY <1>8, <1>10, <1>12, <1>13

\* The task moves on and nothing is written.
LEMMA MovesKeeps ==
  ASSUME Inv, Discipline, Keeps, NEW w \in Workers, task[w].step # "loop",
         UNCHANGED <<method, pc, outcome, got, peer, queue, slot, posts, inbox, outbox, proc>>,
         auth' \in [Workers -> AuthStates],
         \A v \in Workers \ {w} : task'[v] = task[v],
         task'[w].call = task[w].call, TaskInv(w)'
  PROVE  Discipline'
<1>1. PipeTypes /\ OneInv(w) /\ SlotInv(w)
  BY DEF Discipline
<1>2. OneInv(w)' /\ SlotInv(w)' /\ FrameInv(w)'
  BY <1>1 DEF OneInv, SlotInv, FrameInv, Awaits
<1>. QED BY <1>1, <1>2, WorkerKeeps DEF PipeTypes, Alone

\* The command is answered.
LEMMA SaysKeeps ==
  ASSUME Inv, Discipline, Keeps, NEW w \in Workers, NEW c \in Calls, c = task[w].call, Runs(w),
         task[w].step # "loop", task' = [task EXCEPT ![w] = Loop],
         UNCHANGED <<method, pc, outcome, got, peer, queue, slot, posts, inbox, proc, auth>>,
         NEW sort \in {"result", "error"}, NEW code \in Codes \union {"none", "ok"},
         Emit(w, c, sort, code),
         sort = "error" /\ code \in SignIn => Gone(c)',
         sort = "result" => posts'[c] = 1
  PROVE  Discipline'
<1>1. PipeTypes /\ OneInv(w) /\ SlotInv(w)
  BY DEF Discipline
<1>2. /\ outbox' \in [Workers -> Seq(Frame)]
      /\ outbox'[w] # <<>> /\ Len(outbox'[w]) = 1
      /\ Head(outbox'[w]) = [call |-> c, kind |-> sort, code |-> code]
      /\ \A v \in Workers \ {w} : outbox'[v] = outbox[v]
  BY <1>1, Emitted DEF OneInv
<1>3. task'[w].step = "loop" /\ \A v \in Workers \ {w} : task'[v] = task[v]
  BY DEF Loop, Inv, Types
<1>4. OneInv(w)' /\ SlotInv(w)'
  BY <1>1, <1>2, <1>3 DEF OneInv, SlotInv, Awaits, Runs
<1>5. TaskInv(w)' /\ FrameInv(w)'
  BY <1>2, <1>3 DEF TaskInv, FrameInv
<1>. QED BY <1>1, <1>2, <1>3, <1>4, <1>5, WorkerKeeps DEF PipeTypes, Alone

LEMMA TaskKeeps ==
  ASSUME Inv, Discipline, Keeps, NEW w \in Workers,
         Prepared(w) \/ GiveUp(w) \/ Answered(w) \/ SignedOut(w)
  PROVE  Discipline'
<1>1. /\ PipeTypes /\ OneInv(w) /\ TaskInv(w) /\ task[w].step # "loop" /\ Runs(w)
      /\ UNCHANGED <<method, pc, outcome, got, peer, queue, slot, posts, inbox, proc>>
  BY DEF Discipline, Prepared, GiveUp, Answered, SignedOut, callVars, brokerVars, pipes, placera
<1>2. PICK c \in Calls : c = task[w].call
  BY <1>1, TaskCall
<1>3. \A code \in Codes : /\ Answer(c, code).call = c /\ Answer(c, code).step = "answered"
                         /\ Answer(c, code).code = code
  BY DEF Answer
<1>4. \A step \in Steps : At(step, c).call = c /\ At(step, c).step = step
  BY DEF At
<1>5. CASE Prepared(w) /\ task' = [task EXCEPT ![w] = At("write", c)]
  <2>1. /\ task'[w].call = c /\ task'[w].step = "write"
        /\ \A v \in Workers \ {w} : task'[v] = task[v]
    BY <1>4, <1>5 DEF Inv, Types, Steps
  <2>2. TaskInv(w)'
    BY <2>1 DEF TaskInv
  <2>. QED BY <1>1, <1>2, <1>5, <2>1, <2>2, MovesKeeps DEF Prepared, PipeTypes, pipes
<1>6. CASE /\ Prepared(w) /\ wire' = wire
           /\ \E code \in Codes \ {"auth_required"} : task' = [task EXCEPT ![w] = Answer(c, code)]
  <2>1. PICK code \in Codes \ {"auth_required"} : task' = [task EXCEPT ![w] = Answer(c, code)]
    BY <1>6
  <2>2. /\ task'[w].call = c /\ task'[w].step = "answered" /\ task'[w].code = code
        /\ \A v \in Workers \ {w} : task'[v] = task[v]
    BY <1>3, <2>1 DEF Inv, Types
  <2>3. Preparing(w, c) /\ ~Preparing(w, c)'
    BY <1>2, <1>6, <2>2 DEF Prepared, Preparing
  <2>4. Gone(c)'
    BY <1>1, <1>6, <2>2, <2>3, NowhereElse
  <2>5. code # "ok"
    BY DEF Codes
  <2>6. TaskInv(w)'
    BY <2>2, <2>4, <2>5 DEF TaskInv
  <2>. QED BY <1>1, <1>2, <1>6, <2>2, <2>6, MovesKeeps DEF Prepared, PipeTypes, pipes
<1>7. CASE GiveUp(w)
  <2>1. /\ task'[w].call = c /\ task'[w].step = "answered" /\ task'[w].code = "network"
        /\ \A v \in Workers \ {w} : task'[v] = task[v]
    BY <1>2, <1>3, <1>7 DEF GiveUp, Inv, Types, Codes
  <2>2. TaskInv(w)'
    BY <2>1 DEF TaskInv
  <2>. QED BY <1>1, <1>2, <1>7, <2>1, <2>2, MovesKeeps DEF GiveUp, PipeTypes, pipes
<1>8. CASE /\ Answered(w) /\ task[w].code = "auth_expired"
           /\ auth' = [auth EXCEPT ![w] = "idle"]
           /\ task' = [task EXCEPT ![w] = At("signing_out", c)] /\ outbox' = outbox
  <2>1. /\ task'[w].call = c /\ task'[w].step = "signing_out"
        /\ \A v \in Workers \ {w} : task'[v] = task[v]
    BY <1>4, <1>8 DEF Inv, Types, Steps
  <2>2. Gone(c)'
    BY <1>1, <1>2, <1>8 DEF TaskInv, Answered, Keeps
  <2>3. TaskInv(w)'
    BY <2>1, <2>2 DEF TaskInv
  <2>4. auth' \in [Workers -> AuthStates]
    BY <1>1, <1>8 DEF PipeTypes, AuthStates
  <2>. QED BY <1>1, <1>2, <1>8, <2>1, <2>3, <2>4, MovesKeeps
<1>9. CASE /\ Answered(w) /\ task[w].code # "auth_expired" /\ auth' = auth
           /\ task' = [task EXCEPT ![w] = Loop]
           /\ Emit(w, c, IF task[w].code = "ok" THEN "result" ELSE "error", task[w].code)
  <2>1. PICK code \in Codes \union {"none", "ok"} : code = task[w].code
    BY TaskCall DEF Task
  <2>2. task[w].step = "answered" /\ task[w].code # "auth_required" /\ code \notin SignIn
        /\ (code = "ok" => posts'[c] = 1)
    BY <1>1, <1>2, <1>9, <2>1 DEF Answered, TaskInv, SignIn
  <2>3. CASE code = "ok"
    BY <1>1, <1>2, <1>9, <2>1, <2>2, <2>3, SaysKeeps
  <2>4. CASE code # "ok"
    BY <1>1, <1>2, <1>9, <2>1, <2>2, <2>4, SaysKeeps
  <2>. QED BY <2>3, <2>4
<1>10. CASE SignedOut(w)
  <2>1. /\ auth' = auth /\ task' = [task EXCEPT ![w] = Loop] /\ Emit(w, c, "error", "auth_expired")
        /\ task[w].step = "signing_out"
    BY <1>2, <1>10 DEF SignedOut
  <2>2. Gone(c)'
    BY <1>1, <1>2, <2>1 DEF TaskInv, Keeps
  <2>. QED BY <1>1, <1>2, <2>1, <2>2, SaysKeeps DEF Codes
<1>11. Prepared(w) => \/ task' = [task EXCEPT ![w] = At("write", c)]
                     \/ /\ wire' = wire
                        /\ \E code \in Codes \ {"auth_required"} :
                             task' = [task EXCEPT ![w] = Answer(c, code)]
  BY <1>2 DEF Prepared
<1>12. Answered(w) => \/ /\ task[w].code = "auth_expired"
                        /\ auth' = [auth EXCEPT ![w] = "idle"]
                        /\ task' = [task EXCEPT ![w] = At("signing_out", c)] /\ outbox' = outbox
                     \/ /\ task[w].code # "auth_expired" /\ auth' = auth
                        /\ task' = [task EXCEPT ![w] = Loop]
                        /\ Emit(w, c, IF task[w].code = "ok" THEN "result" ELSE "error", task[w].code)
  BY <1>2 DEF Answered
<1>. QED BY <1>5, <1>6, <1>7, <1>8, <1>9, <1>10, <1>11, <1>12

LEMMA ProcessKeeps ==
  ASSUME Inv, Discipline, Keeps, NEW w \in Workers, Page(w) \/ Exit(w) \/ Reaped(w)
  PROVE  Discipline'
<1>1. /\ PipeTypes /\ OneInv(w) /\ SlotInv(w) /\ TaskInv(w) /\ FrameInv(w)
      /\ outbox[w] # <<>> => Head(outbox[w]).call \in Calls
  BY FrameCall DEF Discipline
<1>2. /\ UNCHANGED <<method, pc, outcome, got, peer, queue, slot, posts, outbox>>
      /\ proc[w] # "unborn"
      /\ proc' = proc \/ \E s \in {"exited", "reaped"} : proc' = [proc EXCEPT ![w] = s]
      /\ auth' = auth \/ \E s \in {"connected", "idle"} : auth' = [auth EXCEPT ![w] = s]
      /\ \/ task' = task /\ inbox' = inbox
         \/ task' = [task EXCEPT ![w] = Loop] /\ inbox' = [inbox EXCEPT ![w] = <<>>]
  BY <1>1 DEF Page, Exit, Reaped, Runs, callVars, brokerVars, pipes, placera
<1>3. /\ proc' \in [Workers -> {"unborn", "running", "terminating", "exited", "reaped"}]
      /\ proc'[w] # "unborn" /\ \A v \in Workers \ {w} : proc'[v] = proc[v]
      /\ auth' \in [Workers -> AuthStates]
  BY <1>1, <1>2 DEF PipeTypes, AuthStates
<1>4. /\ \/ task'[w] = task[w] /\ inbox'[w] = inbox[w]
         \/ task'[w].step = "loop" /\ inbox'[w] = <<>>
      /\ \A v \in Workers \ {w} : task'[v] = task[v] /\ inbox'[v] = inbox[v]
  BY <1>2 DEF Inv, Types, Loop
<1>5. OneInv(w)'
  BY <1>1, <1>2, <1>3, <1>4 DEF OneInv
<1>6. SlotInv(w)'
  BY <1>1, <1>2, <1>4 DEF SlotInv, Awaits
<1>7. TaskInv(w)'
  BY <1>1, <1>4, TaskCall DEF TaskInv, Keeps
<1>8. FrameInv(w)'
  BY <1>1, <1>2 DEF FrameInv, Keeps
<1>. QED BY <1>1, <1>2, <1>3, <1>4, <1>5, <1>6, <1>7, <1>8, WorkerKeeps DEF PipeTypes, Alone

-----------------------------------------------------------------------------
(* Placera's answers, and the invariant of every step.                      *)

LEMMA NetKeeps ==
  ASSUME Inv, Discipline, Keeps, NEW r \in wire, Publish(r) \/ Refuse(r)
  PROVE  Discipline'
<1>1. /\ PipeTypes /\ wire' = wire \ {r}
      /\ UNCHANGED <<method, pc, outcome, got, peer, queue, slot, proc, inbox, outbox, auth>>
  BY DEF Discipline, Publish, Refuse, callVars, brokerVars, pipes
<1>2. PICK c \in Calls : c = r.call /\ r.by \in Workers /\ OnWire(c)
  BY DEF Inv, Types, OnWire
<1>3. PICK code \in Codes \union {"ok"} :
        /\ Back(r, code) /\ code # "auth_required"
        /\ code = "ok" => posts' = [posts EXCEPT ![c] = @ + 1]
        /\ code = "auth_expired" => posts' = posts
  BY <1>2 DEF Publish, Refuse, Codes
<1>4. Token(c)
  BY DEF Inv
<1>5. code = "ok" => posts'[c] = 1
  BY <1>2, <1>3, <1>4 DEF Token, WireInv, Inv, Types
<1>6. code = "auth_expired" => Gone(c)'
  <2>1. /\ Sent(c) /\ posts[c] = 0 /\ ~OnWire(c)'
        /\ \A w \in Workers : ~Preparing(w, c)
        /\ \A w \in Workers, i \in Nat : ~Queued(w, i, c)
    BY <1>1, <1>2, <1>4 DEF Token, WireInv, PreparingInv, QueuedInv, OnWire
  <2>2. \A w \in Workers : ~Preparing(w, c)'
    BY <1>3, <2>1, BackShape
  <2>. QED BY <1>1, <1>3, <2>1, <2>2 DEF Gone, Sent, Queued
<1>7. /\ Answer(c, code).step = "answered" /\ Answer(c, code).call = c
      /\ Answer(c, code).code = code /\ At("write", c).call = c /\ At("write", c).step = "write"
  BY DEF Answer, At
<1>8. ASSUME NEW w \in Workers
      PROVE  \/ task'[w] = task[w]
             \/ task[w] = At("write", c) /\ task'[w] = Answer(c, code)
  BY <1>2, <1>3 DEF Back, Inv, Types
<1>9. ASSUME NEW w \in Workers
      PROVE  OneInv(w)' /\ SlotInv(w)' /\ TaskInv(w)' /\ FrameInv(w)'
  <2>1. OneInv(w) /\ SlotInv(w) /\ TaskInv(w) /\ FrameInv(w)
    BY DEF Discipline
  <2>2. task'[w].step # "loop" => task[w].step # "loop" /\ task'[w].call = task[w].call
    BY <1>7, <1>8
  <2>3. OneInv(w)'
    BY <1>1, <1>7, <1>8, <2>1 DEF OneInv
  <2>4. SlotInv(w)'
    BY <1>1, <2>1, <2>2 DEF SlotInv, Awaits
  <2>5. TaskInv(w)'
    <3>1. CASE task'[w] = task[w]
      BY <2>1, <3>1, TaskCall DEF TaskInv, Keeps
    <3>2. CASE task'[w] = Answer(c, code)
      BY <1>3, <1>5, <1>6, <1>7, <3>2 DEF TaskInv
    <3>. QED BY <1>8, <3>1, <3>2
  <2>6. outbox[w] # <<>> => Head(outbox[w]).call \in Calls
    BY <1>1, FrameCall
  <2>7. FrameInv(w)'
    BY <1>1, <2>1, <2>6 DEF FrameInv, Keeps
  <2>. QED BY <2>3, <2>4, <2>5, <2>7
<1>10. ASSUME NEW d \in Calls PROVE LockInv(d)' /\ PeerInv(d)' /\ EndInv(d)'
  <2>1. LockInv(d) /\ PeerInv(d) /\ EndInv(d)
    BY DEF Discipline
  <2>. QED BY <1>1, <2>1 DEF LockInv, Holder, PeerInv, EndInv, Keeps
<1>11. PipeTypes'
  BY <1>1 DEF PipeTypes
<1>. QED BY <1>9, <1>10, <1>11 DEF Discipline

LEMMA DisciplineNext == Inv /\ Discipline /\ [Next]_vars => Discipline'
<1> SUFFICES ASSUME Inv, Discipline, [Next]_vars PROVE Discipline'
  OBVIOUS
<1>1. ASSUME NEW d \in Calls, BrokerStep(d) PROVE Discipline'
  BY <1>1, BrokerKeeps
<1>2. ASSUME NEW w \in Workers, WorkerStep(w) PROVE Discipline'
  BY <1>2, WorkerTokens, TakeKeeps, TaskKeeps, ProcessKeeps DEF WorkerStep
<1>3. ASSUME NEW r \in wire, Publish(r) \/ Refuse(r) PROVE Discipline'
  BY <1>3, NetTokens, NetKeeps
<1>4. CASE UNCHANGED vars
  <2>1. /\ UNCHANGED <<method, pc, outcome, got, peer, queue, slot, proc, inbox, outbox, auth>>
        /\ UNCHANGED <<task, wire, posts>>
    BY <1>4 DEF vars, callVars, brokerVars, pipes, placera
  <2>2. \A c \in Calls : Gone(c)' = Gone(c)
    BY <2>1 DEF Gone, Sent, OnWire, Preparing, Queued
  <2>3. PipeTypes'
    BY <2>1 DEF Discipline, PipeTypes
  <2>4. ASSUME NEW c \in Calls PROVE LockInv(c)' /\ PeerInv(c)' /\ EndInv(c)'
    BY <2>1, <2>2 DEF Discipline, LockInv, Holder, PeerInv, EndInv
  <2>5. ASSUME NEW w \in Workers PROVE OneInv(w)' /\ SlotInv(w)' /\ TaskInv(w)' /\ FrameInv(w)'
    <3>1. OneInv(w) /\ SlotInv(w) /\ TaskInv(w) /\ FrameInv(w)
      BY DEF Discipline
    <3>2. OneInv(w)' /\ SlotInv(w)'
      BY <2>1, <3>1 DEF OneInv, SlotInv, Awaits
    <3>3. TaskInv(w)'
      BY <2>1, <2>2, <3>1, TaskCall DEF TaskInv
    <3>4. outbox[w] # <<>> => Head(outbox[w]).call \in Calls
      BY FrameCall DEF Discipline
    <3>5. FrameInv(w)'
      BY <2>1, <2>2, <3>1, <3>4 DEF FrameInv
    <3>. QED BY <3>2, <3>3, <3>5
  <2>. QED BY <2>3, <2>4, <2>5 DEF Discipline
<1>. QED BY <1>1, <1>2, <1>3, <1>4 DEF Next

LEMMA AlwaysDiscipline == Spec => [](Inv /\ Discipline)
<1>1. Init => Inv /\ Discipline
  BY InitInv, DisciplineInit
<1>2. Inv /\ Discipline /\ [Next]_vars => (Inv /\ Discipline)'
  BY InvIsInductive, DisciplineNext
<1>. QED BY <1>1, <1>2, PTL DEF Spec

\* The receipt a caller is shown is the receipt of its own post, which exists, although
\* the frame carries no number and daemons are replaced with answers still to come.
THEOREM ReceiptOwn == Spec => []ReceiptIsOwn
<1>1. Discipline => ReceiptIsOwn
  BY DEF Discipline, EndInv, ReceiptIsOwn, Told
<1>. QED BY <1>1, AlwaysDiscipline, PTL

\* A caller that is told to sign in and try again has published nothing, and nothing
\* of its call is under way: not in a pipe, a task or a request on the wire.
THEOREM RetrySafe == Spec => []RetryIsSafe
<1>1. Discipline => RetryIsSafe
  BY DEF Discipline, EndInv, RetryIsSafe, Told, Gone, OnWire
<1>. QED BY <1>1, AlwaysDiscipline, PTL
================================================================================
