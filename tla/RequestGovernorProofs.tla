-------------------------- MODULE RequestGovernorProofs --------------------------
(* Safety of the pacing and of the client lock, for any number of requests and  *)
(* sessions, any intervals and any order in which waits end, tasks are cancelled*)
(* and sessions change.                                                         *)
EXTENDS RequestGovernor, SequenceTheorems, WellFoundedInduction, TLAPS

-----------------------------------------------------------------------------
(* Lines of waiters.                                                        *)

\* A set of naturals that is not empty has a least member.
LEMMA Smallest ==
  ASSUME NEW T \in SUBSET Nat, T # {}
  PROVE  \E x \in T : \A y \in T : x <= y
<1> DEFINE R == OpToRel(<, Nat)
<1>1. IsWellFoundedOn(R, Nat)
  BY NatLessThanWellFounded
<1>2. \A x, y \in Nat : x < y => <<x, y>> \in R
  BY DEF OpToRel
<1> HIDE DEF R
<1>3. PICK x \in T : \A y \in T : ~ (<<y, x>> \in R)
  BY <1>1, WFMin
<1>4. x \in Nat /\ \A y \in T : y \in Nat /\ ~ (y < x)
  BY <1>2, <1>3
<1>5. \A y \in T : x <= y
  BY ONLY <1>4
<1>. QED BY <1>5

\* Whoever leaves a line, the others keep their order: the first stays first
\* unless it is the one that leaves.
LEMMA RemoveFirstKeeps ==
  ASSUME NEW S, NEW q \in Seq(S), NEW e
  PROVE  /\ RemoveFirst(q, e) \in Seq(S)
         /\ q # <<>> /\ Head(q) # e =>
              RemoveFirst(q, e) # <<>> /\ Head(RemoveFirst(q, e)) = Head(q)
<1>1. CASE ~ \E i \in 1..Len(q) : q[i] = e
  BY <1>1 DEF RemoveFirst
<1>2. CASE \E i \in 1..Len(q) : q[i] = e
  <2> DEFINE I == {i \in 1..Len(q) : q[i] = e}
             k == Min(I)
  <2>1. k \in I
    <3>1. I \in SUBSET Nat /\ I # {}
      BY <1>2
    <3>2. \E x \in I : \A y \in I : x <= y
      BY <3>1, Smallest
    <3>. HIDE DEF I
    <3>. QED BY <3>2 DEF Min
  <2>2. RemoveFirst(q, e) = SubSeq(q, 1, k - 1) \o SubSeq(q, k + 1, Len(q))
    BY <1>2 DEF RemoveFirst, RemoveAt, SelectInSeq
  <2>3. k \in 1..Len(q) /\ (q # <<>> /\ Head(q) # e => k > 1)
    BY <2>1
  <2>. HIDE DEF k, I
  <2>4. SubSeq(q, 1, k - 1) \in Seq(S) /\ SubSeq(q, k + 1, Len(q)) \in Seq(S)
    BY <2>3
  <2>5. RemoveFirst(q, e) \in Seq(S)
    BY <2>2, <2>4
  <2>6. ASSUME q # <<>>, Head(q) # e
        PROVE  RemoveFirst(q, e) # <<>> /\ Head(RemoveFirst(q, e)) = Head(q)
    <3>1. k \in 2..Len(q)
      BY <2>3, <2>6
    <3>2. /\ Len(SubSeq(q, 1, k - 1)) = k - 1 /\ k - 1 \in Nat /\ k - 1 >= 1
          /\ SubSeq(q, 1, k - 1)[1] = q[1]
      BY <3>1
    <3>3. RemoveFirst(q, e)[1] = q[1] /\ Len(RemoveFirst(q, e)) >= 1
      BY <2>2, <2>4, <3>2, ConcatProperties
    <3>. QED BY <2>5, <2>6, <3>3
  <2>. QED BY <2>5, <2>6
<1>. QED BY <1>1, <1>2

\* Whoever joins a line goes to its end.
LEMMA AppendKeeps ==
  ASSUME NEW S, NEW q \in Seq(S), NEW e \in S
  PROVE  /\ Append(q, e) \in Seq(S)
         /\ q # <<>> => Append(q, e) # <<>> /\ Head(Append(q, e)) = Head(q)
  OBVIOUS

Tasks    == Requests \union {Owner}
First(t) == line["client"] # <<>> /\ Head(line["client"]) = t

\* All a step of task u does to the line of _client_lock: u leaves it, somebody
\* joins it, or both.
ClientLine(u) ==
  \E q \in {line["client"], RemoveFirst(line["client"], u)} :
    \/ line'["client"] = q
    \/ \E t \in Tasks : line'["client"] = Append(q, t)

LineInv == line = [l \in Locks |-> line[l]] /\ line["client"] \in Seq(Tasks)

\* The lock is taken away from nobody else.
LEMMA FirstStays ==
  ASSUME LineInv, NEW u \in Tasks, ClientLine(u)
  PROVE  /\ line'["client"] \in Seq(Tasks)
         /\ \A t \in Tasks \ {u} : First(t) => First(t)'
<1>1. PICK q \in {line["client"], RemoveFirst(line["client"], u)} :
        \/ line'["client"] = q
        \/ \E t \in Tasks : line'["client"] = Append(q, t)
  BY DEF ClientLine
<1>2. line["client"] \in Seq(Tasks)
  BY DEF LineInv
<1>3. q \in Seq(Tasks)
  BY <1>2, RemoveFirstKeeps
<1>4. \A t \in Tasks \ {u} : First(t) => q # <<>> /\ Head(q) = t
  BY <1>2, RemoveFirstKeeps DEF First
<1>5. CASE line'["client"] = q
  BY <1>3, <1>4, <1>5 DEF First
<1>6. ASSUME NEW v \in Tasks, line'["client"] = Append(q, v)
      PROVE  /\ line'["client"] \in Seq(Tasks)
             /\ \A t \in Tasks \ {u} : First(t) => First(t)'
  BY <1>3, <1>4, <1>6, AppendKeeps DEF First
<1>. QED BY <1>1, <1>5, <1>6

\* To hold _client_lock is to be first in its line.
LEMMA HolderIsFirst ==
  ASSUME LineInv, NEW t, Holds("client", t)
  PROVE  First(t)
BY DEF LineInv, Holds, Capacity, First

-----------------------------------------------------------------------------
(* The inductive invariant.  OpenUnderRequests says nothing of the lock; that  *)
(* nobody replaces a client under a request rests on who is first in the line  *)
(* of _client_lock: the request itself, or the batch it belongs to.            *)

Shapes ==
  /\ kind \in [Requests -> Kinds \union {"none"}]
  /\ pc \in [Requests -> Pcs]
  /\ route \in [Requests -> {"none", "public", "auth"}]
  /\ on \in [Requests -> Nat]
  /\ client \in Nat /\ made \in Nat
  /\ group \subseteq Requests
  /\ LineInv

\* Which waits a kind of request passes, and how long a batch may have some; the
\* requests of a batch that waits for the lock have their kind before they begin.
KindInv ==
  \A r \in Requests :
    /\ kind[r] = "none" => pc[r] = "idle"
    /\ kind[r] = "public" => pc[r] \notin {"delegate", "client", "close"}
    /\ kind[r] = "batch" =>
         /\ pc[r] \notin {"delegate", "client", "close", "retry"}
         /\ pc[r] \notin {"idle", "done"} => owner = "batch" /\ r \in group
    /\ owner \in {"batch_lock", "batch_close"} /\ r \in group => kind[r] # "none"

SendInv ==
  \A r \in Requests :
    /\ pc[r] = "close" => First(r)
    /\ pc[r] = "sent" /\ route[r] = "auth" =>
         /\ on[r] = client /\ client # 0
         /\ kind[r] # "batch" => First(r)

BatchInv ==
  /\ owner \in {"batch_close", "batch"} => First(Owner)
  /\ owner = "batch" => client # 0

ClientInv == authSession # None => client # 0

GovernorInv == Shapes /\ KindInv /\ SendInv /\ BatchInv /\ ClientInv

LEMMA GovernorInit == Init => GovernorInv
BY GovernorAssumption
DEF Init, GovernorInv, Shapes, LineInv, KindInv, SendInv, BatchInv, ClientInv, Kinds, Pcs, Locks, Tasks

\* A request moves, in the client that is there or without one.
LEMMA RequestMoves ==
  ASSUME GovernorInv, NEW r \in Requests, NEW k \in Kinds, NEW x \in Pcs,
         NEW y \in {"none", "public", "auth"}, NEW n \in Nat,
         pc' = [pc EXCEPT ![r] = x], kind' = [kind EXCEPT ![r] = k],
         route' = [route EXCEPT ![r] = y], on' = [on EXCEPT ![r] = n],
         line' = [l \in Locks |-> line'[l]], ClientLine(r),
         x # "close", x = "sent" => y = "public" \/ (k = "batch" /\ n = client),
         k = "public" => x \notin {"delegate", "client"},
         k = "batch" =>
           /\ x \notin {"idle", "delegate", "client", "retry"}
           /\ x # "done" => owner = "batch" /\ r \in group,
         UNCHANGED <<authSession, client, made, owner, group>>
  PROVE  GovernorInv'
<1> USE DEF GovernorInv
<1>1. /\ r \in Tasks /\ Owner \in Tasks /\ Owner # r /\ \A d \in Requests : d \in Tasks
      /\ line'["client"] \in Seq(Tasks)
      /\ \A t \in Tasks \ {r} : First(t) => First(t)'
  BY FirstStays, GovernorAssumption DEF Shapes, Tasks
<1>2. Shapes'
  BY <1>1 DEF Shapes, LineInv
<1>3. /\ pc'[r] = x /\ kind'[r] = k /\ route'[r] = y /\ on'[r] = n
      /\ \A d \in Requests \ {r} :
           pc'[d] = pc[d] /\ kind'[d] = kind[d] /\ route'[d] = route[d] /\ on'[d] = on[d]
  BY DEF Shapes
<1>4. KindInv'
  BY <1>3 DEF KindInv, Kinds, PipelineKinds
<1>5. SendInv'
  <2>1. ASSUME NEW d \in Requests \ {r}, pc'[d] = "sent", route'[d] = "auth"
        PROVE  on'[d] = client' /\ client' # 0 /\ (kind'[d] # "batch" => First(d)')
    BY <1>1, <1>3, <2>1 DEF SendInv
  <2>2. ASSUME pc'[r] = "sent", route'[r] = "auth"
        PROVE  on'[r] = client' /\ client' # 0 /\ kind'[r] = "batch"
    BY <1>3, <2>2 DEF BatchInv
  <2>3. \A d \in Requests : pc'[d] = "close" => First(d)'
    BY <1>1, <1>3 DEF SendInv
  <2>. QED BY <2>1, <2>2, <2>3 DEF SendInv
<1>6. BatchInv'
  BY <1>1 DEF BatchInv
<1>. QED BY <1>2, <1>4, <1>5, <1>6 DEF ClientInv

\* The client that EnsureClient leaves, or the session for which it will make one.
LEMMA EnsureOpens ==
  ASSUME GovernorInv, session # None, EnsureClient
  PROVE  /\ client' \in Nat /\ made' \in Nat
         /\ client' # 0 => authSession' = session /\ UNCHANGED chosen
         /\ client' = 0 => authSession' = None /\ chosen' = session /\ session # authSession
BY DEF GovernorInv, Shapes, ClientInv, EnsureClient, MakeClient, clientVars

\* The first in the line may replace the client: no request is under way in it.
LEMMA NoneUnderWay ==
  ASSUME GovernorInv, NEW t \in Tasks, First(t),
         NEW r \in Requests, pc[r] = "sent", route[r] = "auth", r # t
  PROVE  kind[r] = "batch" /\ t = Owner /\ owner = "batch"
<1>1. CASE kind[r] # "batch"
  BY <1>1 DEF GovernorInv, SendInv, First
<1>2. CASE kind[r] = "batch"
  BY <1>2 DEF GovernorInv, KindInv, BatchInv, First
<1>. QED BY <1>1, <1>2

\* The worker's own task goes on with the client that is there; requests that have
\* not begun may be put into a command, or be started.
LEMMA OwnerMoves ==
  ASSUME GovernorInv, Shapes',
         NEW x \in {"idle", "gather", "batch_lock", "clear"}, owner' = x,
         UNCHANGED <<route, on, client, authSession>>,
         ClientLine(Owner), owner = "batch" => \A r \in group : pc[r] = "done",
         x = "batch_lock" => \A r \in group' : kind'[r] = "batch",
         \A r \in Requests :
           \/ pc'[r] = pc[r] /\ kind'[r] = kind[r]
           \/ /\ pc[r] = "idle"
              /\ \/ kind'[r] = "batch" /\ pc'[r] = "idle"
                 \/ kind'[r] \in {"account", "depth"} /\ pc'[r] = "slot"
  PROVE  GovernorInv'
<1> USE DEF GovernorInv
<1>1. \A d \in Requests : d \in Tasks /\ d # Owner /\ (First(d) => First(d)')
  BY FirstStays, GovernorAssumption DEF Shapes, Tasks
<1>2. KindInv'
  BY DEF KindInv
<1>3. SendInv'
  BY <1>1 DEF SendInv, KindInv
<1>. QED BY <1>2, <1>3 DEF BatchInv, ClientInv
-----------------------------------------------------------------------------
(* The steps of a request.                                                  *)

Keeps == line' = [l \in Locks |-> line'[l]]

\* What the steps of task t do to the lines.
LEMMA LineSteps ==
  ASSUME LineInv, NEW t \in Tasks
  PROVE  /\ line' = line => Keeps /\ ClientLine(t)
         /\ line' = Without(t) => Keeps /\ ClientLine(t)
         /\ \A l \in Locks : line' = Joined(l, t) => Keeps /\ ClientLine(t)
         /\ \A l, m \in Locks : line' = Moved(t, l, m) => Keeps /\ ClientLine(t)
         /\ \A l \in Locks : line' = [line EXCEPT ![l] = RemoveFirst(@, t)] => Keeps /\ ClientLine(t)
<1> DEFINE q == line["client"]
<1>1. "client" \in Locks /\ line = [l \in Locks |-> line[l]]
  BY DEF Locks, LineInv
<1>2. CASE line' = line
  BY <1>1, <1>2 DEF Keeps, ClientLine
<1>3. CASE line' = Without(t)
  BY <1>1, <1>3 DEF Keeps, ClientLine, Without
<1>4. ASSUME NEW l \in Locks, line' = Joined(l, t) PROVE Keeps /\ ClientLine(t)
  <2>1. line'["client"] = IF l = "client" THEN Append(q, t) ELSE q
    BY <1>1, <1>4 DEF Joined
  <2>. QED BY <1>1, <1>4, <2>1 DEF Keeps, ClientLine, Joined
<1>5. ASSUME NEW l \in Locks, line' = [line EXCEPT ![l] = RemoveFirst(@, t)] PROVE Keeps /\ ClientLine(t)
  <2>1. line'["client"] = IF l = "client" THEN RemoveFirst(q, t) ELSE q
    BY <1>1, <1>5
  <2>. QED BY <1>1, <1>5, <2>1 DEF Keeps, ClientLine
<1>6. ASSUME NEW l \in Locks, NEW m \in Locks, line' = Moved(t, l, m) PROVE Keeps /\ ClientLine(t)
  <2>1. \E p \in {q, RemoveFirst(q, t)} : line'["client"] = p \/ line'["client"] = Append(p, t)
    BY <1>1, <1>6 DEF Moved
  <2>. QED BY <1>1, <1>6, <2>1 DEF Keeps, ClientLine, Moved
<1>. QED BY <1>2, <1>3, <1>4, <1>5, <1>6

\* A request that ends.
LEMMA RequestEnds ==
  ASSUME GovernorInv, NEW r \in Requests, NEW o, Ended(r, o), kind[r] # "none",
         kind[r] = "batch" => pc[r] # "idle",
         UNCHANGED <<kind, authSession, client, made, owner, group>>
  PROVE  GovernorInv'
<1>1. Keeps /\ ClientLine(r)
  BY LineSteps DEF GovernorInv, Shapes, Ended, Tasks
<1>2. kind[r] \in Kinds /\ kind' = [kind EXCEPT ![r] = kind[r]]
  BY DEF GovernorInv, Shapes
<1>. QED BY <1>1, <1>2, RequestMoves DEF Ended, Keeps, Pcs

\* A request that goes on without being sent.
LEMMA RequestWaits ==
  ASSUME GovernorInv, NEW r \in Requests, NEW k \in Kinds, NEW x \in Pcs \ {"sent", "idle", "done", "close"},
         kind' = [kind EXCEPT ![r] = k], pc' = [pc EXCEPT ![r] = x],
         Keeps, ClientLine(r),
         \/ UNCHANGED <<route, on>>
         \/ route' = [route EXCEPT ![r] = "none"] /\ on' = [on EXCEPT ![r] = 0],
         k = "public" => x \notin {"delegate", "client"},
         k = "batch" => kind[r] = "batch" /\ pc[r] # "idle" /\ pc[r] # "done"
                          /\ x \notin {"delegate", "client", "retry"},
         UNCHANGED <<authSession, client, made, owner, group>>
  PROVE  GovernorInv'
<1>1. k = "batch" => owner = "batch" /\ r \in group
  BY DEF GovernorInv, KindInv
<1>2. CASE route' = [route EXCEPT ![r] = "none"] /\ on' = [on EXCEPT ![r] = 0]
  BY <1>1, <1>2, RequestMoves DEF GovernorInv, Shapes, Keeps
<1>3. CASE UNCHANGED <<route, on>>
  <2>1. /\ route[r] \in {"none", "public", "auth"} /\ on[r] \in Nat
        /\ route' = [route EXCEPT ![r] = route[r]] /\ on' = [on EXCEPT ![r] = on[r]]
    BY <1>3 DEF GovernorInv, Shapes
  <2>. QED BY <1>1, <2>1, RequestMoves DEF GovernorInv, Shapes, Keeps
<1>. QED BY <1>2, <1>3

\* The holder of _client_lock sends its request through a client that it found, or
\* made: nobody else has a request under way in another one.
LEMMA ClientSent ==
  ASSUME GovernorInv, NEW r \in Requests, First(r), kind[r] \in Kinds \ {"public", "batch"},
         NEW s, Sent(r, client', s), client' \in Nat, client' # 0, made' \in Nat,
         UNCHANGED <<line, kind, owner, group>>
  PROVE  GovernorInv'
<1> USE DEF GovernorInv
<1>1. r \in Tasks /\ r # Owner /\ First(r)' /\ owner \notin {"batch", "batch_close"}
  BY GovernorAssumption DEF Tasks, First, BatchInv
<1>2. /\ pc' = [pc EXCEPT ![r] = "sent"] /\ on' = [on EXCEPT ![r] = client']
      /\ route' = [route EXCEPT ![r] = "auth"]
  BY DEF Sent
<1>3. Shapes'
  BY <1>2 DEF Shapes, LineInv, Pcs
<1>4. \A d \in Requests \ {r} : ~(pc[d] = "sent" /\ route[d] = "auth") /\ ~First(d)
  BY <1>1, NoneUnderWay DEF First
<1>5. /\ pc'[r] = "sent" /\ on'[r] = client'
      /\ \A d \in Requests \ {r} : pc'[d] = pc[d] /\ route'[d] = route[d]
  BY <1>2 DEF Shapes
<1>6. SendInv'
  BY <1>1, <1>4, <1>5 DEF SendInv
<1>7. KindInv'
  BY <1>5 DEF KindInv, Kinds, PipelineKinds
<1>. QED BY <1>1, <1>3, <1>6, <1>7 DEF BatchInv, ClientInv

\* _client_lock lets a request in: it goes on with the client that is there, with
\* the first one, or by closing one that was made for another session.
LEMMA SendLockedKeeps ==
  ASSUME GovernorInv, NEW r \in Requests, SendLocked(r)
  PROVE  GovernorInv'
<1> USE DEF GovernorInv
<1>1. r \in Tasks /\ r # Owner /\ First(r) /\ pc[r] = "client"
  BY HolderIsFirst, GovernorAssumption DEF SendLocked, Shapes, Tasks
<1>2. kind[r] \in Kinds /\ kind[r] \notin {"public", "batch"}
  BY <1>1 DEF KindInv, Shapes
<1>3. CASE session # None /\ EnsureClient /\ UNCHANGED line
  <2>1. client' \in Nat /\ made' \in Nat /\ UNCHANGED <<kind, owner, group, session>>
    BY <1>3, EnsureOpens DEF SendLocked, ownerVars
  <2>2. CASE client' # 0
    BY <1>1, <1>2, <1>3, <2>1, <2>2, ClientSent DEF SendLocked
  <2>3. CASE client' = 0
    <3>1. pc' = [pc EXCEPT ![r] = "close"] /\ UNCHANGED <<route, on>> /\ authSession' = None
      BY <1>1, <1>3, <2>3, EnsureOpens DEF SendLocked
    <3>2. Shapes'
      BY <1>3, <2>1, <3>1 DEF Shapes, LineInv, Pcs
    <3>3. owner \notin {"batch", "batch_close"} /\ First(r)'
      BY <1>1, <1>3 DEF First, BatchInv
    <3>4. \A d \in Requests \ {r} :
            ~(pc[d] = "sent" /\ route[d] = "auth") /\ ~First(d) /\ pc'[d] = pc[d]
      BY <1>1, <3>1, <3>3, NoneUnderWay DEF First, Shapes
    <3>5. pc'[r] = "close"
      BY <3>1 DEF Shapes
    <3>6. SendInv'
      BY <3>1, <3>3, <3>4, <3>5 DEF SendInv
    <3>7. KindInv'
      BY <1>2, <2>1, <3>4, <3>5 DEF KindInv, Kinds, PipelineKinds
    <3>. QED BY <2>1, <3>1, <3>2, <3>3, <3>6, <3>7 DEF BatchInv, ClientInv
  <2>. QED BY <2>2, <2>3
<1>4. CASE /\ UNCHANGED clientVars /\ Sent(r, 0, None)
           /\ line' = [line EXCEPT !["client"] = RemoveFirst(@, r)]
  <2>1. Keeps /\ ClientLine(r)
    BY <1>1, <1>4, LineSteps DEF Shapes, Locks
  <2>2. kind' = [kind EXCEPT ![r] = kind[r]] /\ UNCHANGED <<session, owner, group>>
    BY DEF SendLocked, ownerVars, Shapes
  <2>. QED BY <1>2, <1>4, <2>1, <2>2, RequestMoves DEF Sent, Keeps, Shapes, Pcs, clientVars
<1>5. CASE Ended(r, "expired") /\ UNCHANGED clientVars
  BY <1>1, <1>2, <1>5, RequestEnds DEF SendLocked, ownerVars, Shapes, Kinds, PipelineKinds, clientVars
<1>. QED BY <1>3, <1>4, <1>5 DEF SendLocked

\* The earlier client is closed.
LEMMA ClosedKeeps ==
  ASSUME GovernorInv, NEW r \in Requests, Closed(r)
  PROVE  GovernorInv'
<1> USE DEF GovernorInv
<1>1. First(r) /\ kind[r] \in Kinds \ {"public", "batch"} /\ UNCHANGED <<kind, owner, group>>
  BY DEF Closed, SendInv, KindInv, Shapes, ownerVars
<1>2. CASE MakeClient(chosen) /\ Sent(r, client', chosen) /\ UNCHANGED <<outcome, line>>
  <2>1. client' \in Nat /\ client' # 0 /\ made' \in Nat
    BY <1>2 DEF MakeClient, Shapes
  <2>. QED BY <1>1, <1>2, <2>1, ClientSent
<1>3. CASE Ended(r, "failed") /\ UNCHANGED <<authSession, client, made, sentVars>>
  BY <1>1, <1>3, RequestEnds DEF Kinds, PipelineKinds
<1>. QED BY <1>2, <1>3 DEF Closed

\* The pacing lets a request go on.
LEMMA PaceEndsKeeps ==
  ASSUME GovernorInv, NEW r \in Requests, PaceEnds(r)
  PROVE  GovernorInv'
<1> USE DEF GovernorInv
<1>1. r \in Tasks /\ pc[r] = "pace" /\ kind' = [kind EXCEPT ![r] = kind[r]]
      /\ UNCHANGED <<authSession, client, made, owner, group>>
  BY DEF PaceEnds, Paced, Tasks, Shapes, sessionVars, clientVars, ownerVars
<1>2. CASE kind[r] \in {"public", "batch"} /\ Sent(r, IF kind[r] = "batch" THEN client ELSE 0, authSession)
           /\ line' = [line EXCEPT !["pace"] = RemoveFirst(@, r)]
  <2>1. Keeps /\ ClientLine(r)
    BY <1>1, <1>2, LineSteps DEF Shapes, Locks
  <2>2. kind[r] = "batch" => owner = "batch" /\ r \in group /\ client # 0
    BY <1>1 DEF KindInv, BatchInv
  <2>3. CASE kind[r] = "public"
    BY <1>1, <1>2, <2>1, <2>3, RequestMoves DEF Sent, Keeps, Shapes, Pcs, Kinds, PipelineKinds
  <2>4. CASE kind[r] = "batch"
    BY <1>1, <1>2, <2>1, <2>2, <2>4, RequestMoves DEF Sent, Keeps, Shapes, Pcs, Kinds
  <2>. QED BY <1>2, <2>3, <2>4
<1>3. CASE kind[r] \in {"market", "require"} /\ pc' = [pc EXCEPT ![r] = "delegate"]
           /\ line' = Moved(r, "pace", "delegate") /\ UNCHANGED <<route, on>>
  <2>1. Keeps /\ ClientLine(r)
    BY <1>1, <1>3, LineSteps DEF Shapes, Locks
  <2>. QED BY <1>1, <1>3, <2>1, RequestWaits DEF Pcs, Kinds, PipelineKinds
<1>4. CASE kind[r] \in {"account", "depth"} /\ pc' = [pc EXCEPT ![r] = "client"]
           /\ line' = Moved(r, "pace", "client") /\ UNCHANGED <<route, on>>
  <2>1. Keeps /\ ClientLine(r)
    BY <1>1, <1>4, LineSteps DEF Shapes, Locks
  <2>. QED BY <1>1, <1>4, <2>1, RequestWaits DEF Pcs, Kinds
<1>. QED BY <1>2, <1>3, <1>4 DEF PaceEnds, Paced

\* A response, a refusal or a timeout arrives.
LEMMA AnswerKeeps ==
  ASSUME GovernorInv, NEW r \in Requests, NEW a \in Answers, Answer(r, a)
  PROVE  GovernorInv'
<1> USE DEF GovernorInv
<1>1. r \in Tasks /\ pc[r] = "sent" /\ UNCHANGED <<kind, authSession, client, made, owner, group>>
  BY DEF Answer, Tasks, ownerVars, clientVars
<1>2. kind[r] \in Kinds /\ kind' = [kind EXCEPT ![r] = kind[r]]
  BY <1>1 DEF KindInv, Shapes
<1>3. ASSUME NEW o, Ended(r, o) PROVE GovernorInv'
  BY <1>1, <1>2, <1>3, RequestEnds DEF Kinds, PipelineKinds
<1>4. CASE /\ kind[r] \in PipelineKinds /\ pc' = [pc EXCEPT ![r] = "retry"]
           /\ route' = [route EXCEPT ![r] = "none"] /\ on' = [on EXCEPT ![r] = 0]
           /\ line' = Without(r)
  <2>1. Keeps /\ ClientLine(r)
    BY <1>1, <1>4, LineSteps DEF Shapes
  <2>. QED BY <1>1, <1>2, <1>4, <2>1, RequestWaits DEF Pcs, PipelineKinds
<1>. QED BY <1>3, <1>4 DEF Answer, PipelineAnswer, SessionAnswer, DepthAnswer

\* The other steps of a request, and its end at any await.
LEMMA RequestKeeps ==
  ASSUME GovernorInv, NEW r \in Requests,
         \/ RequestStep(r) \/ Interrupt(r) \/ \E k \in PipelineKinds : Begin(r, k)
  PROVE  GovernorInv'
<1> USE DEF GovernorInv
<1>k. /\ r \in Tasks /\ kind = [kind EXCEPT ![r] = kind[r]]
      /\ (pc[r] # "idle" => kind[r] \in Kinds)
  BY DEF Shapes, KindInv, Tasks
<1>1. ASSUME NEW k \in PipelineKinds, Begin(r, k) PROVE GovernorInv'
  <2>1. Keeps /\ ClientLine(r)
    BY <1>1, <1>k, LineSteps DEF Begin, Shapes, Locks
  <2>. QED BY <1>1, <2>1, RequestWaits DEF Begin, ownerVars, sessionVars, clientVars, Kinds, PipelineKinds, Pcs
<1>2. CASE TakeSlot(r)
  <2>1. Keeps /\ ClientLine(r)
    BY <1>2, <1>k, LineSteps DEF TakeSlot, Shapes, Locks
  <2>. QED BY <1>2, <1>k, <2>1, RequestWaits DEF TakeSlot, ownerVars, sessionVars, clientVars, Pcs
<1>3. CASE PaceSleep(r)
  BY <1>3 DEF PaceSleep, requestVars, ownerVars, sessionVars, clientVars, Shapes, LineInv, KindInv, SendInv,
              BatchInv, ClientInv, First
<1>4. ASSUME NEW a \in {"response", "expired", "none"}, DelegateAnswers(r, a) PROVE GovernorInv'
  <2>1. pc[r] = "delegate" /\ UNCHANGED <<kind, session, authSession, client, made, owner, group>>
    BY <1>4 DEF DelegateAnswers, ownerVars, sessionVars, clientVars
  <2>2. ASSUME NEW o, Ended(r, o) PROVE GovernorInv'
    BY <2>1, <2>2, <1>k, RequestEnds DEF Shapes, Kinds, PipelineKinds
  <2>3. CASE /\ kind[r] = "market" /\ pc' = [pc EXCEPT ![r] = "client"]
             /\ line' = Moved(r, "delegate", "client") /\ UNCHANGED <<route, on>>
    <3>1. Keeps /\ ClientLine(r)
      BY <1>k, <2>3, LineSteps DEF Shapes, Locks
    <3>. QED BY <1>k, <2>1, <2>3, <3>1, RequestWaits DEF Pcs
  <2>. QED BY <1>4, <2>2, <2>3 DEF DelegateAnswers
<1>5. CASE Retry(r)
  <2>1. Keeps /\ ClientLine(r)
    BY <1>5, <1>k, LineSteps DEF Retry, Shapes, Locks
  <2>. QED BY <1>5, <1>k, <2>1, RequestWaits DEF Retry, ownerVars, sessionVars, clientVars, Pcs
<1>6. CASE Interrupt(r)
  BY <1>6, RequestEnds DEF Interrupt, ownerVars, Shapes, PipelineKinds
<1>. QED BY <1>1, <1>2, <1>3, <1>4, <1>5, <1>6, PaceEndsKeeps, SendLockedKeeps, ClosedKeeps, AnswerKeeps
         DEF RequestStep

-----------------------------------------------------------------------------
(* The worker's own task.                                                   *)

\* A command starts.
LEMMA StartKeeps ==
  ASSUME GovernorInv, NEW S \in SUBSET Requests,
         StartBatch(S) \/ \E k \in {"account", "depth"} : StartGather(S, k)
  PROVE  GovernorInv'
<1> USE DEF GovernorInv
<1>1. Owner \in Tasks /\ owner = "idle" /\ group' = S /\ \A r \in S : pc[r] = "idle"
  BY DEF Tasks, StartBatch, StartGather, StartGroup
<1>2. UNCHANGED <<route, on, session, client, made, authSession>>
  BY DEF StartBatch, StartGather, sessionVars, clientVars
<1>3. CASE StartBatch(S)
  <2>1. Keeps /\ ClientLine(Owner)
    BY <1>1, <1>3, LineSteps DEF StartBatch, Shapes, Locks
  <2>2. LineInv'
    BY <1>1, <2>1, FirstStays DEF Keeps, LineInv, Shapes
  <2>3. pc' = pc /\ kind' = [r \in Requests |-> IF r \in S THEN "batch" ELSE kind[r]]
    BY <1>3 DEF StartBatch, StartGroup
  <2>4. Shapes'
    BY <1>1, <1>2, <2>2, <2>3 DEF Shapes, Kinds
  <2>. QED BY <1>1, <1>2, <1>3, <2>1, <2>3, <2>4, OwnerMoves DEF StartBatch
<1>4. ASSUME NEW k \in {"account", "depth"}, StartGather(S, k) PROVE GovernorInv'
  <2>1. line' = [line EXCEPT !["slot"] = line["slot"] \o SetToSeq(S)]
    BY <1>4 DEF StartGather
  <2>2. Keeps /\ line'["client"] = line["client"]
    BY <2>1 DEF Keeps, LineInv, Shapes, Locks
  <2>3. LineInv' /\ ClientLine(Owner)
    BY <2>2 DEF Keeps, LineInv, Shapes, ClientLine
  <2>4. /\ pc' = [r \in Requests |-> IF r \in S THEN "slot" ELSE pc[r]]
        /\ kind' = [r \in Requests |-> IF r \in S THEN k ELSE kind[r]]
    BY <1>4 DEF StartGather, StartGroup, Started
  <2>5. Shapes'
    BY <1>1, <1>2, <2>3, <2>4 DEF Shapes, Kinds, Pcs
  <2>. QED BY <1>1, <1>2, <1>4, <2>3, <2>4, <2>5, OwnerMoves DEF StartGather
<1>. QED BY <1>3, <1>4

\* A command ends, whether its requests have or not.
LEMMA EndsKeep ==
  ASSUME GovernorInv, NEW e \in BOOLEAN, NEW others \in {line, Without(Owner)}, CommandEnds(e, others),
         UNCHANGED <<kind, pc, route, on, authSession, client, made>>,
         owner = "batch" => \A r \in group : pc[r] = "done"
  PROVE  GovernorInv'
<1> USE DEF GovernorInv
<1>1. owner' \in {"idle", "clear"} /\ group' = {}
  BY DEF CommandEnds, Shapes
<1>2. /\ Owner \in Tasks /\ "client" \in Locks /\ others = [l \in Locks |-> others[l]]
      /\ others["client"] \in {line["client"], RemoveFirst(line["client"], Owner)}
  BY DEF Shapes, LineInv, Without, Locks, Tasks
<1>3. line' = others \/ line' = [others EXCEPT !["client"] = Append(@, Owner)]
  BY DEF CommandEnds
<1>4. Keeps /\ ClientLine(Owner)
  BY <1>2, <1>3 DEF Keeps, ClientLine
<1>5. Shapes'
  BY <1>1, <1>2, <1>4, FirstStays DEF Shapes, LineInv, Keeps
<1>. QED BY <1>1, <1>4, <1>5, OwnerMoves

\* The steps of the owner.
LEMMA OwnerKeeps ==
  ASSUME GovernorInv, OwnerStep \/ Exit
  PROVE  GovernorInv'
<1> USE DEF GovernorInv
<1>1. CASE GatherEnds
  BY <1>1, EndsKeep DEF GatherEnds, requestVars, clientVars
<1>2. CASE BatchEnds
  BY <1>2, EndsKeep DEF BatchEnds, requestVars, clientVars
<1>3. CASE BatchLocked \/ BatchClosed
  <2>1. First(Owner) /\ Owner \in Tasks /\ owner \in {"batch_lock", "batch_close"}
    BY <1>3, HolderIsFirst DEF BatchLocked, BatchClosed, Shapes, Tasks, BatchInv
  <2>2. UNCHANGED <<kind, route, on>>
        /\ \A d \in Requests : ~(pc[d] = "sent" /\ route[d] = "auth") /\ ~First(d)
    BY <1>3, <2>1, NoneUnderWay, GovernorAssumption DEF BatchLocked, BatchClosed, First
  <2>3. CASE /\ StartPaths /\ client' \in Nat /\ made' \in Nat /\ client' # 0
             /\ UNCHANGED <<group, session>>
    <3>1. /\ Started(group) /\ owner' = "batch"
          /\ line' = [line EXCEPT !["slot"] = line["slot"] \o SetToSeq(group)]
      BY <2>3 DEF StartPaths
    <3>2. Keeps /\ line'["client"] = line["client"]
      BY <3>1 DEF Keeps, LineInv, Shapes, Locks
    <3>3. pc' = [r \in Requests |-> IF r \in group THEN "slot" ELSE pc[r]]
      BY <3>1 DEF Started
    <3>4. Shapes'
      BY <2>2, <2>3, <3>2, <3>3 DEF Shapes, LineInv, Keeps, Pcs
    <3>5. SendInv'
      BY <2>2, <3>3 DEF SendInv
    <3>6. KindInv'
      BY <2>1, <2>2, <2>3, <3>1, <3>3 DEF KindInv
    <3>7. BatchInv' /\ ClientInv'
      BY <2>1, <2>3, <3>2 DEF BatchInv, ClientInv, First
    <3>. QED BY <3>4, <3>5, <3>6, <3>7
  <2>4. CASE /\ owner' = "batch_close" /\ client' = 0 /\ authSession' = None /\ made' \in Nat
             /\ UNCHANGED <<pc, line, group>>
    <3>1. Shapes'
      BY <2>2, <2>4 DEF Shapes, LineInv
    <3>2. KindInv'
      BY <2>1, <2>2, <2>4 DEF KindInv
    <3>3. SendInv'
      BY <2>2, <2>4 DEF SendInv
    <3>. QED BY <2>1, <2>4, <3>1, <3>2, <3>3 DEF BatchInv, ClientInv, First
  <2>5. ASSUME NEW e \in BOOLEAN, CommandEnds(e, Without(Owner)), UNCHANGED <<pc, authSession, client, made>>
        PROVE  GovernorInv'
    BY <2>1, <2>2, <2>5, EndsKeep
  <2>6. CASE BatchLocked /\ session # None
    <3>1. EnsureClient /\ UNCHANGED <<group, session>>
          /\ IF client' = 0 THEN owner' = "batch_close" /\ UNCHANGED <<pc, tries, line>> ELSE StartPaths
      BY <2>6 DEF BatchLocked
    <3>. QED BY <2>3, <2>4, <2>6, <3>1, EnsureOpens
  <2>7. CASE BatchLocked /\ session = None
    BY <2>5, <2>7 DEF BatchLocked, clientVars
  <2>8. CASE BatchClosed
    <3>1. MakeClient(chosen) => client' \in Nat /\ client' # 0 /\ made' \in Nat
      BY DEF MakeClient, Shapes
    <3>. QED BY <2>3, <2>5, <2>8, <3>1 DEF BatchClosed
  <2>. QED BY <1>3, <2>6, <2>7, <2>8
<1>4. CASE Cleared
  <2>1. /\ First(Owner) /\ Owner \in Tasks /\ owner = "clear" /\ owner' = "exited"
        /\ client' = 0 /\ authSession' = None /\ line' = Without(Owner)
        /\ UNCHANGED <<kind, pc, route, on, group, session, made>>
    BY <1>4, HolderIsFirst DEF Cleared, Shapes, Tasks, requestVars
  <2>2. \A d \in Requests : ~(pc[d] = "sent" /\ route[d] = "auth") /\ ~First(d)
    BY <2>1, NoneUnderWay, GovernorAssumption DEF First
  <2>3. Keeps /\ ClientLine(Owner)
    BY <2>1, LineSteps DEF Shapes
  <2>4. Shapes'
    BY <2>1, <2>3, FirstStays DEF Shapes, LineInv, Keeps
  <2>5. SendInv'
    BY <2>1, <2>2 DEF SendInv
  <2>6. KindInv'
    BY <2>1 DEF KindInv
  <2>. QED BY <2>1, <2>4, <2>5, <2>6 DEF BatchInv, ClientInv
<1>5. CASE Exit
  <2>1. /\ Owner \in Tasks /\ owner = "idle" /\ owner' = "clear"
        /\ UNCHANGED <<kind, pc, route, on, group, session, authSession, client, made>>
    BY <1>5 DEF Exit, requestVars, sessionVars, clientVars, Tasks
  <2>2. Keeps /\ ClientLine(Owner)
    BY <1>5, <2>1, LineSteps DEF Exit, Shapes, Locks
  <2>3. Shapes'
    BY <2>1, <2>2, FirstStays DEF Shapes, LineInv, Keeps
  <2>. QED BY <2>1, <2>2, <2>3, OwnerMoves
<1>. QED BY <1>1, <1>2, <1>3, <1>4, <1>5 DEF OwnerStep

LEMMA GovernorNext == GovernorInv /\ [Next]_vars => GovernorInv'
<1> SUFFICES ASSUME GovernorInv, [Next]_vars PROVE GovernorInv'
  OBVIOUS
<1>1. ASSUME UNCHANGED <<kind, pc, route, on, group, owner, line, authSession, client, made>>
      PROVE  GovernorInv'
  BY <1>1 DEF GovernorInv, Shapes, LineInv, KindInv, SendInv, BatchInv, ClientInv, First
<1>2. CASE SessionChanges
  BY <1>1, <1>2 DEF SessionChanges, requestVars, ownerVars, clientVars
<1>3. CASE Tick
  BY <1>1, <1>3 DEF Tick, requestVars, ownerVars, sessionVars, clientVars
<1>4. CASE UNCHANGED vars
  BY <1>1, <1>4 DEF vars, requestVars, ownerVars, sessionVars, clientVars
<1>. QED BY <1>2, <1>3, <1>4, RequestKeeps, OwnerKeeps, StartKeeps DEF Next
-----------------------------------------------------------------------------
(* Theorems.                                                                *)

LEMMA GovernorInvariant == Spec => []GovernorInv
BY GovernorInit, GovernorNext, PTL DEF Spec

\* The client of a request under way is not closed or replaced, although a request
\* that finds another session replaces it and __aexit__ closes it.
THEOREM ClientStaysOpen == Spec => []OpenUnderRequests
<1>1. GovernorInv => OpenUnderRequests
  BY DEF GovernorInv, SendInv, OpenUnderRequests
<1>. QED BY <1>1, GovernorInvariant, PTL

-----------------------------------------------------------------------------
(* Sessions that have ended.  Between reading a session and sending it lies one  *)
(* await; whoever is in it holds _client_lock, so there is one of them at most.  *)

LateInv ==
  /\ session \in Sessions \union {None} /\ unused \subseteq Sessions
  /\ late \in [Sessions -> SUBSET Tasks]
  /\ \A s \in Sessions : late[s] # {} => Over(s)
  /\ EndedSessionSentOnce
  /\ \A r \in Requests : pc[r] = "close" => chosen \in Sessions /\ late[chosen] = {}
  /\ owner = "batch_close" => chosen \in Sessions /\ late[chosen] = {}
  /\ owner = "batch" => authSession \in Sessions /\ late[authSession] \subseteq {Owner}

\* What may become of the provider's session: it ends, or a new one takes its place.
Evolves ==
  \/ unused' = unused /\ session' \in {session, None}
  \/ session' \in unused /\ unused' = unused \ {session'}

LEMMA OverForGood ==
  ASSUME Evolves, NEW s \in Sessions, Over(s)
  PROVE  Over(s)'
BY GovernorAssumption DEF Evolves, Over

\* A step that sends no session and waits for no client to close.
LEMMA LateStays ==
  ASSUME LateInv, Evolves, UNCHANGED late,
         \A r \in Requests : pc'[r] = "close" => pc[r] = "close" /\ chosen' = chosen,
         owner' = "batch_close" => owner = "batch_close" /\ chosen' = chosen,
         owner' = "batch" => owner = "batch" /\ authSession' = authSession
  PROVE  LateInv'
<1>1. session' \in Sessions \union {None} /\ unused' \subseteq Sessions
  BY DEF LateInv, Evolves
<1>2. \A s \in Sessions : late'[s] # {} => Over(s)'
  BY OverForGood DEF LateInv
<1>. QED BY <1>1, <1>2 DEF LateInv, EndedSessionSentOnce

\* Whoever has the lock is alone in it.
LEMMA Alone ==
  ASSUME GovernorInv, NEW t \in Tasks, First(t)
  PROVE  /\ \A r \in Requests \ {t} : pc[r] # "close"
         /\ t # Owner => owner \notin {"batch_close", "batch"}
BY DEF GovernorInv, SendInv, BatchInv, First

\* A request goes out, with a session that has not ended or as the first with it.
LEMMA LateSent ==
  ASSUME GovernorInv, LateInv, NEW r \in Requests, NEW c, NEW s, Sent(r, c, s),
         UNCHANGED <<session, unused, owner, group>>,
         \A d \in Requests : pc'[d] # "close",
         owner' # "batch_close",
         owner' = "batch" => UNCHANGED authSession /\ s = authSession /\ kind[r] = "batch",
         s \in Sessions /\ Over(s) => late[s] = {} \/ owner = "batch"
  PROVE  LateInv'
<1> DEFINE t == IF kind[r] = "batch" THEN Owner ELSE r
<1>1. t \in Tasks /\ \A d \in Sessions : Over(d)' = Over(d)
  BY DEF Tasks, Over
<1>2. CASE late' = late
  BY <1>1, <1>2 DEF LateInv, EndedSessionSentOnce
<1>3. CASE Over(s) /\ late' = [late EXCEPT ![s] = late[s] \union {t}]
  <2>1. s \in Sessions
    BY <1>3 DEF Over
  <2>2. /\ late' \in [Sessions -> SUBSET Tasks] /\ late'[s] = late[s] \union {t}
        /\ \A d \in Sessions \ {s} : late'[d] = late[d]
    BY <1>1, <1>3, <2>1 DEF LateInv
  <2>3. late'[s] \subseteq {t}
    BY <2>1, <2>2, <1>3 DEF LateInv
  <2>4. \A d \in Sessions : late'[d] # {} => Over(d)'
    BY <1>1, <1>3, <2>2 DEF LateInv
  <2>5. EndedSessionSentOnce'
    BY <2>2, <2>3 DEF LateInv, EndedSessionSentOnce
  <2>6. owner' = "batch" => authSession' \in Sessions /\ late'[authSession'] \subseteq {Owner}
    BY <2>3 DEF LateInv
  <2>. QED BY <2>2, <2>4, <2>5, <2>6 DEF LateInv
<1>. QED BY <1>2, <1>3 DEF Sent

\* The provider's session has not ended.
LEMMA CurrentIsNotOver == ~Over(session)
BY DEF Over

LEMMA LateNext == GovernorInv /\ LateInv /\ [Next]_vars => LateInv'
<1> SUFFICES ASSUME GovernorInv, LateInv, [Next]_vars PROVE LateInv'
  OBVIOUS
<1>0. /\ pc \in [Requests -> Pcs] /\ Owner \in Tasks /\ session \in Sessions \union {None}
      /\ \A r \in Requests : r \in Tasks /\ r # Owner
  BY GovernorAssumption DEF GovernorInv, Shapes, Tasks, LateInv
<1>1. ASSUME NEW r \in Requests, PaceEnds(r) PROVE LateInv'
  <2>1. UNCHANGED <<session, unused, authSession, chosen, owner, group>>
    BY <1>1 DEF PaceEnds, Paced, sessionVars, clientVars, ownerVars
  <2>2. Evolves
    BY <2>1 DEF Evolves
  <2>3. CASE /\ kind[r] \in {"public", "batch"}
             /\ Sent(r, IF kind[r] = "batch" THEN client ELSE 0, authSession)
    <3>1. pc' = [pc EXCEPT ![r] = "sent"]
      BY <2>3 DEF Sent
    <3>2. CASE kind[r] = "public"
      <4>1. late' = late
        BY <2>3, <3>2 DEF Sent
      <4>. QED BY <1>0, <2>1, <2>2, <3>1, <4>1, LateStays
    <3>3. CASE kind[r] = "batch"
      <4>1. owner = "batch" /\ First(Owner)
        BY <1>1, <3>3 DEF PaceEnds, Paced, GovernorInv, KindInv, BatchInv
      <4>2. \A d \in Requests : pc'[d] # "close"
        BY <1>0, <3>1, <4>1, Alone
      <4>. QED BY <2>1, <2>3, <3>3, <4>1, <4>2, LateSent
    <3>. QED BY <2>3, <3>2, <3>3
  <2>4. CASE UNCHANGED sentVars /\ \E x \in {"delegate", "client"} : pc' = [pc EXCEPT ![r] = x]
    <3>1. late' = late
      BY <2>4 DEF sentVars
    <3>. QED BY <1>0, <2>1, <2>2, <2>4, <3>1, LateStays
  <2>. QED BY <1>1, <2>3, <2>4 DEF PaceEnds, Paced
<1>2. ASSUME NEW r \in Requests, SendLocked(r) PROVE LateInv'
  <2>1. /\ First(r) /\ pc[r] = "client" /\ UNCHANGED <<session, unused, owner, group>>
    BY <1>2, HolderIsFirst DEF SendLocked, GovernorInv, Shapes, ownerVars
  <2>2. Evolves /\ owner \notin {"batch_close", "batch"} /\ \A d \in Requests : pc[d] # "close"
    BY <1>0, <2>1, Alone DEF Evolves
  <2>3. CASE session # None /\ EnsureClient /\ client' # 0 /\ Sent(r, client', authSession')
    <3>1. authSession' = session
      BY <2>3, EnsureOpens
    <3>2. pc' = [pc EXCEPT ![r] = "sent"]
      BY <2>3 DEF Sent
    <3>3. late' = late
      BY <2>3, <3>1, CurrentIsNotOver DEF Sent
    <3>. QED BY <1>0, <2>1, <2>2, <3>2, <3>3, LateStays
  <2>4. CASE /\ session # None /\ EnsureClient /\ client' = 0 /\ UNCHANGED <<route, on, sentVars>>
             /\ pc' = [pc EXCEPT ![r] = "close"]
    <3>1. chosen' = session /\ late' = late /\ session \in Sessions
      BY <1>0, <2>4, EnsureOpens DEF sentVars
    <3>2. late[session] = {}
      BY <3>1, CurrentIsNotOver DEF LateInv
    <3>3. \A s \in Sessions : late'[s] # {} => Over(s)'
      BY <2>2, <3>1, OverForGood DEF LateInv
    <3>. QED BY <1>0, <2>1, <2>2, <3>1, <3>2, <3>3 DEF LateInv, EndedSessionSentOnce
  <2>5. CASE Sent(r, 0, None)
    <3>1. late' = late /\ pc' = [pc EXCEPT ![r] = "sent"]
      BY <2>5 DEF Sent
    <3>. QED BY <1>0, <2>1, <2>2, <3>1, LateStays
  <2>6. CASE Ended(r, "expired") /\ UNCHANGED <<clientVars, sentVars>>
    <3>1. late' = late /\ pc' = [pc EXCEPT ![r] = "done"]
      BY <2>6 DEF Ended, sentVars
    <3>. QED BY <1>0, <2>1, <2>2, <3>1, LateStays
  <2>. QED BY <1>2, <2>3, <2>4, <2>5, <2>6 DEF SendLocked
<1>3. ASSUME NEW r \in Requests, Closed(r) PROVE LateInv'
  <2>1. First(r) /\ pc[r] = "close" /\ UNCHANGED <<session, unused, owner, group>>
    BY <1>3 DEF Closed, GovernorInv, SendInv, ownerVars
  <2>2. /\ Evolves /\ owner \notin {"batch_close", "batch"}
        /\ chosen \in Sessions /\ late[chosen] = {}
        /\ \A d \in Requests \ {r} : pc[d] # "close"
    BY <1>0, <2>1, Alone DEF Evolves, LateInv
  <2>3. CASE Sent(r, client', chosen)
    <3>1. \A d \in Requests : pc'[d] # "close"
      BY <1>0, <2>2, <2>3 DEF Sent
    <3>. QED BY <2>1, <2>2, <2>3, <3>1, LateSent
  <2>4. CASE Ended(r, "failed") /\ UNCHANGED sentVars
    <3>1. late' = late /\ \A d \in Requests : pc'[d] # "close"
      BY <1>0, <2>2, <2>4 DEF Ended, sentVars
    <3>. QED BY <2>1, <2>2, <3>1, LateStays
  <2>. QED BY <1>3, <2>3, <2>4 DEF Closed
<1>4. ASSUME NEW r \in Requests, Interrupt(r) PROVE LateInv'
  <2>1. /\ UNCHANGED <<session, unused, owner, group, authSession, late>>
        /\ pc' = [pc EXCEPT ![r] = "done"]
        /\ chosen' = IF pc[r] = "close" THEN None ELSE chosen
    BY <1>4 DEF Interrupt, Ended, ownerVars, sentVars
  <2>2. pc[r] = "close" =>
          owner \notin {"batch_close", "batch"} /\ \A d \in Requests \ {r} : pc[d] # "close"
    BY <1>0, Alone DEF GovernorInv, SendInv
  <2>3. Evolves /\ \A d \in Requests : pc'[d] = "close" => d # r /\ pc[d] = "close"
    BY <1>0, <2>1 DEF Evolves
  <2>. QED BY <2>1, <2>2, <2>3, LateStays
<1>5. CASE BatchLocked \/ BatchClosed
  <2>1. First(Owner) /\ late' = late /\ unused' = unused
    BY <1>5, HolderIsFirst DEF BatchLocked, BatchClosed, GovernorInv, Shapes, BatchInv, sentVars
  <2>2. \A d \in Requests : pc[d] # "close"
    BY <1>0, <2>1, Alone
  <2>3. ASSUME StartPaths, UNCHANGED session, authSession' \in Sessions, late[authSession'] = {}
        PROVE  LateInv'
    <3>1. owner' = "batch" /\ Evolves /\ \A d \in Requests : pc'[d] # "close"
      BY <2>1, <2>2, <2>3 DEF StartPaths, Started, Evolves
    <3>2. \A s \in Sessions : late'[s] # {} => Over(s)'
      BY <2>1, <3>1, OverForGood DEF LateInv
    <3>. QED BY <2>1, <2>3, <3>1, <3>2 DEF LateInv, EndedSessionSentOnce
  <2>4. ASSUME NEW e, NEW others, CommandEnds(e, others), UNCHANGED pc PROVE LateInv'
    <3>1. owner' \in {"clear", "idle"} /\ Evolves
      BY <2>1, <2>4 DEF CommandEnds, Evolves
    <3>. QED BY <2>1, <2>2, <2>4, <3>1, LateStays
  <2>5. CASE BatchLocked /\ session # None
    <3>1. session \in Sessions /\ late[session] = {}
      BY <1>0, <2>5, CurrentIsNotOver DEF LateInv
    <3>2. EnsureClient /\ UNCHANGED <<group, session>>
          /\ IF client' = 0 THEN owner' = "batch_close" /\ UNCHANGED <<pc, tries, line>> ELSE StartPaths
      BY <2>5 DEF BatchLocked
    <3>3. CASE client' # 0
      BY <2>3, <2>5, <3>1, <3>2, <3>3, EnsureOpens
    <3>4. CASE client' = 0
      <4>1. chosen' = session /\ Evolves /\ owner' = "batch_close" /\ pc' = pc
        BY <2>1, <2>5, <3>2, <3>4, EnsureOpens DEF Evolves
      <4>2. \A s \in Sessions : late'[s] # {} => Over(s)'
        BY <2>1, <4>1, OverForGood DEF LateInv
      <4>. QED BY <1>0, <2>1, <2>2, <3>1, <3>2, <4>1, <4>2 DEF LateInv, EndedSessionSentOnce
    <3>. QED BY <3>3, <3>4
  <2>6. CASE BatchLocked /\ session = None
    BY <2>4, <2>6 DEF BatchLocked
  <2>7. CASE BatchClosed
    <3>1. chosen \in Sessions /\ late[chosen] = {}
      BY <2>7 DEF BatchClosed, LateInv
    <3>. QED BY <2>3, <2>4, <2>7, <3>1 DEF BatchClosed, MakeClient
  <2>. QED BY <1>5, <2>5, <2>6, <2>7
<1>6. ASSUME NEW r \in Requests,
             \/ TakeSlot(r) \/ PaceSleep(r) \/ Retry(r)
             \/ \E a \in {"response", "expired", "none"} : DelegateAnswers(r, a)
             \/ \E a \in Answers : Answer(r, a)
             \/ \E k \in PipelineKinds : Begin(r, k)
      PROVE  LateInv'
  <2>1. /\ UNCHANGED <<unused, authSession, chosen, owner, late>>
        /\ session' \in {session, None}
    BY <1>6 DEF TakeSlot, PaceSleep, Retry, DelegateAnswers, Answer, PipelineAnswer, SessionAnswer,
       DepthAnswer, Begin, sessionVars, clientVars, ownerVars, sentVars
  <2>2. pc' = pc \/ \E x \in Pcs \ {"close"} : pc' = [pc EXCEPT ![r] = x]
    BY <1>6 DEF TakeSlot, PaceSleep, Retry, DelegateAnswers, Answer, PipelineAnswer, SessionAnswer,
       DepthAnswer, Begin, Ended, requestVars, Pcs
  <2>3. Evolves /\ \A d \in Requests : pc'[d] = "close" => pc[d] = "close"
    BY <1>0, <2>1, <2>2 DEF Evolves
  <2>. QED BY <2>1, <2>3, LateStays
<1>7. CASE \/ GatherEnds \/ BatchEnds \/ Cleared \/ Exit \/ SessionChanges \/ Tick \/ UNCHANGED vars
           \/ \E S \in SUBSET Requests : StartBatch(S) \/ \E k \in {"account", "depth"} : StartGather(S, k)
  <2>1. UNCHANGED <<chosen, late>> /\ Evolves
    <3>1. CASE SessionChanges
      BY <3>1 DEF SessionChanges, clientVars, sentVars, Evolves, GovernorInv, LateInv
    <3>2. CASE GatherEnds \/ BatchEnds
      BY <3>2 DEF GatherEnds, BatchEnds, CommandEnds, clientVars, sentVars, Evolves
    <3>3. CASE Cleared
      BY <3>3 DEF Cleared, sentVars, Evolves
    <3>4. CASE Exit \/ Tick \/ UNCHANGED vars
      BY <3>4 DEF Exit, Tick, vars, sessionVars, clientVars, sentVars, Evolves
    <3>5. CASE \E S \in SUBSET Requests :
                 StartBatch(S) \/ \E k \in {"account", "depth"} : StartGather(S, k)
      BY <3>5 DEF StartBatch, StartGather, sessionVars, clientVars, sentVars, Evolves
    <3>. QED BY <1>7, <3>1, <3>2, <3>3, <3>4, <3>5
  <2>2. \A d \in Requests : pc'[d] = "close" => pc[d] = "close"
    BY <1>0, <1>7 DEF GatherEnds, BatchEnds, Cleared, Exit, SessionChanges, Tick, vars, requestVars,
       StartBatch, StartGather, Started
  <2>3. \/ owner' \in {"gather", "batch_lock", "idle", "clear", "exited"}
        \/ owner' = owner /\ authSession' = authSession
    BY <1>7 DEF GatherEnds, BatchEnds, CommandEnds, Cleared, Exit, SessionChanges, Tick, vars,
       ownerVars, sessionVars, clientVars, StartBatch, StartGather
  <2>. QED BY <2>1, <2>2, <2>3, LateStays
<1>. QED BY <1>1, <1>2, <1>3, <1>4, <1>5, <1>6, <1>7 DEF Next, RequestStep, OwnerStep

\* A session that has ended is sent by one task more at most: whoever had the lock
\* when it ended.  The next one reads the provider again and finds another.
THEOREM EndedSentOnce == Spec => []EndedSessionSentOnce
<1>1. Init => LateInv
  <2> SUFFICES ASSUME Init PROVE LateInv
    OBVIOUS
  <2>1. session \in Sessions \union {None} /\ unused \subseteq Sessions /\ late = [s \in Sessions |-> {}]
        /\ owner = "idle" /\ \A r \in Requests : pc[r] = "idle"
    BY DEF Init
  <2>. QED BY <2>1 DEF LateInv, EndedSessionSentOnce
<1>2. LateInv => EndedSessionSentOnce
  BY DEF LateInv
<1>. QED BY <1>1, <1>2, LateNext, GovernorInvariant, PTL DEF Spec

-----------------------------------------------------------------------------
(* Pacing.                                                                  *)

\* Three steps send a request: the end of the pacing, that of the wait for the lock,
\* and that of the wait for an earlier client to close.
LEMMA SentBy ==
  ASSUME GovernorInv, Next, NEW r \in Requests, pc[r] # "sent", pc'[r] = "sent"
  PROVE  PaceEnds(r) \/ SendLocked(r) \/ Closed(r)
<1>1. pc \in [Requests -> Pcs]
  BY DEF GovernorInv, Shapes
<1>2. ASSUME NEW d \in Requests, PaceEnds(d) \/ SendLocked(d) \/ Closed(d) PROVE d = r
  BY <1>1, <1>2 DEF PaceEnds, Paced, SendLocked, Closed, Sent, Ended
<1>3. ASSUME NEW d \in Requests, NEW o, Ended(d, o) PROVE FALSE
  BY <1>1, <1>3 DEF Ended
<1>4. ASSUME NEW d \in Requests, NEW a \in Answers, Answer(d, a) PROVE FALSE
  BY <1>1, <1>3, <1>4 DEF Answer, PipelineAnswer, SessionAnswer, DepthAnswer
<1>5. ASSUME NEW d \in Requests, NEW a, DelegateAnswers(d, a) PROVE FALSE
  BY <1>1, <1>3, <1>5 DEF DelegateAnswers
<1>6. ASSUME NEW d \in Requests,
             \/ TakeSlot(d) \/ PaceSleep(d) \/ Retry(d) \/ Interrupt(d)
             \/ \E k \in PipelineKinds : Begin(d, k)
      PROVE  FALSE
  BY <1>1, <1>3, <1>6 DEF TakeSlot, PaceSleep, Retry, Interrupt, Begin, requestVars
<1>7. \/ pc' = pc
      \/ \E S \in SUBSET Requests : pc' = [d \in Requests |-> IF d \in S THEN "slot" ELSE pc[d]]
      \/ \E d \in Requests : RequestStep(d) \/ Interrupt(d) \/ \E k \in PipelineKinds : Begin(d, k)
  BY DEF Next, OwnerStep, GatherEnds, BatchLocked, BatchClosed, BatchEnds, Cleared, StartPaths, StartBatch, StartGather,
         Started, Exit, SessionChanges, Tick, requestVars, GovernorInv, Shapes
<1>. QED BY <1>2, <1>4, <1>5, <1>6, <1>7 DEF RequestStep

\* What is left of the interval after the last public request was sent.
PaceInv ==
  /\ pace \in Nat /\ cool \in Nat /\ sincePublic \in 0..MinInterval
  /\ MinInterval <= sincePublic + pace

\* A pace just set covers the whole interval.
LEMMA FullPace ==
  ASSUME NEW m \in Nat, NEW s \in Nat, NEW j \in Nat
  PROVE  m + j \in Nat /\ m <= s + (m + j)
  OBVIOUS

LEMMA PaceNext == GovernorInv /\ PaceInv /\ [Next]_vars => PaceInv'
<1> SUFFICES ASSUME GovernorInv, PaceInv, [Next]_vars PROVE PaceInv'
  OBVIOUS
<1> USE GovernorAssumption DEF PaceInv
<1>1. ASSUME UNCHANGED <<pace, sincePublic>>, cool' = cool \/ NoteRateLimit \/ cool' = Larger(cool, Cooldown)
      PROVE  PaceInv'
  BY <1>1 DEF NoteRateLimit, Larger
<1>2. ASSUME NEW r \in Requests, PaceEnds(r) PROVE PaceInv'
  <2>1. cool' = cool /\ sincePublic' \in {0, sincePublic} /\ \E j \in 0..Jitter : pace' = MinInterval + j
    BY <1>2 DEF PaceEnds, Paced, Sent, sentVars
  <2>2. PICK j \in Nat : pace' = MinInterval + j
    BY <2>1
  <2>3. sincePublic' \in 0..MinInterval /\ cool' \in Nat /\ MinInterval \in Nat
    BY <2>1
  <2>4. pace' \in Nat /\ MinInterval <= sincePublic' + pace'
    <3>1. sincePublic' \in Nat
      BY <2>3
    <3>. QED BY ONLY <2>2, <2>3, <3>1, FullPace
  <2>. QED BY <2>3, <2>4
<1>3. ASSUME NEW r \in Requests, SendLocked(r) \/ Closed(r) PROVE PaceInv'
  <2>1. kind[r] # "public"
    BY <1>3 DEF SendLocked, Closed, GovernorInv, KindInv
  <2>2. UNCHANGED <<pace, cool, sincePublic>>
    BY <1>3, <2>1 DEF SendLocked, Closed, Sent, paceVars, sentVars
  <2>. QED BY <2>2
<1>4. CASE Tick
  <2>1. /\ pace' = IF pace = 0 THEN 0 ELSE pace - 1
        /\ cool' = IF cool = 0 THEN 0 ELSE cool - 1
        /\ sincePublic' = IF sincePublic = MinInterval THEN sincePublic ELSE sincePublic + 1
    BY <1>4 DEF Tick, Less
  <2>. QED BY <2>1
<1>5. ASSUME NEW r \in Requests, NEW a \in Answers, Answer(r, a) PROVE PaceInv'
  BY <1>1, <1>5 DEF Answer, PipelineAnswer, SessionAnswer, DepthAnswer, sentVars
<1>6. ASSUME NEW r \in Requests,
             \/ TakeSlot(r) \/ PaceSleep(r) \/ Retry(r) \/ Interrupt(r)
             \/ \E a \in {"response", "expired", "none"} : DelegateAnswers(r, a)
             \/ \E k \in PipelineKinds : Begin(r, k)
      PROVE  PaceInv'
  BY <1>1, <1>6 DEF TakeSlot, PaceSleep, Retry, Interrupt, DelegateAnswers, Begin, paceVars, sentVars
<1>7. CASE \/ OwnerStep \/ Exit \/ SessionChanges
           \/ \E S \in SUBSET Requests : StartBatch(S) \/ \E k \in {"account", "depth"} : StartGather(S, k)
           \/ UNCHANGED vars
  BY <1>1, <1>7 DEF OwnerStep, GatherEnds, BatchLocked, BatchClosed, BatchEnds, Cleared, StartBatch,
     StartGather, Exit, SessionChanges, vars, paceVars, sentVars
<1>. QED BY <1>2, <1>3, <1>4, <1>5, <1>6, <1>7 DEF Next, RequestStep

\* A public request is sent only by the step that ends the pacing: the interval is
\* over, and so is the cooldown, since both are read again after every sleep.
THEOREM PublicPaced == Spec => PublicStartsPaced
<1> DEFINE Ready(r) == StartsPublic(r) => sincePublic = MinInterval /\ cool = 0
<1>1. Init => PaceInv
  BY GovernorAssumption DEF Init, PaceInv
<1>2. GovernorInv /\ PaceInv /\ [Next]_vars => [\A r \in Requests : Ready(r)]_vars
  <2> SUFFICES ASSUME GovernorInv, PaceInv, Next, NEW r \in Requests, StartsPublic(r)
               PROVE  sincePublic = MinInterval /\ cool = 0
    BY DEF vars
  <2>1. /\ kind[r] = "public" /\ pc[r] # "sent" /\ pc'[r] = "sent" /\ pc \in [Requests -> Pcs]
    BY DEF StartsPublic, GovernorInv, Shapes
  <2>2. ASSUME NEW d \in Requests, PaceEnds(d) PROVE sincePublic = MinInterval /\ cool = 0
    <3>1. NotBefore = 0
      BY <2>2 DEF PaceEnds, Paced
    <3>. QED BY <3>1, GovernorAssumption DEF NotBefore, Larger, PaceInv
  <2>3. PaceEnds(r) \/ SendLocked(r) \/ Closed(r)
    BY <2>1, SentBy
  <2>4. ~ SendLocked(r) /\ ~ Closed(r)
    BY <2>1 DEF SendLocked, Closed, GovernorInv, KindInv
  <2>. QED BY <2>2, <2>3, <2>4
<1>. QED BY <1>1, <1>2, PaceNext, GovernorInvariant, PTL DEF Spec, PublicStartsPaced
================================================================================
