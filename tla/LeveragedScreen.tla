--------------------------- MODULE LeveragedScreen ---------------------------
(* screen_leveraged_instruments: one client call creates a snapshot of the   *)
(* eligible products; that call and every later one with its id fetch the    *)
(* next batch of authenticated quotes for it, until all products have been   *)
(* tried and the whole list can be ranked.  The server runs calls side by    *)
(* side, so several work on the same snapshot object between their awaits.   *)
(* One snapshot is followed; a product is its index in the structural order. *)
EXTENDS Naturals, FiniteSets

CONSTANTS
  Clients,    \* each has one call of the tool at a time
  MaxTotal,   \* bound: eligible products of a snapshot
  Batch       \* _EXECUTION_BATCH_SIZE

ASSUME ScreenAssumption ==
  MaxTotal \in Nat /\ Batch \in Nat \ {0}

VARIABLES
  stored,    \* _SNAPSHOTS has it: "none", "live" or "expired"
  source,    \* discovery_source: "catalog" or "feed"
  total,     \* len(snapshot.products)
  cursor,    \* execution_next_index
  times,     \* entries of execution_products per product; 2 stands for more
  quoted,    \* some entry has live_market_data
  refreshed, \* final_refresh_completed
  pc,        \* the await a call is at, or "idle"
  creator,   \* the calls that came without a snapshot_id
  start,     \* start_index
  failed,    \* batch_error is set
  reply,     \* what the client's last call returned
  overlap    \* history: two calls have fetched a batch side by side

snapshot == <<stored, source, total, cursor, times, quoted, refreshed>>
call     == <<pc, creator, start, failed, reply>>
vars == <<snapshot, call, overlap>>

Awaits  == {"discover", "batch", "refresh", "rescreen"}
Replies == {"none", "error", "structural", "partial", "ranking", "public"}
Products == 1 .. MaxTotal

Init ==
  /\ stored = "none" /\ source = "feed" /\ total = 0 /\ cursor = 0
  /\ times = [p \in Products |-> 0] /\ quoted = FALSE /\ refreshed = FALSE
  /\ pc = [c \in Clients |-> "idle"] /\ creator = {}
  /\ start = [c \in Clients |-> 0] /\ failed = {}
  /\ reply = [c \in Clients |-> "none"]
  /\ overlap = FALSE

Await(c, a) == pc' = [pc EXCEPT ![c] = a] /\ UNCHANGED reply

Return(c, r) ==
  /\ pc' = [pc EXCEPT ![c] = "idle"]
  /\ reply' = [reply EXCEPT ![c] = r]

-----------------------------------------------------------------------------
(* enrich_snapshot up to its first await, and the end of a call.            *)

\* Variant: the last batch is not cut.
BatchEndUncut(c) == start[c] + Batch

BatchEnd(c) == IF start[c] + Batch < total THEN start[c] + Batch ELSE total

\* The structural page stands in; a first call that had the catalog's products
\* screens the feed, for the prices the catalog does not have.
Fallback(c) ==
  IF c \in creator /\ source = "catalog"
  THEN Await(c, "rescreen")
  ELSE Return(c, "public")

\* The tool reads what enrich_snapshot returned with complete = scan_complete.
Answer(c, complete) ==
  IF c \notin failed' /\ ~complete THEN Return(c, "partial")
  ELSE IF c \notin failed' /\ quoted' THEN Return(c, "ranking")
  ELSE Fallback(c)

\* A complete list is sorted; whoever finds that the top of it has not been
\* refreshed fetches it again, and the others answer.
Ranked(c) ==
  IF cursor' < total THEN Answer(c, FALSE)
  ELSE IF ~refreshed /\ \E p \in Products : times'[p] > 0
       THEN Await(c, "refresh")
       ELSE Answer(c, TRUE)

\* A new batch is fetched from the cursor on, unless there is none left.
EnrichFrom(c, from) ==
  /\ start' = [start EXCEPT ![c] = from]
  /\ Await(c, "batch")
  /\ overlap' = (overlap \/ \E d \in Clients \ {c} : pc[d] = "batch")

-----------------------------------------------------------------------------
(* Calls.                                                                   *)

\* A call without a snapshot_id.
Create(c) ==
  /\ pc[c] = "idle" /\ stored = "none"
  /\ \A d \in Clients : pc[d] # "discover"
  /\ creator' = creator \union {c}
  /\ failed' = failed \ {c}
  /\ Await(c, "discover")
  /\ UNCHANGED <<snapshot, start, overlap>>

\* screen returns: the snapshot is stored and, unless it is empty, enriched.
Screened(c) ==
  /\ pc[c] = "discover"
  /\ stored' = "live"
  /\ source' \in {"catalog", "feed"}
  /\ total' \in IF source' = "catalog" THEN Products ELSE 0 .. MaxTotal
  /\ UNCHANGED <<cursor, times, quoted, refreshed, creator, failed>>
  /\ IF total' = 0
     THEN Return(c, "structural") /\ UNCHANGED <<start, overlap>>
     ELSE EnrichFrom(c, 0)

\* A call with the snapshot_id.
PageCall(c) ==
  /\ pc[c] = "idle" /\ stored # "none"
  /\ creator' = creator \ {c}
  /\ failed' = failed \ {c}
  /\ UNCHANGED snapshot

PageExpired(c) ==
  /\ stored = "expired"
  /\ PageCall(c)
  /\ Return(c, "error")
  /\ UNCHANGED <<start, overlap>>

\* The offset lies behind the last product: nothing is fetched.
PageBehind(c) ==
  /\ stored = "live"
  /\ PageCall(c)
  /\ Return(c, "structural")
  /\ UNCHANGED <<start, overlap>>

PageInList(c) ==
  /\ stored = "live" /\ total > 0
  /\ PageCall(c)
  /\ IF cursor < total THEN EnrichFrom(c, cursor)
     ELSE Ranked(c) /\ UNCHANGED <<start, overlap>>

\* Variant: each batch that arrives moves the cursor on by its own length.
BatchFetchedAdds(c) ==
  /\ pc[c] = "batch"
  /\ times' = [p \in Products |->
                 IF p \in start[c] + 1 .. BatchEnd(c) /\ times[p] < 2
                 THEN times[p] + 1 ELSE times[p]]
  /\ quoted' \in {quoted, TRUE}
  /\ cursor' = IF cursor + Batch < total THEN cursor + Batch ELSE total
  /\ UNCHANGED <<stored, source, total, refreshed, creator, start, failed, overlap>>
  /\ Ranked(c)

\* Variant: a batch with no quote at all is fetched again.
BatchFetchedStays(c) ==
  /\ pc[c] = "batch"
  /\ quoted' \in {quoted, TRUE}
  /\ times' = [p \in Products |->
                 IF p \in start[c] + 1 .. BatchEnd(c) /\ times[p] < 2
                 THEN times[p] + 1 ELSE times[p]]
  /\ cursor' = IF quoted' THEN BatchEnd(c) ELSE cursor
  /\ UNCHANGED <<stored, source, total, refreshed, creator, start, failed, overlap>>
  /\ Ranked(c)

\* The batch arrives.  Upstream may not have had all of its quotes.
BatchFetched(c) ==
  /\ pc[c] = "batch"
  /\ times' = [p \in Products |->
                 IF p \in start[c] + 1 .. BatchEnd(c) /\ times[p] < 2
                 THEN times[p] + 1 ELSE times[p]]
  /\ quoted' \in {quoted, TRUE}
  /\ cursor' = BatchEnd(c)
  /\ UNCHANGED <<stored, source, total, refreshed, creator, start, failed, overlap>>
  /\ Ranked(c)

\* Variant: a failed batch is recorded as tried.
BatchFailsRecorded(c) ==
  /\ pc[c] = "batch"
  /\ failed' = failed \union {c}
  /\ times' = [p \in Products |->
                 IF p \in start[c] + 1 .. BatchEnd(c) /\ times[p] < 2
                 THEN times[p] + 1 ELSE times[p]]
  /\ UNCHANGED <<stored, source, total, refreshed, cursor, quoted, creator,
                 start, overlap>>
  /\ Ranked(c)

\* The batch fails as a whole: nothing is recorded and the cursor stays.
BatchFails(c) ==
  /\ pc[c] = "batch"
  /\ failed' = failed \union {c}
  /\ UNCHANGED <<snapshot, creator, start, overlap>>
  /\ Ranked(c)

\* The final refresh of the first _FINAL_REFRESH_SIZE products, in any outcome.
TopRefreshed(c) ==
  /\ pc[c] = "refresh"
  /\ refreshed' = TRUE
  /\ quoted' \in {quoted, TRUE}
  /\ UNCHANGED <<stored, source, total, cursor, times, creator, start, failed,
                 overlap>>
  /\ Answer(c, TRUE)

\* The second screen returns another snapshot's first page, or fails.
Rescreened(c) ==
  /\ pc[c] = "rescreen"
  /\ \E r \in {"public", "error"} : Return(c, r)
  /\ UNCHANGED <<snapshot, creator, start, failed, overlap>>

\* The call is cancelled, or an await raises what nothing here catches.
Abort(c) ==
  /\ pc[c] \in Awaits
  /\ Return(c, "error")
  /\ UNCHANGED <<snapshot, creator, start, failed, overlap>>

\* Ten minutes after the screen; calls that hold the object keep it.
Expire ==
  /\ stored = "live" /\ stored' = "expired"
  /\ UNCHANGED <<source, total, cursor, times, quoted, refreshed, call, overlap>>

Step(c) ==
  \/ Create(c) \/ Screened(c) \/ PageExpired(c) \/ PageBehind(c)
  \/ PageInList(c) \/ BatchFetched(c) \/ BatchFails(c) \/ TopRefreshed(c)
  \/ Rescreened(c) \/ Abort(c)

Next == Expire \/ \E c \in Clients : Step(c)

Spec == Init /\ [][Next]_vars

\* Requests have timeouts.  The clients repeat the snapshot_id as they are
\* told to, for pages that are in the list, and batches do not fail for ever.
Fairness ==
  \A c \in Clients :
    /\ WF_vars(pc[c] \in Awaits /\ Step(c))
    /\ SF_vars(PageInList(c))
    /\ SF_vars(BatchFetched(c))
FairSpec == Spec /\ Fairness

-----------------------------------------------------------------------------
TypeOK ==
  /\ stored \in {"none", "live", "expired"}
  /\ source \in {"catalog", "feed"}
  /\ total \in 0 .. MaxTotal /\ cursor \in 0 .. total
  /\ times \in [Products -> 0 .. 2]
  /\ quoted \in BOOLEAN /\ refreshed \in BOOLEAN
  /\ pc \in [Clients -> Awaits \union {"idle"}]
  /\ creator \subseteq Clients /\ failed \subseteq Clients
  /\ start \in [Clients -> 0 .. MaxTotal]
  /\ reply \in [Clients -> Replies]
  /\ overlap \in BOOLEAN

Tried(n) == \A p \in Products : p <= n => times[p] > 0

\* No client is given an execution ranking before every product of the snapshot
\* has been tried, however the calls that fetch its batches overlap, fail or
\* are cancelled ("Never expose a provisional winner from a partially scanned
\* universe").  All that the code looks at is the cursor.
RankingIsComplete ==
  \A c \in Clients : reply[c] = "ranking" => Tried(total)

\* Calls that never fetch side by side try each product exactly once, through
\* every failure, retry and cancellation: the ranking has no product twice.
OnceUnlessOverlapping ==
  ~overlap => \A p \in Products : times[p] <= 1

\* A snapshot whose id is repeated is completely tried before it expires, even
\* though a call that started early may move the cursor back.
ScanCompletes ==
  stored = "live" ~> (stored = "expired" \/ cursor >= total)
==============================================================================
