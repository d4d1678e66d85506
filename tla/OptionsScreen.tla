---------------------------- MODULE OptionsScreen ----------------------------
(* screen_options and enrich_option_snapshot: one call discovers the types   *)
(* of an underlying's options, then the expiries of each type, reads each    *)
(* pair of a type and an expiry page by page and freezes the chain under a   *)
(* snapshot id.  Calls with the id page through the chain, as it is, with    *)
(* quotes, or in the order of a ranking that one call makes and later calls  *)
(* find in a cache.  Calls run side by side between their awaits, and the    *)
(* chain may change between two requests.  One snapshot is followed.         *)
EXTENDS Naturals, Sequences, FiniteSets, SequencesExt

CONSTANTS
  Readers,     \* each pages through the snapshot in one mode, a call at a time
  Contracts,   \* the contracts there may be (a row of the matrix, the call and
               \* the put of a strike, counts as one), in the order of the snapshot
  Types,       \* the option types
  Expiries,    \* the pairs of a type and an expiry
  TypeOf,      \* the type of each pair
  ExpiryOf,    \* the pair of each contract
  Concurrent,  \* _MAX_CONCURRENT_EXPIRIES
  MatrixPage,  \* _MATRIX_PAGE_SIZE: the rows of a request
  PageSize,    \* rows asked for in a page
  MaxChanges,  \* bound: changes of the chain in one behaviour
  None         \* Python's None

Modes == {"plain", "structural", "market_quality"}

ASSUME OptionsAssumption ==
  /\ Contracts \subseteq Nat /\ IsFiniteSet(Contracts) /\ ExpiryOf \in [Contracts -> Expiries]
  /\ Expiries \subseteq Nat /\ TypeOf \in [Expiries -> Types]
  /\ {Concurrent, MatrixPage, PageSize} \subseteq Nat \ {0} /\ MaxChanges \in Nat
  /\ None \notin Modes /\ None \notin Seq(Contracts)

VARIABLES
  chain,     \* upstream: the contracts listed
  changes,   \* how often the chain has changed
  asking,    \* the types whose expiries are still asked for
  todo,      \* the pairs the screen has not read to their end
  offset,    \* how many rows of a pair have been read
  found,     \* all_contracts
  held,      \* _SNAPSHOTS has it: "none", "live" or "expired"
  frozen,    \* snapshot.contracts: a sorted list
  ranking,   \* what _MARKET_SNAPSHOTS has for it: an order of frozen, or None
  at,        \* the await a call is at, or "idle"
  mode,      \* the mode in which a client pages, or None
  pages,     \* the contracts a client has been given, page after page
  atStart,   \* history: the chain when the first request was answered
  gone,      \* history: contracts that left the chain since
  shifted,   \* history: pairs that lost a row that had been read, while being read
  calm       \* history: clients whose first page came while no call ranked

upstream == <<chain, changes>>
discovery == <<asking, todo, offset, found>>
chainSnapshot == <<held, frozen, ranking>>
client == <<at, mode, pages>>
history == <<atStart, gone, shifted, calm>>
optionsVars == <<upstream, discovery, chainSnapshot, client, history>>

InitOptions ==
  /\ chain \in SUBSET Contracts /\ changes = 0
  /\ asking = {} /\ todo = {} /\ found = {} /\ offset = [e \in Expiries |-> 0]
  /\ held = "none" /\ frozen = <<>> /\ ranking = None
  /\ at = [c \in Readers |-> "idle"] /\ mode = [c \in Readers |-> None]
  /\ pages = [c \in Readers |-> <<>>]
  /\ atStart = {} /\ gone = {} /\ shifted = {} /\ calm = {}

Goto(c, a) == at' = [at EXCEPT ![c] = a]

\* The rows of a pair in the order of their strikes, and those before a row.
Rows(e) == {x \in chain : ExpiryOf[x] = e}
Before(x) == Cardinality({y \in Rows(ExpiryOf[x]) : y < x})

\* Contracts are listed and, when they expire, taken off: the rows after them
\* move up.
Change ==
  /\ changes < MaxChanges /\ held = "none"
  /\ changes' = changes + 1
  /\ \/ \E x \in Contracts \ chain : chain' = chain \union {x} /\ UNCHANGED <<gone, shifted>>
     \/ \E x \in chain :
          /\ chain' = chain \ {x} /\ gone' = gone \union {x}
          /\ shifted' = IF Before(x) < offset[ExpiryOf[x]]
                        THEN shifted \union {ExpiryOf[x]} ELSE shifted
  /\ UNCHANGED <<discovery, chainSnapshot, client, atStart, calm>>

-----------------------------------------------------------------------------
(* Pages.                                                                   *)

\* The page of an order at the client's offset: next_offset is what it has.
Give(c, order) ==
  LET from == Len(pages[c])
  IN /\ pages' = [pages EXCEPT ![c] = @ \o SubSeq(order, from + 1,
           IF from + PageSize < Len(order) THEN from + PageSize ELSE Len(order))]
     /\ calm' = IF from = 0 /\ \A d \in Readers \ {c} : at[d] # "rank"
                THEN calm \union {c} ELSE calm

\* The list of S in the order of the sort (there is one).
InOrder(S) ==
  {list \in [1 .. Cardinality(S) -> S] :
     /\ ToSet(list) = S
     /\ \A i, j \in DOMAIN list : i < j => list[i] < list[j]}

\* What a list may be ranked to.
Orders(list) == {order \in [DOMAIN list -> ToSet(list)] : IsInjective(order)}

\* has_more: the client asks for the next page.
Paging(c) == pages[c] = <<>> \/ Len(pages[c]) < Len(frozen)

-----------------------------------------------------------------------------
(* screen.                                                                  *)

\* A call without a snapshot_id.
Screen(c) ==
  /\ at[c] = "idle" /\ held = "none"
  /\ \A d \in Readers : at[d] = "idle"
  /\ Goto(c, "discover")
  /\ UNCHANGED <<upstream, discovery, chainSnapshot, mode, pages, history>>

Freeze(c, S) ==
  /\ held' = "live"
  /\ \E list \in InOrder(S) : frozen' = list /\ Give(c, list)
  /\ mode' = [mode EXCEPT ![c] = "plain"]
  /\ Goto(c, "idle")

\* All pairs are read, or there is none.
ScanOver(c, next) ==
  IF todo' = {}
  THEN Freeze(c, found')
  ELSE Goto(c, next) /\ UNCHANGED <<held, frozen, mode, pages, calm>>

\* _discover, the first request: the types.
Discovered(c) ==
  /\ at[c] = "discover"
  /\ asking' = {TypeOf[ExpiryOf[x]] : x \in chain}
  /\ todo' = {} /\ found' = {} /\ offset' = [e \in Expiries |-> 0]
  /\ atStart' = chain /\ gone' = {} /\ shifted' = {}
  /\ IF asking' = {}
     THEN Freeze(c, {})
     ELSE Goto(c, "types") /\ UNCHANGED <<held, frozen, mode, pages, calm>>
  /\ UNCHANGED <<upstream, ranking>>

\* _discover, the gathered requests: the expiries of one type.
TypeAnswered(c, t) ==
  /\ at[c] = "types"
  /\ asking' = asking \ {t}
  /\ todo' = todo \union {e \in {ExpiryOf[x] : x \in chain} : TypeOf[e] = t}
  /\ found' = found
  /\ IF asking' = {}
     THEN ScanOver(c, "scan")
     ELSE UNCHANGED <<held, frozen, client, calm>>
  /\ UNCHANGED <<upstream, ranking, offset, atStart, gone, shifted>>

\* The scans take the semaphore in the order of gather's arguments.
Scanned == {e \in todo : Cardinality({f \in todo : f < e}) < Concurrent}

\* The rows of the request at the pair's offset, and the offset after them.
MatrixRows(e) == {x \in Rows(e) : Before(x) \in offset[e] .. offset[e] + MatrixPage - 1}
RowsEnd(e) ==
  IF offset[e] + MatrixPage < Cardinality(Rows(e)) THEN offset[e] + MatrixPage
  ELSE Cardinality(Rows(e))

\* A page with fewer rows than asked for is the last, and so is the one with which
\* the total is reached if the answer has it (0: it has not).
LastPage(e, listed) ==
  RowsEnd(e) < offset[e] + MatrixPage \/ (listed # 0 /\ RowsEnd(e) >= listed)

\* _scan_expiry, one turn of its loop.
ReadPage(c, e) ==
  /\ at[c] = "scan" /\ e \in Scanned
  /\ found' = found \union MatrixRows(e)
  /\ \E listed \in {0, Cardinality(Rows(e))} :
       IF LastPage(e, listed)
       THEN todo' = todo \ {e} /\ offset' = [offset EXCEPT ![e] = 0]
       ELSE todo' = todo /\ offset' = [offset EXCEPT ![e] = RowsEnd(e)]
  /\ ScanOver(c, "scan")
  /\ UNCHANGED <<upstream, asking, ranking, atStart, gone, shifted>>

\* Variant: an expiry that cannot be read is left out.
FailLeavesOut(c) ==
  /\ at[c] = "scan"
  /\ \E e \in Scanned : todo' = todo \ {e} /\ offset' = [offset EXCEPT ![e] = 0]
  /\ found' = found
  /\ ScanOver(c, "scan")
  /\ UNCHANGED <<upstream, asking, ranking, atStart, gone, shifted>>

\* A request fails, or the call is cancelled: the whole call fails.  gather
\* does not stop the other requests; nobody looks at their answers.
Fail(c) ==
  /\ at[c] # "idle"
  /\ Goto(c, "idle")
  /\ UNCHANGED <<upstream, discovery, chainSnapshot, mode, pages, history>>

-----------------------------------------------------------------------------
(* get_page and enrich_page.                                                *)

\* A call with the snapshot_id, for the page after those the client has.
NextPageCall(c, m) ==
  /\ at[c] = "idle" /\ held # "none"
  /\ mode[c] \in {None, m} /\ Paging(c)
  /\ mode' = [mode EXCEPT ![c] = m]

ChainGone(c, m) ==
  /\ held = "expired"
  /\ NextPageCall(c, m)
  /\ UNCHANGED <<upstream, discovery, chainSnapshot, at, pages, history>>

GetPage(c) ==
  /\ held = "live"
  /\ NextPageCall(c, "plain")
  /\ Give(c, frozen)
  /\ UNCHANGED <<upstream, discovery, chainSnapshot, at, atStart, gone, shifted>>

\* The quotes of one page.
EnrichPage(c) ==
  /\ held = "live"
  /\ NextPageCall(c, "structural")
  /\ Goto(c, "enrich")
  /\ UNCHANGED <<upstream, discovery, chainSnapshot, pages, history>>

\* ... the snapshot may have expired meanwhile: the call has it in hand.
Enriched(c) ==
  /\ at[c] = "enrich"
  /\ Goto(c, "idle")
  /\ Give(c, frozen)
  /\ UNCHANGED <<upstream, discovery, chainSnapshot, mode, atStart, gone, shifted>>

\* Variant: the cache is never hit.
CachedNever == FALSE

Cached == ranking # None

\* A page of the ranking, from the cache or after all quotes are fetched.
RankPage(c) ==
  /\ held = "live"
  /\ NextPageCall(c, "market_quality")
  /\ IF Cached
     THEN Give(c, ranking) /\ UNCHANGED at
     ELSE Goto(c, "rank") /\ UNCHANGED <<pages, calm>>
  /\ UNCHANGED <<upstream, discovery, chainSnapshot, atStart, gone, shifted>>

\* The quotes rank the contracts in any order.  The call that asked for them
\* puts its ranking over one that has come meanwhile.
ChainRanked(c) ==
  /\ at[c] = "rank"
  /\ \E order \in Orders(frozen) : ranking' = order /\ Give(c, order)
  /\ Goto(c, "idle")
  /\ UNCHANGED <<upstream, discovery, held, frozen, mode, atStart, gone, shifted>>

\* Ten minutes after the screen, for the snapshot and its ranking alike.
ChainExpires ==
  /\ held = "live"
  /\ held' = "expired" /\ ranking' = None
  /\ UNCHANGED <<upstream, discovery, frozen, client, history>>

ReaderStep(c) ==
  \/ Screen(c) \/ Discovered(c)
  \/ \E t \in asking : TypeAnswered(c, t)
  \/ \E e \in todo : ReadPage(c, e)
  \/ Fail(c) \/ \E m \in Modes : ChainGone(c, m)
  \/ GetPage(c) \/ EnrichPage(c) \/ Enriched(c) \/ RankPage(c) \/ ChainRanked(c)

NextOptions == Change \/ ChainExpires \/ \E c \in Readers : ReaderStep(c)

SpecOptions == InitOptions /\ [][NextOptions]_optionsVars

-----------------------------------------------------------------------------
OptionsTypeOK ==
  /\ chain \subseteq Contracts /\ changes \in 0 .. MaxChanges
  /\ asking \subseteq Types /\ todo \subseteq Expiries /\ offset \in [Expiries -> Nat]
  /\ found \subseteq Contracts
  /\ held \in {"none", "live", "expired"} /\ frozen \in Seq(Contracts)
  /\ ranking \in {None} \union Seq(Contracts)
  /\ at \in [Readers -> {"idle", "discover", "types", "scan", "enrich", "rank"}]
  /\ mode \in [Readers -> Modes \union {None}]
  /\ pages \in [Readers -> Seq(Contracts)]
  /\ atStart \subseteq Contracts /\ gone \subseteq Contracts /\ shifted \subseteq Expiries
  /\ calm \subseteq Readers

\* A snapshot ("comparison_complete": True) has every contract that was there
\* when the first request was answered and has stayed, whichever requests fail and
\* whatever is listed meanwhile ("fully pages every selected type/expiry
\* combination").  The pages are read by offset: a contract may be missing if a
\* row of its pair that had been read was taken off before the pair's last page
\* came, and only then; neither the snapshot nor the code shows it.
ChainIsComplete ==
  held # "none" =>
    \A x \in atStart \ gone : x \in ToSet(frozen) \/ ExpiryOf[x] \in shifted

\* The pages of a client are those of one ranking, and the last page completes
\* it, unless a call was still ranking when the client got its first page
\* ("caches that frozen ranking ... later market-quality pages reuse the
\* cache"): then a second ranking may take the place of the first between two
\* pages, and bring a contract twice and another never.
PagesOfOneRanking ==
  \A c \in calm :
    /\ mode[c] = "market_quality" /\ held = "live" =>
         IsPrefix(pages[c], ranking)
    /\ \A i, j \in DOMAIN pages[c] : pages[c][i] = pages[c][j] => i = j
==============================================================================
