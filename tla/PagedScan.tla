------------------------------- MODULE PagedScan -------------------------------
(* How a list that Avanza keeps sorted by name is read page by page, while it *)
(* may change: by the refresher of the instrument catalog, by the feed screen *)
(* of leveraged products (certificates and warrants alike) and by the options *)
(* screen for one expiry.  Each has its own rule for the next offset, for the *)
(* end, and for what it does with the rows.                                   *)
EXTENDS Integers, FiniteSets

CONSTANTS
  Items,       \* what may be on the list, in the order of the names
  Limit,       \* rows asked for in a page
  Concurrent,  \* pages of one scan in flight
  MaxChanges   \* bound: changes of the list in one behaviour

ASSUME ScanAssumption ==
  /\ Items \subseteq Nat /\ IsFiniteSet(Items)
  /\ {Limit, Concurrent} \subseteq Nat \ {0} /\ MaxChanges \in Nat

Unknown == -1   \* totalNumberOfOrderbooks is None

VARIABLES
  listed,    \* upstream: the list
  cap,       \* upstream: the rows it gives at most in a page
  counted,   \* upstream: it reports a total
  perRow,    \* upstream: order books in a row of the option matrix
  changes,   \* how often the list has changed
  scan,      \* "catalog", "feed" or "options"
  pc,        \* "first", "offsets", "next", "done" or "failed"
  total,     \* the total reported, or Unknown
  step,      \* page_step
  offset,    \* the offset of the next page, one page at a time
  todo,      \* the offsets of the pages still out, all at once
  got,       \* how often each item is among the rows; 2 stands for more
  rows,      \* rows received
  atFirst,   \* history: the list when the first page was answered
  grown,     \* history: the list has grown since
  shrunk     \* history: the list has shrunk since

upstream == <<listed, cap, counted, perRow, changes>>
scanner  == <<scan, pc, total, step, offset, todo, got, rows>>
history  == <<atFirst, grown, shrunk>>
vars == <<upstream, scanner, history>>

Init ==
  /\ listed \in SUBSET Items
  /\ scan \in {"catalog", "feed", "options"}
  /\ cap \in 1 .. Limit /\ counted \in BOOLEAN
  /\ perRow \in IF scan = "options" THEN {1, 2} ELSE {1}
  /\ changes = 0
  /\ pc = "first" /\ total = Unknown /\ step = 0 /\ offset = 0 /\ todo = {}
  /\ got = [x \in Items |-> 0] /\ rows = 0
  /\ atFirst = {} /\ grown = FALSE /\ shrunk = FALSE

-----------------------------------------------------------------------------
(* Upstream.                                                                *)

\* The rows of the page at an offset.
PageAt(o) ==
  {x \in listed : Cardinality({y \in listed : y < x}) \in o .. o + cap - 1}

Reported == IF counted THEN perRow * Cardinality(listed) ELSE Unknown

Change ==
  /\ changes < MaxChanges /\ pc \in {"offsets", "next"}
  /\ changes' = changes + 1
  /\ \/ \E x \in Items \ listed : listed' = listed \union {x}
        /\ grown' = TRUE /\ UNCHANGED shrunk
     \/ \E x \in listed : listed' = listed \ {x}
        /\ shrunk' = TRUE /\ UNCHANGED grown
  /\ UNCHANGED <<cap, counted, perRow, scanner, atFirst>>

-----------------------------------------------------------------------------
(* The scanners.                                                            *)

\* items.extend; the options screen keeps the first of equal contracts.
Take(page) ==
  /\ got' = [x \in Items |->
               IF x \in page /\ (got[x] = 0 \/ (got[x] = 1 /\ scan # "options"))
               THEN got[x] + 1 ELSE got[x]]
  /\ rows' = rows + Cardinality(page)

\* Variant: rows that come twice are not noticed.
AcceptsCount == (total' # Unknown => rows' = total')

\* The refresher refuses a family that is not as long as its total, and
\* replace_all refuses rows that come twice.
Accepts ==
  /\ total' # Unknown => rows' = total'
  /\ \A x \in Items : got'[x] < 2

End ==
  /\ pc' = IF scan = "catalog" /\ ~Accepts THEN "failed" ELSE "done"
  /\ UNCHANGED <<step, offset>>
  /\ todo' = {}

\* Every page from step n on, each of them a task of its own.
Spread(n) ==
  LET rest == {o \in n .. total' - 1 : o % n = 0}
  IN IF rest = {} THEN End
     ELSE /\ pc' = "offsets" /\ todo' = rest /\ step' = n
          /\ UNCHANGED offset

\* One page after the other.
Follow(n) ==
  /\ pc' = "next" /\ step' = n /\ offset' = n
  /\ UNCHANGED todo

\* What the first page leads to.  The feed goes by the rows it was given, and
\* the catalog only spreads full pages.
Spreads(n) ==
  /\ n # 0 /\ total' # Unknown
  /\ \/ scan = "feed" /\ n < total'
     \/ scan = "catalog" /\ n = Limit

\* The options stop at a short page.
IsLast(n) ==
  \/ n = 0 \/ (scan = "options" /\ n < Limit)
  \/ total' # Unknown /\ n >= total'

\* Variant: the feed's pages are as far apart as the rows it asked for.
FirstByLimit ==
  /\ pc = "first"
  /\ Take(PageAt(0)) /\ total' = Reported
  /\ LET n == Cardinality(PageAt(0))
     IN IF Spreads(n) THEN Spread(Limit) ELSE IF IsLast(n) THEN End ELSE Follow(n)
  /\ atFirst' = listed
  /\ UNCHANGED <<upstream, scan, grown, shrunk>>

First ==
  /\ pc = "first"
  /\ Take(PageAt(0)) /\ total' = Reported
  /\ LET n == Cardinality(PageAt(0))
     IN IF Spreads(n) THEN Spread(n) ELSE IF IsLast(n) THEN End ELSE Follow(n)
  /\ atFirst' = listed
  /\ UNCHANGED <<upstream, scan, grown, shrunk>>

\* The tasks get the semaphore in the order of their offsets.
InFlight == {o \in todo : Cardinality({p \in todo : p < o}) < Concurrent}

Fetch(o) ==
  /\ pc = "offsets" /\ o \in InFlight
  /\ Take(PageAt(o))
  /\ UNCHANGED total
  /\ IF todo = {o} THEN End
     ELSE todo' = todo \ {o} /\ UNCHANGED <<pc, step, offset>>
  /\ UNCHANGED <<upstream, scan, history>>

\* A page that is shorter than these ends the scan.
FullPage == IF scan = "feed" THEN step ELSE Limit

\* Variant: an empty page does not end the scan.
NextPageAgain ==
  /\ pc = "next"
  /\ LET page == PageAt(offset)
         n == Cardinality(page)
     IN /\ Take(page)
        /\ total' = IF Reported = Unknown THEN total ELSE Reported
        /\ IF n # 0 /\ (n < FullPage \/ (total' # Unknown /\ offset + n >= total'))
           THEN End
           ELSE offset' = offset + n /\ UNCHANGED <<pc, step, todo>>
  /\ UNCHANGED <<upstream, scan, history>>

NextPage ==
  /\ pc = "next"
  /\ LET page == PageAt(offset)
         n == Cardinality(page)
     IN /\ Take(page)
        /\ total' = IF n = 0 \/ Reported = Unknown THEN total ELSE Reported
        /\ IF n < FullPage \/ (total' # Unknown /\ offset + n >= total')
           THEN End
           ELSE offset' = offset + n /\ UNCHANGED <<pc, step, todo>>
  /\ UNCHANGED <<upstream, scan, history>>

\* A page fails for good: the error of one task is the error of the scan.
PageFails ==
  /\ pc \in {"first", "offsets", "next"}
  /\ pc' = "failed" /\ todo' = {}
  /\ UNCHANGED <<upstream, scan, total, step, offset, got, rows, history>>

Answered == First \/ NextPage \/ \E o \in todo : Fetch(o)

Next == Answered \/ PageFails \/ Change

Spec == Init /\ [][Next]_vars

\* Requests are answered unless one fails, and the tasks of a scan go on.
FairSpec == Spec /\ WF_vars(Answered)

-----------------------------------------------------------------------------
TypeOK ==
  /\ listed \subseteq Items /\ atFirst \subseteq Items
  /\ pc \in {"first", "offsets", "next", "done", "failed"}
  /\ total \in {Unknown} \union 0 .. 2 * Cardinality(Items)
  /\ todo \subseteq 0 .. Cardinality(Items)
  /\ got \in [Items -> 0 .. 2] /\ rows \in Nat

\* The catalog and the options screen take a page that is shorter than they
\* asked for as the last one, and rely on Avanza not to cut pages: the catalog
\* only when no total tells it better.
PagesMayBeCut == scan = "feed" \/ (scan = "catalog" /\ counted)

\* A scan of a list that does not change has every item once, in whatever order
\* its pages arrive and however short Avanza cuts them ("Advance by the number
\* of rows actually returned to avoid gaps", "Every selected option type and
\* expiry is fully paged").
StableScanIsWhole ==
  pc = "done" /\ ~grown /\ ~shrunk /\ (cap = Limit \/ PagesMayBeCut) =>
    got = [x \in Items |-> IF x \in listed THEN 1 ELSE 0]

\* A catalog that is accepted has everything that was listed when its scan
\* began, even if the list shrank under it: each page that moves up leaves a
\* row out or brings one twice ("Download complete certificate/warrant lists
\* before replacing the catalog").
ShrinkingIsNoticed ==
  scan = "catalog" /\ pc = "done" /\ counted /\ cap = Limit /\ ~grown =>
    {x \in Items : got[x] > 0} = atFirst

\* A scan comes to its end, also when no total tells it where that is, once the
\* list has stopped to change.
ScanEnds == <>(pc \in {"done", "failed"})
==============================================================================
