-------------------------- MODULE InstrumentCatalog --------------------------
(* The local catalog of leveraged instruments: a SQLite file that the daily  *)
(* refresh replaces from a scan of Avanza's lists (PagedScan), and that the  *)
(* server process reads while the refresh may be writing it.  One family of  *)
(* products is followed, and one call of the screen at a time.               *)
EXTENDS PagedScan

CONSTANTS
  Asked,    \* the instruments of the underlying that the screen asks for
  Earlier   \* what an earlier refresh may have left in the file

ASSUME CatalogAssumption ==
  Asked \subseteq Items /\ Earlier \subseteq SUBSET Items

VARIABLES
  instruments, \* the committed rows of the table instruments
  refreshed,   \* catalog_meta.refreshed_at: "never", "recent" or "old"
  writer,      \* the refresher: "scans", "writes", "done" or "died"
  reader,      \* the screen: "idle", "fresh", "counted", "listed" or "feed"
  count,       \* catalog_count
  list,        \* catalog_rows
  before,      \* history: the rows the earlier refresh left
  crossed      \* history: a catalog was committed between count and list

file    == <<instruments, refreshed>>
reading == <<reader, count, list>>
catalogVars == <<file, writer, reading, before, crossed>>

InitCatalog ==
  /\ Init
  /\ instruments \in IF scan = "catalog" THEN Earlier ELSE {{}}
  /\ refreshed \in IF instruments = {} THEN {"never"} ELSE {"recent", "old"}
  /\ writer = "scans"
  /\ reader = "idle" /\ count = 0 /\ list = {}
  /\ before = instruments /\ crossed = FALSE

-----------------------------------------------------------------------------
(* The refresher.                                                           *)

Collected == {x \in Items : got[x] > 0}

\* Variant: the rows are not written in one transaction.
BeginUnprotected ==
  /\ scan = "catalog" /\ pc = "done" /\ writer = "scans"
  /\ Collected # {}
  /\ writer' = "writes"
  /\ instruments' \in SUBSET Collected
  /\ UNCHANGED <<vars, refreshed, reading, before, crossed>>

\* replace_all up to its commit, with a scan that has found something: readers
\* do not see the rows that an open transaction deletes and inserts.
Begin ==
  /\ scan = "catalog" /\ pc = "done" /\ writer = "scans"
  /\ Collected # {}
  /\ writer' = "writes"
  /\ UNCHANGED <<vars, file, reading, before, crossed>>

\* The rows, the full-text index and the metadata, all at once.
Commit ==
  /\ writer = "writes"
  /\ instruments' = Collected /\ refreshed' = "recent"
  /\ writer' = "done"
  /\ crossed' = (crossed \/ reader = "counted")
  /\ UNCHANGED <<vars, reading, before>>

\* The transaction fails, or the process is killed inside it.
Die ==
  /\ writer = "writes"
  /\ writer' = "died"
  /\ UNCHANGED <<vars, file, reading, before, crossed>>

\* Two days pass without a refresh.
Age ==
  /\ refreshed = "recent" /\ writer \in {"done", "died"}
  /\ refreshed' = "old"
  /\ UNCHANGED <<vars, instruments, writer, reading, before, crossed>>

-----------------------------------------------------------------------------
(* The server.  Each read is a statement, and so a transaction, of its own.  *)

Reads(r) == reader' = r /\ UNCHANGED <<vars, file, writer, before>>

\* The age of the metadata and the number of rows.  They are read one after the
\* other; a commit in between gives what one before or after both would give.
Fresh == refreshed = "recent" /\ instruments # {}

\* fresh_default_instrument_catalog, at the beginning of a call of the screen.
\* Calls that are over before the refresher writes see the earlier catalog, as
\* those that are over before it commits do, and are not followed.
Check ==
  /\ writer # "scans" /\ reader \in {"idle", "listed", "feed"}
  /\ Reads(IF Fresh THEN "fresh" ELSE "feed")
  /\ count' = 0 /\ list' = {} /\ crossed' = FALSE

\* count_by_underlying.
Count ==
  /\ reader = "fresh"
  /\ count' = Cardinality(instruments \intersect Asked)
  /\ Reads(IF count' > 0 THEN "counted" ELSE "feed")
  /\ UNCHANGED <<list, crossed>>

\* The first n rows in the order of the statement.
FirstRows(S, n) == {x \in S : Cardinality({y \in S : y < x}) < n}

\* find_by_underlying with the count for its limit; without a row the screen
\* scans Avanza's feed.
Find ==
  /\ reader = "counted"
  /\ list' = FirstRows(instruments \intersect Asked, count)
  /\ Reads(IF list' # {} THEN "listed" ELSE "feed")
  /\ UNCHANGED <<count, crossed>>

Refresher == Begin \/ Commit \/ Die
Server    == Check \/ Count \/ Find

NextCatalog ==
  \/ Next /\ UNCHANGED catalogVars
  \/ Refresher \/ Age \/ Server

SpecCatalog == InitCatalog /\ [][NextCatalog]_<<vars, catalogVars>>

\* A scan goes on while Avanza answers; nothing is asked of the rest.
FairCatalog == SpecCatalog /\ WF_<<vars, catalogVars>>(Answered /\ UNCHANGED catalogVars)

-----------------------------------------------------------------------------
CatalogTypeOK ==
  /\ instruments \subseteq Items /\ refreshed \in {"never", "recent", "old"}
  /\ writer \in {"scans", "writes", "done", "died"}
  /\ reader \in {"idle", "fresh", "counted", "listed", "feed"}
  /\ count \in 0 .. Cardinality(Asked) /\ list \subseteq Asked
  /\ before \subseteq Items /\ crossed \in BOOLEAN

\* The products that the screen takes from the catalog are all that the
\* underlying has in one catalog: the earlier one, or one that holds what Avanza
\* listed when the refresh began, though the refresher may be writing, or have
\* died, at any point of the screen's reads ("Fetch a complete snapshot, then
\* atomically replace the local catalog").  The reads are three transactions:
\* a commit between the count and the rows may cut the list to the old count.
ServedListIsWhole ==
  reader = "listed" /\ ~crossed =>
    \/ list = before \intersect Asked
    \/ /\ list = Collected \intersect Asked
       /\ counted /\ cap = Limit /\ ~grown => Collected = atFirst
==============================================================================
