----------------------------- MODULE ScreensProofs -----------------------------
(* The two screens, for any clients.  LeveragedScreen: type correctness, and  *)
(* that no ranking is given before every product was tried, for any list      *)
(* length and batch size.  OptionsScreen: the frozen chain and the pages of   *)
(* its ranking, for any contracts, number of expiries and of scans at a time, *)
(* and any changes of the chain.                                              *)
EXTENDS Screens, FiniteSetTheorems, SequenceTheorems, TLAPS

-----------------------------------------------------------------------------
(* The leveraged screen.                                                    *)

\* Before the snapshot is stored nobody works on it, and one call makes it.
FreshInv ==
  /\ stored = "none" =>
       /\ total = 0 /\ cursor = 0
       /\ \A c \in Clients : pc[c] \in {"idle", "discover"}
                             /\ reply[c] # "ranking"
  /\ \A c \in Clients : pc[c] = "discover" => stored = "none"
  /\ \A c, d \in Clients : pc[c] = "discover" /\ pc[d] = "discover" => c = d

\* What has been tried: all before the cursor, all before the batch a call is
\* fetching, which may be behind the cursor or ahead of it, and the whole list
\* when a call refreshes its top or has returned a ranking.
TriedInv ==
  /\ Tried(cursor)
  /\ \A c \in Clients :
       /\ pc[c] = "batch" => start[c] <= total /\ Tried(start[c])
       /\ pc[c] = "refresh" => Tried(total)
       /\ reply[c] = "ranking" => Tried(total)

Inv == TypeOK /\ FreshInv /\ TriedInv

\* As long as no two calls have fetched side by side, one call at most is
\* fetching, from the cursor on, and only what lies before the cursor has
\* an entry, exactly one.
OnceInv ==
  ~overlap =>
    /\ \A p \in Products : times[p] <= 1 /\ (times[p] > 0 => p <= cursor)
    /\ \A c \in Clients : pc[c] = "batch" => start[c] = cursor
    /\ \A c, d \in Clients : pc[c] = "batch" /\ pc[d] = "batch" => c = d

-----------------------------------------------------------------------------
(* Operators.                                                               *)

\* A call that answers ends or screens again; it returns a ranking only when
\* the scan is complete.
LEMMA AnswerShape ==
  ASSUME TypeOK, NEW c \in Clients, NEW complete \in BOOLEAN,
         Answer(c, complete)
  PROVE  \E a \in {"idle", "rescreen"}, r \in Replies :
           /\ pc' = [pc EXCEPT ![c] = a]
           /\ reply' = [reply EXCEPT ![c] = r]
           /\ r = "ranking" => reply[c] = "ranking" \/ complete
<1> USE DEF Replies
<1>1. reply \in [Clients -> Replies]
  BY DEF TypeOK
<1>2. CASE Return(c, "partial")
  BY <1>2 DEF Return
<1>3. CASE Return(c, "ranking") /\ complete
  BY <1>3 DEF Return
<1>4. CASE Return(c, "public")
  BY <1>4 DEF Return
<1>5. CASE Await(c, "rescreen")
  <2>1. pc' = [pc EXCEPT ![c] = "rescreen"] /\ reply' = reply
    BY <1>5 DEF Await
  <2>2. reply' = [reply EXCEPT ![c] = reply[c]]
    BY <1>1, <2>1
  <2>3. reply[c] \in Replies
    BY <1>1
  <2> QED
    BY <2>1, <2>2, <2>3
<1> QED
  BY <1>2, <1>3, <1>4, <1>5 DEF Answer, Fallback

\* The same behind a complete list, or one that is not yet complete.
LEMMA RankedShape ==
  ASSUME TypeOK, NEW c \in Clients, Ranked(c)
  PROVE  \E a \in {"idle", "rescreen", "refresh"}, r \in Replies :
           /\ pc' = [pc EXCEPT ![c] = a]
           /\ reply' = [reply EXCEPT ![c] = r]
           /\ a = "refresh" => ~(cursor' < total)
           /\ r = "ranking" => reply[c] = "ranking" \/ ~(cursor' < total)
<1>1. CASE cursor' < total
  BY <1>1, AnswerShape DEF Ranked
<1>2. CASE ~(cursor' < total) /\ Await(c, "refresh")
  <2>1. reply \in [Clients -> Replies]
    BY DEF TypeOK
  <2>2. pc' = [pc EXCEPT ![c] = "refresh"] /\ reply' = reply
    BY <1>2 DEF Await
  <2>3. reply' = [reply EXCEPT ![c] = reply[c]] /\ reply[c] \in Replies
    BY <2>1, <2>2
  <2> QED
    BY <1>2, <2>2, <2>3
<1>3. CASE ~(cursor' < total) /\ Answer(c, TRUE)
  BY <1>3, AnswerShape
<1> QED
  BY <1>1, <1>2, <1>3 DEF Ranked

\* A batch ends inside the list and not before its start.
LEMMA BatchEndBounds ==
  ASSUME TypeOK, NEW c \in Clients, start[c] <= total
  PROVE  /\ BatchEnd(c) \in 0 .. total
         /\ start[c] <= BatchEnd(c)
BY ScreenAssumption DEF TypeOK, BatchEnd

\* Entries are only added: what was tried stays tried.
LEMMA TriedStays ==
  ASSUME TypeOK, TypeOK', NEW n \in Nat, Tried(n),
         \A p \in Products : times[p] > 0 => times'[p] > 0
  PROVE  Tried(n)'
BY DEF Tried

-----------------------------------------------------------------------------
(* Type correctness.                                                        *)

LEMMA InitInv == Init => Inv
<1> SUFFICES ASSUME Init PROVE Inv
  OBVIOUS
<1>1. TypeOK
  <2>1. total \in 0 .. MaxTotal /\ cursor \in 0 .. total
    BY ScreenAssumption DEF Init
  <2>2. times \in [Products -> 0 .. 2] /\ start \in [Clients -> 0 .. MaxTotal]
    BY ScreenAssumption DEF Init
  <2>3. pc \in [Clients -> Awaits \union {"idle"}] /\ reply \in [Clients -> Replies]
    BY DEF Init, Replies
  <2> QED
    BY <2>1, <2>2, <2>3, Zenon DEF Init, TypeOK
<1>2. FreshInv
  BY DEF Init, FreshInv
<1>3. TriedInv
  BY ScreenAssumption DEF Init, TriedInv, Tried, Products
<1> QED
  BY <1>1, <1>2, <1>3 DEF Inv
\* Every action keeps the types.
LEMMA TypeStep == TypeOK /\ FreshInv /\ TriedInv /\ [Next]_vars => TypeOK'
<1> SUFFICES ASSUME TypeOK, FreshInv, TriedInv, [Next]_vars PROVE TypeOK'
  OBVIOUS
<1> USE ScreenAssumption
<1>1. ASSUME NEW c \in Clients, Create(c) PROVE TypeOK'
  BY <1>1 DEF TypeOK, Create, Await, snapshot, Awaits
<1>2. ASSUME NEW c \in Clients, Screened(c) PROVE TypeOK'
  <2>1. total' \in 0 .. MaxTotal /\ cursor' \in 0 .. total'
    BY <1>2 DEF TypeOK, FreshInv, Screened, Products
  <2>2. pc' \in [Clients -> Awaits \union {"idle"}]
    BY <1>2 DEF TypeOK, Screened, Return, EnrichFrom, Await, Awaits
  <2>3. reply' \in [Clients -> Replies] /\ start' \in [Clients -> 0 .. MaxTotal]
    BY <1>2 DEF TypeOK, Screened, Return, EnrichFrom, Await, Replies
  <2>4. overlap' \in BOOLEAN
    BY <1>2 DEF TypeOK, Screened, EnrichFrom
  <2> QED
    BY <1>2, <2>1, <2>2, <2>3, <2>4 DEF TypeOK, Screened
<1>3. ASSUME NEW c \in Clients, PageExpired(c) \/ PageBehind(c) PROVE TypeOK'
  BY <1>3 DEF TypeOK, PageExpired, PageBehind, PageCall, Return, snapshot, Replies
<1>4. ASSUME NEW c \in Clients, PageInList(c) PROVE TypeOK'
  <2>1. CASE EnrichFrom(c, cursor)
    BY <1>4, <2>1 DEF TypeOK, PageInList, PageCall, EnrichFrom, Await, snapshot, Awaits
  <2>2. CASE Ranked(c) /\ UNCHANGED <<start, overlap>>
    <3>1. pc' \in [Clients -> Awaits \union {"idle"}] /\ reply' \in [Clients -> Replies]
      BY <2>2, RankedShape DEF TypeOK, Awaits
    <3> QED
      BY <1>4, <2>2, <3>1 DEF TypeOK, PageInList, PageCall, snapshot
  <2> QED
    BY <1>4, <2>1, <2>2 DEF PageInList
<1>5. ASSUME NEW c \in Clients, BatchFetched(c) PROVE TypeOK'
  <2>0. Ranked(c)
    BY <1>5 DEF BatchFetched
  <2>1. pc' \in [Clients -> Awaits \union {"idle"}] /\ reply' \in [Clients -> Replies]
    <3>1. PICK a \in {"idle", "rescreen", "refresh"}, r \in Replies :
            pc' = [pc EXCEPT ![c] = a] /\ reply' = [reply EXCEPT ![c] = r]
      BY <2>0, RankedShape
    <3> QED
      BY <3>1 DEF TypeOK, Awaits
  <2>2. cursor' \in 0 .. total /\ total' = total
    BY <1>5, BatchEndBounds DEF BatchFetched, TriedInv
  <2>3. times' \in [Products -> 0 .. 2]
    BY <1>5 DEF BatchFetched, TypeOK
  <2> QED
    BY <1>5, <2>1, <2>2, <2>3 DEF BatchFetched, TypeOK
<1>6. ASSUME NEW c \in Clients, BatchFails(c) PROVE TypeOK'
  <2>1. pc' \in [Clients -> Awaits \union {"idle"}] /\ reply' \in [Clients -> Replies]
    BY <1>6, RankedShape DEF BatchFails, TypeOK, Awaits
  <2> QED
    BY <1>6, <2>1 DEF BatchFails, TypeOK, snapshot
<1>7. ASSUME NEW c \in Clients, TopRefreshed(c) PROVE TypeOK'
  <2>1. pc' \in [Clients -> Awaits \union {"idle"}] /\ reply' \in [Clients -> Replies]
    <3>1. PICK a \in {"idle", "rescreen"}, r \in Replies :
            pc' = [pc EXCEPT ![c] = a] /\ reply' = [reply EXCEPT ![c] = r]
      BY <1>7, AnswerShape DEF TopRefreshed
    <3> QED
      BY <3>1 DEF TypeOK, Awaits
  <2> QED
    BY <1>7, <2>1 DEF TopRefreshed, TypeOK
<1>8. ASSUME NEW c \in Clients, Rescreened(c) \/ Abort(c) PROVE TypeOK'
  BY <1>8 DEF TypeOK, Rescreened, Abort, Return, snapshot, Replies
<1>9. ASSUME Expire PROVE TypeOK'
  BY <1>9 DEF TypeOK, Expire, call
<1>10. CASE UNCHANGED vars
  BY <1>10 DEF TypeOK, vars, snapshot, call
<1> QED
  BY <1>1, <1>2, <1>3, <1>4, <1>5, <1>6, <1>7, <1>8, <1>9, <1>10
  DEF Next, Step
-----------------------------------------------------------------------------
(* Who works on the snapshot.                                               *)

LEMMA FreshStep == TypeOK /\ FreshInv /\ TypeOK' /\ [Next]_vars => FreshInv'
<1> SUFFICES ASSUME TypeOK, FreshInv, TypeOK', [Next]_vars PROVE FreshInv'
  OBVIOUS
<1>1. ASSUME NEW c \in Clients, Create(c) PROVE FreshInv'
  BY <1>1 DEF TypeOK, FreshInv, Create, Await, snapshot
<1>2. ASSUME NEW c \in Clients, Screened(c) PROVE FreshInv'
  <2>1. \A d \in Clients : pc'[d] # "discover"
    BY <1>2 DEF TypeOK, FreshInv, Screened, Return, EnrichFrom, Await
  <2> QED
    BY <1>2, <2>1 DEF FreshInv, Screened
<1>3. ASSUME NEW c \in Clients, PageExpired(c) \/ PageBehind(c) PROVE FreshInv'
  BY <1>3 DEF TypeOK, FreshInv, PageExpired, PageBehind, PageCall, Return, snapshot
<1>4. ASSUME NEW c \in Clients, NEW a \in {"idle", "batch", "refresh", "rescreen"},
             stored # "none", stored' = stored, pc' = [pc EXCEPT ![c] = a]
      PROVE FreshInv'
  BY <1>4 DEF TypeOK, FreshInv
<1>5. ASSUME NEW c \in Clients, PageInList(c) PROVE FreshInv'
  <2>1. stored # "none" /\ stored' = stored
    BY <1>5 DEF PageInList, PageCall, snapshot
  <2>2. CASE EnrichFrom(c, cursor)
    BY <1>4, <2>1, <2>2 DEF EnrichFrom, Await
  <2>3. CASE Ranked(c)
    BY <1>4, <2>1, <2>3, RankedShape
  <2> QED
    BY <1>5, <2>2, <2>3 DEF PageInList
<1>6. ASSUME NEW c \in Clients, BatchFetched(c) \/ BatchFails(c) PROVE FreshInv'
  <2>1. pc[c] = "batch" /\ stored' = stored /\ Ranked(c)
    BY <1>6 DEF BatchFetched, BatchFails, snapshot
  <2>2. stored # "none"
    BY <2>1 DEF FreshInv
  <2> QED
    BY <1>4, <2>1, <2>2, RankedShape
<1>7. ASSUME NEW c \in Clients, TopRefreshed(c) PROVE FreshInv'
  <2>1. pc[c] = "refresh" /\ stored' = stored /\ Answer(c, TRUE)
    BY <1>7 DEF TopRefreshed
  <2>2. stored # "none"
    BY <2>1 DEF FreshInv
  <2> QED
    BY <1>4, <2>1, <2>2, AnswerShape
<1>8. ASSUME NEW c \in Clients, Rescreened(c) \/ Abort(c) PROVE FreshInv'
  BY <1>8 DEF TypeOK, FreshInv, Rescreened, Abort, Return, snapshot
<1>9. ASSUME Expire PROVE FreshInv'
  BY <1>9 DEF TypeOK, FreshInv, Expire, call
<1>10. CASE UNCHANGED vars
  BY <1>10 DEF FreshInv, vars, snapshot, call
<1> QED
  BY <1>1, <1>2, <1>3, <1>5, <1>6, <1>7, <1>8, <1>9, <1>10 DEF Next, Step

-----------------------------------------------------------------------------
(* What has been tried.                                                     *)

\* A step of one call that leaves the list alone and what was tried tried.
LEMMA TriedFrame ==
  ASSUME TypeOK, TypeOK', TriedInv, NEW c \in Clients,
         total' = total, Tried(cursor)',
         \A p \in Products : times[p] > 0 => times'[p] > 0,
         \A d \in Clients \ {c} : /\ pc'[d] = pc[d] /\ start'[d] = start[d]
                                  /\ reply'[d] = reply[d],
         pc'[c] = "batch" => start'[c] <= total /\ Tried(start[c])',
         pc'[c] = "refresh" => Tried(total)',
         reply'[c] = "ranking" => Tried(total)'
  PROVE  TriedInv'
<1>1. ASSUME NEW n \in Nat, Tried(n) PROVE Tried(n)'
  BY <1>1, TriedStays
<1>2. total \in Nat /\ \A d \in Clients : start[d] \in Nat
  BY ScreenAssumption DEF TypeOK
<1>3. ASSUME NEW d \in Clients \ {c}
      PROVE  /\ pc'[d] = "batch" => start'[d] <= total' /\ Tried(start[d])'
             /\ pc'[d] = "refresh" => Tried(total)'
             /\ reply'[d] = "ranking" => Tried(total)'
  <2>1. CASE pc'[d] = "batch"
    <3>1. start[d] <= total /\ Tried(start[d])
      BY <2>1 DEF TriedInv
    <3>2. \A p \in Products : p <= start[d] => times'[p] > 0
      BY <3>1 DEF Tried
    <3> QED
      BY <3>1, <3>2, <2>1 DEF TriedInv, Tried
  <2>2. Tried(total) => Tried(total)'
    BY <1>2 DEF Tried
  <2> QED
    BY <2>1, <2>2 DEF TriedInv
<1>4. /\ pc'[c] = "batch" => start'[c] <= total' /\ Tried(start[c])'
      /\ pc'[c] = "refresh" => Tried(total)'
      /\ reply'[c] = "ranking" => Tried(total)'
  OBVIOUS
<1>5. \A d \in Clients :
        /\ pc'[d] = "batch" => start'[d] <= total' /\ Tried(start[d])'
        /\ pc'[d] = "refresh" => Tried(total)'
        /\ reply'[d] = "ranking" => Tried(total)'
  BY <1>3, <1>4
<1> QED
  BY <1>5 DEF TriedInv
\* A call that only ends, or asks for something else than the list.
LEMMA TriedIdle ==
  ASSUME TypeOK, TypeOK', TriedInv, NEW c \in Clients,
         UNCHANGED <<total, cursor, times, start>>,
         NEW a \in {"idle", "discover", "rescreen"},
         NEW r \in Replies \ {"ranking"},
         pc' = [pc EXCEPT ![c] = a], reply' = [reply EXCEPT ![c] = r]
  PROVE  TriedInv'
<1>1. Tried(cursor)'
  BY DEF TriedInv, Tried
<1>2. pc'[c] = a /\ reply'[c] = r
  BY DEF TypeOK
<1>3. \A d \in Clients \ {c} : pc'[d] = pc[d] /\ start'[d] = start[d] /\ reply'[d] = reply[d]
  BY DEF TypeOK
<1> QED
  BY <1>1, <1>2, <1>3, TriedFrame

\* A call that has worked on the list and answers or goes on to refresh it.
LEMMA TriedRanked ==
  ASSUME TypeOK, TypeOK', TriedInv, NEW c \in Clients,
         total' = total, Tried(cursor)',
         \A p \in Products : times[p] > 0 => times'[p] > 0,
         start' = start, Ranked(c)
  PROVE  TriedInv'
<1>1. PICK a \in {"idle", "rescreen", "refresh"}, r \in Replies :
        /\ pc' = [pc EXCEPT ![c] = a]
        /\ reply' = [reply EXCEPT ![c] = r]
        /\ a = "refresh" => ~(cursor' < total)
        /\ r = "ranking" => reply[c] = "ranking" \/ ~(cursor' < total)
  BY RankedShape
<1>2. pc'[c] = a /\ reply'[c] = r
  BY <1>1 DEF TypeOK
<1>3. \A d \in Clients \ {c} : pc'[d] = pc[d] /\ start'[d] = start[d] /\ reply'[d] = reply[d]
  BY <1>1 DEF TypeOK
<1>4. ASSUME ~(cursor' < total) PROVE Tried(total)'
  <2>1. cursor' = total'
    BY <1>4, ScreenAssumption DEF TypeOK
  <2> QED
    BY <2>1 DEF Tried
<1>5. ASSUME reply[c] = "ranking" PROVE Tried(total)'
  BY <1>5, TriedStays, ScreenAssumption DEF TriedInv, TypeOK, Tried
<1>6. pc'[c] = "refresh" => Tried(total)'
  BY <1>1, <1>2, <1>4
<1>7. reply'[c] = "ranking" => Tried(total)'
  BY <1>1, <1>2, <1>4, <1>5
<1>8. pc'[c] # "batch"
  BY <1>2
<1> QED
  BY <1>3, <1>6, <1>7, <1>8, TriedFrame

LEMMA TriedStep ==
  TypeOK /\ FreshInv /\ TriedInv /\ TypeOK' /\ [Next]_vars => TriedInv'
<1> SUFFICES ASSUME TypeOK, FreshInv, TriedInv, TypeOK', [Next]_vars PROVE TriedInv'
  OBVIOUS
<1> USE ScreenAssumption
<1>1. ASSUME NEW c \in Clients, Create(c) PROVE TriedInv'
  <2>1. UNCHANGED <<total, cursor, times, start>>
    BY <1>1 DEF Create, snapshot
  <2>2. pc' = [pc EXCEPT ![c] = "discover"] /\ reply' = reply
    BY <1>1 DEF Create, Await
  <2>3. reply[c] \in Replies \ {"ranking"}
    BY <1>1 DEF Create, FreshInv, TypeOK
  <2>4. reply' = [reply EXCEPT ![c] = reply[c]]
    BY <2>2 DEF TypeOK
  <2> QED
    BY <2>1, <2>2, <2>3, <2>4, TriedIdle
<1>2. ASSUME NEW c \in Clients, Screened(c) PROVE TriedInv'
  <2>1. /\ \A d \in Clients : pc[d] \in {"idle", "discover"} /\ reply[d] # "ranking"
        /\ cursor = 0
    BY <1>2 DEF Screened, FreshInv
  <2>2. \A d \in Clients : /\ pc'[d] \in {"idle", "discover", "batch"}
                            /\ reply'[d] # "ranking"
    BY <1>2, <2>1 DEF Screened, Return, EnrichFrom, Await, TypeOK
  <2>3. \A d \in Clients : pc'[d] = "batch" => start'[d] = 0
    BY <1>2, <2>1 DEF Screened, Return, EnrichFrom, Await, TypeOK
  <2>4. \A p \in Products : ~(p <= 0)
    BY DEF Products
  <2>5. cursor' = 0 /\ total' \in Nat
    BY <1>2, <2>1 DEF Screened, TypeOK
  <2>6. Tried(cursor)'
    BY <2>4, <2>5 DEF Tried
  <2>7. \A d \in Clients : pc'[d] = "batch" => start'[d] <= total' /\ Tried(start[d])'
    BY <2>3, <2>4, <2>5 DEF Tried
  <2> QED
    BY <2>2, <2>6, <2>7 DEF TriedInv
<1>3. ASSUME NEW c \in Clients, PageExpired(c) \/ PageBehind(c) PROVE TriedInv'
  <2>1. UNCHANGED <<total, cursor, times, start>>
    BY <1>3 DEF PageExpired, PageBehind, PageCall, snapshot
  <2>2. PICK r \in {"error", "structural"} :
          pc' = [pc EXCEPT ![c] = "idle"] /\ reply' = [reply EXCEPT ![c] = r]
    BY <1>3 DEF PageExpired, PageBehind, Return
  <2> QED
    BY <2>1, <2>2, TriedIdle DEF Replies
<1>4. ASSUME NEW c \in Clients, PageInList(c) PROVE TriedInv'
  <2>1. UNCHANGED <<total, cursor, times>>
    BY <1>4 DEF PageInList, PageCall, snapshot
  <2>2. Tried(cursor)'
    BY <2>1 DEF TriedInv, Tried
  <2>3. CASE EnrichFrom(c, cursor)
    <3>1. /\ start' = [start EXCEPT ![c] = cursor]
          /\ pc' = [pc EXCEPT ![c] = "batch"] /\ reply' = reply
      BY <2>3 DEF EnrichFrom, Await
    <3>2. /\ \A d \in Clients \ {c} : pc'[d] = pc[d] /\ start'[d] = start[d] /\ reply'[d] = reply[d]
          /\ pc'[c] = "batch" /\ start'[c] = cursor
      BY <3>1 DEF TypeOK
    <3>3. cursor <= total /\ Tried(cursor)
      BY DEF TypeOK, TriedInv
    <3>4. reply'[c] = "ranking" => Tried(total)'
      BY <2>1, <3>1 DEF TriedInv, Tried
    <3> QED
      BY <2>1, <2>2, <3>2, <3>3, <3>4, TriedFrame
  <2>4. CASE Ranked(c) /\ UNCHANGED <<start, overlap>>
    BY <2>1, <2>2, <2>4, TriedRanked
  <2> QED
    BY <1>4, <2>3, <2>4 DEF PageInList
<1>5. ASSUME NEW c \in Clients, BatchFetched(c) PROVE TriedInv'
  <2>1. /\ start[c] <= total /\ Tried(start[c])
        /\ total' = total /\ start' = start /\ Ranked(c)
        /\ cursor' = BatchEnd(c)
    BY <1>5 DEF BatchFetched, TriedInv
  <2>2. times' = [p \in Products |->
                    IF p \in start[c] + 1 .. BatchEnd(c) /\ times[p] < 2
                    THEN times[p] + 1 ELSE times[p]]
    BY <1>5 DEF BatchFetched
  <2>3. \A p \in Products : times[p] > 0 => times'[p] > 0
    BY <2>2 DEF TypeOK
  <2>4. BatchEnd(c) \in 0 .. total /\ start[c] \in Nat /\ total \in Nat
    BY <2>1, BatchEndBounds DEF TypeOK
  <2>5. ASSUME NEW p \in Products, p <= BatchEnd(c) PROVE times'[p] > 0
    <3>1. p \in Nat /\ times[p] \in 0 .. 2
      BY DEF Products, TypeOK
    <3>2. CASE p <= start[c]
      BY <2>1, <2>3, <3>2 DEF Tried
    <3>3. CASE p \in start[c] + 1 .. BatchEnd(c)
      BY <2>2, <3>1, <3>3
    <3> QED
      BY <2>4, <2>5, <3>1, <3>2, <3>3
  <2>6. Tried(cursor)'
    BY <2>1, <2>5 DEF Tried
  <2> QED
    BY <2>1, <2>3, <2>6, TriedRanked
<1>6. ASSUME NEW c \in Clients, BatchFails(c) PROVE TriedInv'
  <2>1. UNCHANGED <<total, cursor, times, start>> /\ Ranked(c)
    BY <1>6 DEF BatchFails, snapshot
  <2>2. Tried(cursor)'
    BY <2>1 DEF TriedInv, Tried
  <2> QED
    BY <2>1, <2>2, TriedRanked
<1>7. ASSUME NEW c \in Clients, TopRefreshed(c) PROVE TriedInv'
  <2>1. UNCHANGED <<total, cursor, times, start>> /\ pc[c] = "refresh" /\ Answer(c, TRUE)
    BY <1>7 DEF TopRefreshed
  <2>2. Tried(cursor)' /\ Tried(total)'
    BY <2>1 DEF TriedInv, Tried
  <2>3. PICK a \in {"idle", "rescreen"}, r \in Replies :
          pc' = [pc EXCEPT ![c] = a] /\ reply' = [reply EXCEPT ![c] = r]
    BY <2>1, AnswerShape
  <2>4. \A d \in Clients \ {c} : pc'[d] = pc[d] /\ start'[d] = start[d] /\ reply'[d] = reply[d]
    BY <2>1, <2>3 DEF TypeOK
  <2>5. pc'[c] # "batch"
    BY <2>3 DEF TypeOK
  <2> QED
    BY <2>1, <2>2, <2>4, <2>5, TriedFrame
<1>8. ASSUME NEW c \in Clients, Rescreened(c) \/ Abort(c) PROVE TriedInv'
  <2>1. UNCHANGED <<total, cursor, times, start>>
    BY <1>8 DEF Rescreened, Abort, snapshot
  <2>2. PICK r \in {"error", "public"} :
          pc' = [pc EXCEPT ![c] = "idle"] /\ reply' = [reply EXCEPT ![c] = r]
    BY <1>8 DEF Rescreened, Abort, Return
  <2> QED
    BY <2>1, <2>2, TriedIdle DEF Replies
<1>9. ASSUME Expire PROVE TriedInv'
  BY <1>9 DEF TriedInv, Tried, Expire, call
<1>10. CASE UNCHANGED vars
  BY <1>10 DEF TriedInv, Tried, vars, snapshot, call
<1> QED
  BY <1>1, <1>2, <1>3, <1>4, <1>5, <1>6, <1>7, <1>8, <1>9, <1>10
  DEF Next, Step

-----------------------------------------------------------------------------
(* What has been tried once.                                                *)

\* Nothing is fetched, and no call begins to fetch.
LEMMA OnceFrame ==
  ASSUME OnceInv, UNCHANGED <<overlap, times, cursor>>,
         \A d \in Clients : pc'[d] = "batch" => pc[d] = "batch" /\ start'[d] = start[d]
  PROVE  OnceInv'
BY DEF OnceInv

\* A call begins to fetch from the cursor on.
LEMMA OnceEnrich ==
  ASSUME TypeOK, OnceInv, NEW c \in Clients, EnrichFrom(c, cursor),
         UNCHANGED <<times, cursor>>
  PROVE  OnceInv'
<1> SUFFICES ASSUME ~overlap' PROVE OnceInv'
  BY DEF OnceInv
<1>1. ~overlap /\ \A d \in Clients \ {c} : pc[d] # "batch"
  BY DEF EnrichFrom
<1>2. /\ start' = [start EXCEPT ![c] = cursor]
      /\ pc' = [pc EXCEPT ![c] = "batch"]
  BY DEF EnrichFrom, Await
<1>3. \A d \in Clients : pc'[d] = "batch" => d = c
  BY <1>1, <1>2 DEF TypeOK
<1>4. start'[c] = cursor
  BY <1>2 DEF TypeOK
<1> QED
  BY <1>1, <1>3, <1>4 DEF OnceInv

LEMMA OnceStep ==
  TypeOK /\ FreshInv /\ TriedInv /\ OnceInv /\ [Next]_vars => OnceInv'
<1> SUFFICES ASSUME TypeOK, FreshInv, TriedInv, OnceInv, [Next]_vars PROVE OnceInv'
  OBVIOUS
<1>1. ASSUME NEW c \in Clients,
             NEW a \in {"idle", "discover", "refresh", "rescreen"},
             pc' = [pc EXCEPT ![c] = a], UNCHANGED <<overlap, times, cursor, start>>
      PROVE  OnceInv'
  <2>1. \A d \in Clients : pc'[d] = "batch" => pc[d] = "batch" /\ start'[d] = start[d]
    BY <1>1 DEF TypeOK
  <2> QED
    BY <1>1, <2>1, OnceFrame
<1>2. ASSUME NEW c \in Clients, Create(c) PROVE OnceInv'
  BY <1>1, <1>2 DEF Create, Await, snapshot
<1>3. ASSUME NEW c \in Clients, Screened(c) PROVE OnceInv'
  <2>1. UNCHANGED <<times, cursor>> /\ cursor = 0
    BY <1>3 DEF Screened, FreshInv
  <2>2. CASE EnrichFrom(c, 0)
    BY <2>1, <2>2, OnceEnrich
  <2>3. CASE Return(c, "structural") /\ UNCHANGED <<start, overlap>>
    BY <1>1, <2>1, <2>3 DEF Return
  <2> QED
    BY <1>3, <2>2, <2>3 DEF Screened
<1>4. ASSUME NEW c \in Clients,
             PageExpired(c) \/ PageBehind(c) \/ Rescreened(c) \/ Abort(c)
      PROVE  OnceInv'
  BY <1>1, <1>4
  DEF PageExpired, PageBehind, PageCall, Rescreened, Abort, Return, snapshot
<1>5. ASSUME NEW c \in Clients, PageInList(c) PROVE OnceInv'
  <2>1. UNCHANGED <<times, cursor>>
    BY <1>5 DEF PageInList, PageCall, snapshot
  <2>2. CASE EnrichFrom(c, cursor)
    BY <2>1, <2>2, OnceEnrich
  <2>3. CASE Ranked(c) /\ UNCHANGED <<start, overlap>>
    BY <1>1, <2>1, <2>3, RankedShape
  <2> QED
    BY <1>5, <2>2, <2>3 DEF PageInList
<1>6. ASSUME NEW c \in Clients, BatchFetched(c) PROVE OnceInv'
  <2> SUFFICES ASSUME ~overlap' PROVE OnceInv'
    BY DEF OnceInv
  <2>1. /\ overlap' = overlap /\ start' = start /\ Ranked(c)
        /\ pc[c] = "batch" /\ cursor' = BatchEnd(c)
        /\ times' = [p \in Products |->
                       IF p \in start[c] + 1 .. BatchEnd(c) /\ times[p] < 2
                       THEN times[p] + 1 ELSE times[p]]
    BY <1>6 DEF BatchFetched
  <2>2. start[c] = cursor /\ \A d \in Clients \ {c} : pc[d] # "batch"
    BY <2>1 DEF OnceInv
  <2>3. PICK a \in {"idle", "rescreen", "refresh"} : pc' = [pc EXCEPT ![c] = a]
    BY <2>1, RankedShape
  <2>4. \A d \in Clients : pc'[d] # "batch"
    BY <2>2, <2>3 DEF TypeOK
  <2>5. start[c] <= total
    BY <2>1 DEF TriedInv
  <2>6. BatchEnd(c) \in Nat /\ cursor \in Nat /\ cursor <= BatchEnd(c)
    BY <2>2, <2>5, BatchEndBounds, ScreenAssumption DEF TypeOK
  <2>7. ASSUME NEW p \in Products
        PROVE  times'[p] <= 1 /\ (times'[p] > 0 => p <= cursor')
    <3>1. p \in Nat /\ times[p] \in 0 .. 2 /\ times[p] <= 1
          /\ (times[p] > 0 => p <= cursor)
      BY <2>1 DEF Products, TypeOK, OnceInv
    <3>2. CASE p \in cursor + 1 .. BatchEnd(c)
      <4>1. times[p] = 0
        BY <2>6, <3>1, <3>2
      <4> QED
        BY <2>1, <2>2, <3>2, <4>1
    <3>3. CASE ~(p \in cursor + 1 .. BatchEnd(c))
      BY <2>1, <2>2, <2>6, <3>1, <3>3
    <3> QED
      BY <3>2, <3>3
  <2> QED
    BY <2>4, <2>7 DEF OnceInv
<1>7. ASSUME NEW c \in Clients, BatchFails(c) PROVE OnceInv'
  BY <1>1, <1>7, RankedShape DEF BatchFails, snapshot
<1>8. ASSUME NEW c \in Clients, TopRefreshed(c) PROVE OnceInv'
  <2>1. Answer(c, TRUE) /\ UNCHANGED <<overlap, times, cursor, start>>
    BY <1>8 DEF TopRefreshed
  <2> QED
    BY <1>1, <2>1, AnswerShape
<1>9. ASSUME Expire PROVE OnceInv'
  BY <1>9, OnceFrame DEF Expire, call
<1>10. CASE UNCHANGED vars
  BY <1>10, OnceFrame DEF vars, snapshot, call
<1> QED
  BY <1>2, <1>3, <1>4, <1>5, <1>6, <1>7, <1>8, <1>9, <1>10 DEF Next, Step

-----------------------------------------------------------------------------
(* Theorems.                                                                *)

LEMMA InvIsInductive == Spec => []Inv
<1>1. Inv /\ [Next]_vars => Inv'
  BY TypeStep, FreshStep, TriedStep DEF Inv
<1> QED
  BY InitInv, <1>1, PTL DEF Spec

\* The variables of the screen keep their types: the cursor stays inside the
\* list, whoever moves it.
THEOREM ScreenTypes == Spec => []TypeOK
<1>1. Inv => TypeOK
  BY DEF Inv
<1> QED
  BY InvIsInductive, <1>1, PTL

\* No client is given a ranking of a list that was not completely tried.
THEOREM RankingComplete == Spec => []RankingIsComplete
<1>1. Inv => RankingIsComplete
  BY DEF Inv, TriedInv, RankingIsComplete
<1> QED
  BY InvIsInductive, <1>1, PTL

\* Calls that never fetch side by side try every product at most once.
THEOREM TriedOnce == Spec => []OnceUnlessOverlapping
<1>1. Init => OnceInv
  BY DEF Init, OnceInv
<1>2. Inv /\ OnceInv /\ [Next]_vars => OnceInv'
  BY OnceStep DEF Inv
<1>3. OnceInv => OnceUnlessOverlapping
  BY DEF OnceInv, OnceUnlessOverlapping
<1> QED
  BY InvIsInductive, <1>1, <1>2, <1>3, PTL DEF Spec

-----------------------------------------------------------------------------
(* The options screen.                                                      *)

Places == {"idle", "discover", "types", "scan", "enrich", "rank"}

ScanTypes ==
  /\ at \in [Readers -> Places]
  /\ chain \subseteq Contracts /\ atStart \subseteq Contracts
  /\ held \in {"none", "live", "expired"}
  /\ offset \in [Expiries -> Nat]

\* One call screens, and none once there is a snapshot.
AloneInv ==
  \A c \in Readers :
    /\ at[c] \in {"discover", "types", "scan"} =>
         held = "none" /\ \A d \in Readers \ {c} : at[d] = "idle"
    /\ at[c] \in {"enrich", "rank"} => held # "none"

\* While the types are asked, what has stayed is of a pair that is known or of
\* a type that is asked for.
KnownInv ==
  (\E c \in Readers : at[c] = "types") =>
    /\ \A e \in Expiries : offset[e] = 0
    /\ \A x \in atStart \ gone :
         /\ x \in chain
         /\ TypeOf[ExpiryOf[x]] \in asking \/ ExpiryOf[x] \in todo

\* The pages that are still to come begin at or before the contract's row.
Unread(x) == ExpiryOf[x] \in todo /\ offset[ExpiryOf[x]] <= Before(x)

\* While the pairs are read, what has stayed is listed, and it has been found or
\* is still to be, unless its pair has shifted.
FoundInv ==
  (\E c \in Readers : at[c] = "scan") =>
    \A x \in atStart \ gone :
      /\ x \in chain
      /\ x \in found \/ ExpiryOf[x] \in shifted \/ Unread(x)

OptionsInv == ScanTypes /\ AloneInv /\ KnownInv /\ FoundInv /\ ChainIsComplete

LEMMA OptionsInitInv == InitOptions => OptionsInv
BY DEF InitOptions, OptionsInv, ScanTypes, Places, AloneInv, KnownInv, FoundInv, ChainIsComplete

\* A contract has so many rows before it in its pair, fewer than the pair has if
\* it is listed.
LEMMA BeforeBounds ==
  ASSUME NEW x \in Contracts, chain \subseteq Contracts
  PROVE  /\ IsFiniteSet(Rows(ExpiryOf[x])) /\ Cardinality(Rows(ExpiryOf[x])) \in Nat
         /\ Before(x) \in Nat
         /\ x \in chain => Before(x) < Cardinality(Rows(ExpiryOf[x]))
<1> DEFINE R == Rows(ExpiryOf[x])
           B == {y \in R : y < x}
<1>1. R \in SUBSET Contracts /\ B \in SUBSET R
  BY DEF Rows
<1>2. IsFiniteSet(R)
  BY <1>1, FS_Subset, OptionsAssumption
<1>3. IsFiniteSet(B) /\ Cardinality(B) <= Cardinality(R) /\ (Cardinality(R) = Cardinality(B) => R = B)
  BY <1>1, <1>2, FS_Subset
<1>4. Cardinality(R) \in Nat /\ Cardinality(B) \in Nat
  BY <1>2, <1>3, FS_CardinalityType
<1>5. x \in chain => x \in R /\ x \notin B
  BY OptionsAssumption DEF Rows
<1>6. x \in chain => Cardinality(B) < Cardinality(R)
  BY <1>3, <1>4, <1>5
<1>7. Before(x) = Cardinality(B)
  BY DEF Before
<1>. QED BY <1>2, <1>4, <1>6, <1>7

\* A listing puts no contract nearer to the beginning of its pair, and a removal
\* behind a place does not bring it before that place.
LEMMA BeforeChanges ==
  ASSUME NEW x \in Contracts, chain \subseteq Contracts, chain' \subseteq Contracts,
         NEW y \in Contracts, y # x, NEW place \in Nat, place <= Before(x),
         \/ chain' = chain \union {y}
         \/ /\ chain' = chain \ {y} /\ y \in chain
            /\ ExpiryOf[y] = ExpiryOf[x] => place <= Before(y)
  PROVE  place <= Before(x)'
<1> DEFINE S == {z \in Contracts : z \in chain /\ ExpiryOf[z] = ExpiryOf[x] /\ z < x}
           T == {z \in Contracts : z \in chain' /\ ExpiryOf[z] = ExpiryOf[x] /\ z < x}
           L == {z \in Contracts : z \in chain /\ ExpiryOf[z] = ExpiryOf[y] /\ z < y}
<1>1. {z \in Rows(ExpiryOf[x]) : z < x} = S /\ {z \in Rows(ExpiryOf[y]) : z < y} = L
  BY DEF Rows
<1>2. ({z \in Rows(ExpiryOf[x]) : z < x})' = T
  BY DEF Rows
<1>3. Before(x) = Cardinality(S) /\ Before(x)' = Cardinality(T) /\ Before(y) = Cardinality(L)
  BY <1>1, <1>2 DEF Before
<1>4. S \in SUBSET Contracts /\ T \in SUBSET Contracts /\ L \in SUBSET Contracts
  OBVIOUS
<1>5. IsFiniteSet(S) /\ IsFiniteSet(T) /\ IsFiniteSet(L)
  BY <1>4, FS_Subset, OptionsAssumption
<1>6. Cardinality(S) \in Nat /\ Cardinality(T) \in Nat /\ Cardinality(L) \in Nat
  BY <1>5, FS_CardinalityType
<1>7. CASE S \in SUBSET T
  <2>1. Cardinality(S) <= Cardinality(T)
    BY <1>5, <1>7, FS_Subset
  <2>. QED BY <1>3, <1>6, <2>1
<1>8. CASE ~(S \in SUBSET T)
  <2>1. PICK z \in S : z \notin T
    BY <1>8
  <2>2. z = y /\ y \in chain /\ chain' = chain \ {y} /\ ExpiryOf[y] = ExpiryOf[x] /\ y < x
    BY <2>1
  <2>3. ASSUME NEW w \in L PROVE w \in T
    <3>1. w \in Nat /\ x \in Nat /\ y \in Nat /\ w < y
      BY OptionsAssumption
    <3>2. w # y /\ w < x
      BY <2>2, <3>1
    <3>. QED BY <2>2, <3>2
  <2>4. Cardinality(L) <= Cardinality(T)
    <3>1. L \in SUBSET T
      BY <2>3
    <3>. QED BY <1>5, <3>1, FS_Subset
  <2>. QED BY <1>3, <1>6, <2>2, <2>4
<1>. QED BY <1>7, <1>8

\* Contracts come and go while the types are asked and the pairs are read.
LEMMA ChangeStep ==
  ASSUME OptionsInv, Change
  PROVE  OptionsInv'
<1>1. /\ held = "none" /\ UNCHANGED <<asking, todo, offset, found, held, at, atStart>>
      /\ \/ \E y \in Contracts \ chain : /\ chain' = chain \union {y}
                                         /\ gone' = gone /\ shifted' = shifted
         \/ \E y \in chain : /\ chain' = chain \ {y} /\ gone' = gone \union {y}
                             /\ shifted' = IF Before(y) < offset[ExpiryOf[y]]
                                           THEN shifted \union {ExpiryOf[y]} ELSE shifted
  BY DEF Change, discovery, chainSnapshot, client
<1>2. /\ ScanTypes /\ chain \subseteq Contracts /\ chain' \subseteq Contracts
      /\ shifted \subseteq shifted' /\ atStart \subseteq Contracts
      /\ \A x \in atStart : x \notin gone' => x \notin gone /\ (x \in chain => x \in chain')
  BY <1>1 DEF OptionsInv, ScanTypes
<1>3. ScanTypes' /\ AloneInv' /\ ChainIsComplete'
  BY <1>1, <1>2 DEF OptionsInv, ScanTypes, AloneInv, ChainIsComplete
<1>4. KnownInv'
  BY <1>1, <1>2 DEF OptionsInv, KnownInv
<1>5. FoundInv'
  <2> SUFFICES ASSUME \E c \in Readers : at[c] = "scan", NEW x \in atStart, x \notin gone'
               PROVE  x \in chain' /\ (x \in found \/ ExpiryOf[x] \in shifted' \/ Unread(x)')
    BY <1>1 DEF FoundInv
  <2>1. /\ x \in Contracts /\ x \in chain /\ x \in chain'
        /\ x \in found \/ ExpiryOf[x] \in shifted \/ Unread(x)
    BY <1>2 DEF OptionsInv, FoundInv
  <2>2. CASE Unread(x) /\ ExpiryOf[x] \notin shifted'
    <3> DEFINE place == offset[ExpiryOf[x]]
    <3>1. place \in Nat /\ place <= Before(x) /\ ExpiryOf[x] \in todo
      BY <1>2, <2>1, <2>2, OptionsAssumption DEF Unread, ScanTypes
    <3>2. CASE \E y \in Contracts \ chain : chain' = chain \union {y}
      <4>1. PICK y \in Contracts \ chain : chain' = chain \union {y}
        BY <3>2
      <4>2. y # x /\ y \in Contracts
        BY <2>1, <4>1
      <4>3. place <= Before(x)'
        BY <1>2, <2>1, <3>1, <4>1, <4>2, BeforeChanges
      <4>. QED BY <1>1, <2>1, <3>1, <4>3 DEF Unread
    <3>3. CASE \E y \in chain : /\ chain' = chain \ {y} /\ gone' = gone \union {y}
                                /\ shifted' = IF Before(y) < offset[ExpiryOf[y]]
                                              THEN shifted \union {ExpiryOf[y]} ELSE shifted
      <4>1. PICK y \in chain : /\ chain' = chain \ {y} /\ gone' = gone \union {y}
                               /\ shifted' = IF Before(y) < offset[ExpiryOf[y]]
                                             THEN shifted \union {ExpiryOf[y]} ELSE shifted
        BY <3>3
      <4>2. y # x /\ y \in Contracts
        BY <1>2, <4>1
      <4>3. Before(y) \in Nat
        BY <1>2, <4>2, BeforeBounds
      <4>4. ExpiryOf[y] = ExpiryOf[x] => place <= Before(y)
        BY <2>2, <3>1, <4>1, <4>3
      <4>5. place <= Before(x)'
        BY <1>2, <2>1, <3>1, <4>1, <4>2, <4>4, BeforeChanges
      <4>. QED BY <1>1, <2>1, <3>1, <4>5 DEF Unread
    <3>. QED BY <1>1, <3>2, <3>3
  <2>. QED BY <1>2, <2>1, <2>2
<1>. QED BY <1>3, <1>4, <1>5 DEF OptionsInv

\* The types are those of what is listed at that moment.
LEMMA DiscoveredStep ==
  ASSUME OptionsInv, NEW c \in Readers, Discovered(c)
  PROVE  OptionsInv'
<1>1. /\ at[c] = "discover" /\ atStart' = chain /\ gone' = {} /\ chain' = chain
      /\ asking' = {TypeOf[ExpiryOf[x]] : x \in chain}
      /\ offset' = [e \in Expiries |-> 0]
  BY DEF Discovered, upstream
<1>2. held = "none" /\ \A d \in Readers \ {c} : at[d] = "idle"
  BY <1>1 DEF OptionsInv, AloneInv
<1>3. CASE asking' = {}
  <2>1. chain = {}
    BY <1>1, <1>3
  <2>2. held' = "live" /\ at' = [at EXCEPT ![c] = "idle"]
    BY <1>3 DEF Discovered, Freeze, Goto
  <2>3. ScanTypes' /\ AloneInv' /\ ChainIsComplete'
    BY <1>1, <1>2, <2>1, <2>2 DEF OptionsInv, ScanTypes, Places, AloneInv, ChainIsComplete
  <2>4. \A d \in Readers : at'[d] = "idle"
    BY <1>2, <2>2 DEF OptionsInv, ScanTypes
  <2>. QED BY <2>3, <2>4 DEF OptionsInv, KnownInv, FoundInv
<1>4. CASE asking' # {}
  <2>1. held' = held /\ at' = [at EXCEPT ![c] = "types"]
    BY <1>4 DEF Discovered, Goto
  <2>2. ScanTypes' /\ AloneInv' /\ ChainIsComplete'
    BY <1>1, <1>2, <2>1 DEF OptionsInv, ScanTypes, Places, AloneInv, ChainIsComplete
  <2>3. KnownInv'
    BY <1>1 DEF KnownInv
  <2>4. \A d \in Readers : at'[d] # "scan"
    BY <1>2, <2>1 DEF OptionsInv, ScanTypes
  <2>. QED BY <2>2, <2>3, <2>4 DEF OptionsInv, FoundInv
<1>. QED BY <1>3, <1>4

\* What follows a request of the screen, if what has stayed is found or unread.
LEMMA ScanGoesOn ==
  ASSUME OptionsInv, NEW c \in Readers, at[c] \in {"types", "scan"}, ScanOver(c, "scan"),
         UNCHANGED <<chain, atStart, gone>>, offset' \in [Expiries -> Nat],
         \A x \in atStart \ gone :
           x \in chain /\ (x \in found' \/ ExpiryOf[x] \in shifted' \/ Unread(x)')
  PROVE  OptionsInv'
<1>1. held = "none" /\ \A d \in Readers \ {c} : at[d] = "idle"
  BY DEF OptionsInv, AloneInv
<1>2. CASE todo' = {}
  <2>1. held' = "live" /\ ToSet(frozen)' = found' /\ at' = [at EXCEPT ![c] = "idle"]
    BY <1>2 DEF ScanOver, Freeze, Goto, InOrder
  <2>2. ChainIsComplete'
    BY <1>2, <2>1 DEF ChainIsComplete, Unread
  <2>3. ScanTypes' /\ AloneInv'
    BY <1>1, <2>1 DEF OptionsInv, ScanTypes, Places, AloneInv
  <2>4. \A d \in Readers : at'[d] = "idle"
    BY <1>1, <2>1 DEF OptionsInv, ScanTypes
  <2>. QED BY <2>2, <2>3, <2>4 DEF OptionsInv, KnownInv, FoundInv
<1>3. CASE todo' # {}
  <2>1. held' = held /\ at' = [at EXCEPT ![c] = "scan"]
    BY <1>3 DEF ScanOver, Goto
  <2>2. ScanTypes' /\ AloneInv' /\ ChainIsComplete'
    BY <1>1, <2>1 DEF OptionsInv, ScanTypes, Places, AloneInv, ChainIsComplete
  <2>3. \A d \in Readers : at'[d] # "types"
    BY <1>1, <2>1 DEF OptionsInv, ScanTypes
  <2>4. FoundInv'
    BY DEF FoundInv
  <2>. QED BY <2>2, <2>3, <2>4 DEF OptionsInv, KnownInv
<1>. QED BY <1>2, <1>3

\* The pairs of a type are those of what is listed when its answer is made.
LEMMA AnsweredStep ==
  ASSUME OptionsInv, NEW c \in Readers, NEW t \in asking, TypeAnswered(c, t)
  PROVE  OptionsInv'
<1>1. /\ at[c] = "types" /\ asking' = asking \ {t}
      /\ todo' = todo \union {e \in {ExpiryOf[x] : x \in chain} : TypeOf[e] = t}
      /\ UNCHANGED <<chain, offset, atStart, gone>>
  BY DEF TypeAnswered, upstream
<1>2. /\ \A e \in Expiries : offset[e] = 0
      /\ \A x \in atStart \ gone :
           x \in chain /\ (TypeOf[ExpiryOf[x]] \in asking' \/ ExpiryOf[x] \in todo')
  BY <1>1 DEF OptionsInv, KnownInv
<1>3. CASE asking' = {}
  <2>1. ScanOver(c, "scan")
    BY <1>3 DEF TypeAnswered
  <2>2. ASSUME NEW x \in atStart \ gone PROVE x \in chain /\ Unread(x)'
    <3>1. x \in Contracts /\ chain \subseteq Contracts
      BY DEF OptionsInv, ScanTypes
    <3>2. Before(x) \in Nat /\ Before(x)' = Before(x)
      BY <1>1, <3>1, BeforeBounds DEF Before, Rows
    <3>3. ExpiryOf[x] \in todo' /\ offset'[ExpiryOf[x]] = 0
      BY <1>1, <1>2, <1>3, <3>1, OptionsAssumption
    <3>. QED BY <1>2, <3>2, <3>3 DEF Unread
  <2>. QED BY <1>1, <2>1, <2>2, ScanGoesOn DEF OptionsInv, ScanTypes
<1>4. CASE asking' # {}
  <2>1. UNCHANGED <<held, frozen, at>>
    BY <1>4 DEF TypeAnswered, client
  <2>2. ScanTypes' /\ AloneInv'
    BY <1>1, <2>1 DEF OptionsInv, ScanTypes, AloneInv
  <2>3. held = "none" /\ \A d \in Readers : at'[d] # "scan"
    BY <1>1, <2>1 DEF OptionsInv, AloneInv
  <2>4. KnownInv'
    BY <1>1, <1>2 DEF KnownInv
  <2>. QED BY <2>1, <2>2, <2>3, <2>4 DEF OptionsInv, FoundInv, ChainIsComplete
<1>. QED BY <1>3, <1>4

\* A row that is not on the page read comes on a later one: the page is full and
\* does not end the pair.
LEMMA ReadStep ==
  ASSUME OptionsInv, NEW c \in Readers, NEW e \in todo, ReadPage(c, e)
  PROVE  OptionsInv'
<1> DEFINE o == offset[e]
           n == Cardinality(Rows(e))
<1>1. /\ at[c] = "scan" /\ found' = found \union MatrixRows(e) /\ ScanOver(c, "scan")
      /\ UNCHANGED <<chain, atStart, gone, shifted>>
  BY DEF ReadPage, upstream
<1>2. PICK listed \in {0, n} :
        IF LastPage(e, listed)
        THEN todo' = todo \ {e} /\ offset' = [offset EXCEPT ![e] = 0]
        ELSE todo' = todo /\ offset' = [offset EXCEPT ![e] = RowsEnd(e)]
  BY DEF ReadPage
<1>3. chain \subseteq Contracts /\ offset \in [Expiries -> Nat] /\ atStart \subseteq Contracts
      /\ MatrixPage \in Nat \ {0}
  BY OptionsAssumption DEF OptionsInv, ScanTypes
<1>4. Rows(e) \in SUBSET Contracts
  BY <1>3 DEF Rows
<1>5. n \in Nat
  BY <1>4, FS_Subset, FS_CardinalityType, OptionsAssumption
<1>6. offset' \in [Expiries -> Nat]
  <2>1. CASE e \in Expiries
    BY <1>2, <1>3, <1>5, <2>1 DEF RowsEnd
  <2>2. CASE e \notin Expiries
    BY <1>2, <1>3, <2>2
  <2>. QED BY <2>1, <2>2
<1>7. ASSUME NEW x \in atStart \ gone
      PROVE  x \in chain /\ (x \in found' \/ ExpiryOf[x] \in shifted' \/ Unread(x)')
  <2>1. x \in Contracts /\ x \in chain /\ (x \in found \/ ExpiryOf[x] \in shifted \/ Unread(x))
    BY <1>1, <1>3 DEF OptionsInv, FoundInv
  <2>2. Before(x) \in Nat /\ Before(x)' = Before(x) /\ ExpiryOf[x] \in Expiries
    BY <1>1, <1>3, <2>1, BeforeBounds, OptionsAssumption DEF Before, Rows
  <2>3. CASE Unread(x) /\ ExpiryOf[x] # e
    BY <1>2, <1>3, <2>1, <2>2, <2>3 DEF Unread
  <2>4. CASE Unread(x) /\ ExpiryOf[x] = e
    <3>1. o \in Nat /\ o <= Before(x) /\ Before(x) < n /\ x \in Rows(e)
      BY <1>3, <2>1, <2>2, <2>4, BeforeBounds DEF Unread, Rows
    <3>2. CASE Before(x) < o + MatrixPage
      <4>1. Before(x) \in o .. o + MatrixPage - 1
        BY <1>3, <2>2, <3>1, <3>2
      <4>. QED BY <1>1, <2>1, <3>1, <4>1 DEF MatrixRows
    <3>3. CASE Before(x) >= o + MatrixPage
      <4>1. RowsEnd(e) = o + MatrixPage /\ RowsEnd(e) < n
        BY <1>3, <1>5, <2>2, <3>1, <3>3 DEF RowsEnd
      <4>2. ~LastPage(e, listed)
        BY <1>2, <1>3, <1>5, <3>1, <4>1 DEF LastPage
      <4>3. todo' = todo /\ offset'[e] = RowsEnd(e)
        BY <1>2, <1>3, <2>2, <2>4, <4>2
      <4>4. offset'[e] = o + MatrixPage
        BY <4>1, <4>3
      <4>. QED BY <2>1, <2>2, <2>4, <3>3, <4>3, <4>4 DEF Unread
    <3>. QED BY <1>3, <2>2, <3>1, <3>2, <3>3
  <2>. QED BY <1>1, <2>1, <2>3, <2>4
<1>. QED BY <1>1, <1>6, <1>7, ScanGoesOn

\* The other steps of a call leave the scans and the frozen chain alone.
LEMMA PageSteps ==
  ASSUME OptionsInv, NEW c \in Readers,
         \/ Screen(c) \/ Fail(c) \/ \E m \in Modes : ChainGone(c, m)
         \/ GetPage(c) \/ EnrichPage(c) \/ Enriched(c) \/ RankPage(c) \/ ChainRanked(c)
  PROVE  OptionsInv'
<1>1. /\ UNCHANGED <<chain, asking, todo, offset, found, held, frozen, atStart, gone, shifted>>
      /\ \/ at' = at
         \/ at' = [at EXCEPT ![c] = "idle"]
         \/ /\ held = "none" /\ \A d \in Readers : at[d] = "idle"
            /\ at' = [at EXCEPT ![c] = "discover"]
         \/ /\ held = "live" /\ \E p \in {"enrich", "rank"} :
                                    at' = [at EXCEPT ![c] = p]
  BY DEF Screen, Fail, ChainGone, GetPage, EnrichPage, Enriched, RankPage, ChainRanked,
     Goto, upstream, discovery, chainSnapshot, history
<1>2. ScanTypes' /\ AloneInv' /\ ChainIsComplete'
  BY <1>1 DEF OptionsInv, ScanTypes, Places, AloneInv, ChainIsComplete
<1>3. \A d \in Readers : \A p \in {"types", "scan"} : at'[d] = p => at[d] = p
  BY <1>1 DEF OptionsInv, ScanTypes
<1>4. KnownInv'
  BY <1>1, <1>3 DEF OptionsInv, KnownInv
<1>5. \A x : Unread(x)' = Unread(x)
  BY <1>1 DEF Unread, Before, Rows
<1>6. FoundInv'
  BY <1>1, <1>3, <1>5 DEF OptionsInv, FoundInv
<1>. QED BY <1>2, <1>4, <1>6 DEF OptionsInv

LEMMA OptionsInvIsInductive == OptionsInv /\ [NextOptions]_optionsVars => OptionsInv'
<1> SUFFICES ASSUME OptionsInv, [NextOptions]_optionsVars PROVE OptionsInv'
  OBVIOUS
<1>1. CASE Change
  BY <1>1, ChangeStep
<1>2. CASE ChainExpires
  <2>1. /\ UNCHANGED <<chain, asking, todo, offset, found, frozen, at, atStart, gone, shifted>>
        /\ held = "live" /\ held' = "expired"
    BY <1>2 DEF ChainExpires, upstream, discovery, client, history
  <2>2. \A x : Unread(x)' = Unread(x)
    BY <2>1 DEF Unread, Before, Rows
  <2>3. ScanTypes' /\ AloneInv' /\ KnownInv' /\ ChainIsComplete'
    BY <2>1 DEF OptionsInv, ScanTypes, AloneInv, KnownInv, ChainIsComplete
  <2>4. FoundInv'
    BY <2>1, <2>2 DEF OptionsInv, FoundInv
  <2>. QED BY <2>3, <2>4 DEF OptionsInv
<1>3. ASSUME NEW c \in Readers, ReaderStep(c) PROVE OptionsInv'
  BY <1>3, DiscoveredStep, AnsweredStep, ReadStep, PageSteps DEF ReaderStep
<1>4. CASE UNCHANGED optionsVars
  BY <1>4 DEF optionsVars, upstream, discovery, chainSnapshot, client, history, OptionsInv, ScanTypes,
     AloneInv, KnownInv, FoundInv, Unread, Before, Rows, ChainIsComplete
<1>. QED BY <1>1, <1>2, <1>3, <1>4 DEF NextOptions

\* A snapshot misses no contract that was there from the discovery on unless its
\* pair lost a row that had been read, for any chain, pages of any size, any number
\* of scans at a time and whichever requests fail.
THEOREM ChainComplete == SpecOptions => []ChainIsComplete
<1>1. OptionsInv => ChainIsComplete
  BY DEF OptionsInv
<1>. QED BY <1>1, OptionsInitInv, OptionsInvIsInductive, PTL DEF SpecOptions

-----------------------------------------------------------------------------
(* The pages of a client of the options screen.                             *)

Prefix(s, t) == Len(s) <= Len(t) /\ \A i \in 1 .. Len(s) : s[i] = t[i]
Distinct(s)  == \A i, j \in 1 .. Len(s) : s[i] = s[j] => i = j

PageTypes ==
  /\ at \in [Readers -> Places] /\ mode \in [Readers -> Modes \union {None}]
  /\ pages \in [Readers -> Seq(Contracts)] /\ calm \subseteq Readers
  /\ frozen \in Seq(Contracts) /\ ranking \in {None} \union Seq(Contracts)
  /\ chain \subseteq Contracts /\ found \subseteq Contracts

\* The lists from which pages are taken have no contract twice.
ListInv ==
  /\ Distinct(frozen)
  /\ ranking # None => Distinct(ranking) /\ Len(ranking) = Len(frozen)
  /\ held = "none" =>
       ranking = None /\ calm = {} /\ \A c \in Readers : mode[c] = None

\* A call has the mode of its client, and the pages of a list are its beginning.
ModeInv(c) ==
  /\ at[c] = "enrich" => mode[c] = "structural"
  /\ at[c] = "rank" => mode[c] = "market_quality"
  /\ mode[c] = None => pages[c] = <<>> /\ c \notin calm
  /\ mode[c] \in {"plain", "structural"} => Prefix(pages[c], frozen)

\* A client whose first page came while no call ranked has pages of the ranking
\* in the cache, and as long as that is there nobody makes another.
CalmInv(c) ==
  c \in calm =>
    /\ pages[c] = <<>> => frozen = <<>>
    /\ mode[c] = "market_quality" =>
         /\ at[c] # "rank" /\ Distinct(pages[c])
         /\ held = "live" =>
              /\ ranking # None /\ Prefix(pages[c], ranking)
              /\ pages[c] # <<>> => \A d \in Readers : at[d] # "rank"

PagesInv == PageTypes /\ ListInv /\ \A c \in Readers : ModeInv(c) /\ CalmInv(c)

LEMMA PagesInit == InitOptions => PagesInv
BY DEF InitOptions, PagesInv, PageTypes, ListInv, ModeInv, CalmInv, Places, Modes, Prefix, Distinct

LEMMA PrefixEmpty ==
  ASSUME NEW S, NEW o \in Seq(S)
  PROVE  Prefix(<<>>, o)
BY DEF Prefix

LEMMA EmptyLen ==
  ASSUME NEW S, NEW s \in Seq(S), Len(s) = 0
  PROVE  s = <<>>
  OBVIOUS

\* Part of a list without repetitions has none.
LEMMA DistinctPrefix ==
  ASSUME NEW S, NEW s \in Seq(S), NEW o \in Seq(S), Prefix(s, o), Distinct(o)
  PROVE  Distinct(s)
BY DEF Prefix, Distinct

\* What follows the pages in a list makes them longer, and ends inside the list.
LEMMA PageExtends ==
  ASSUME NEW S, NEW s \in Seq(S), NEW o \in Seq(S), NEW m \in Nat, m <= Len(o),
         m = Len(o) \/ m > Len(s)
  PROVE  LET t == s \o SubSeq(o, Len(s) + 1, m)
         IN /\ t \in Seq(S)
            /\ Prefix(s, o) => Prefix(t, o) /\ (t = <<>> => o = <<>>)
<1> DEFINE n == Len(s)
           r == SubSeq(o, n + 1, m)
           t == s \o r
<1>1. n \in Nat /\ r \in Seq(S) /\ \A i \in 1 .. n : s[i] \in S
  OBVIOUS
<1>2. t \in Seq(S) /\ Len(t) = n + Len(r)
      /\ \A i \in 1 .. Len(t) : t[i] = IF i <= n THEN s[i] ELSE r[i - n]
  BY <1>1, ConcatProperties
<1>3. ASSUME Prefix(s, o) PROVE Prefix(t, o) /\ (t = <<>> => o = <<>>)
  <2>1. n <= Len(o) /\ \A i \in 1 .. n : s[i] = o[i]
    BY <1>3 DEF Prefix
  <2>2. CASE m > n
    <3>1. Len(r) = m - n /\ \A j \in 1 .. m - n : r[j] = o[n + j]
      BY <1>1, <2>2
    <3>2. Len(t) = m
      BY ONLY <1>1, <1>2, <3>1, m \in Nat
    <3>3. ASSUME NEW i \in 1 .. m PROVE t[i] = o[i]
      <4>1. CASE i <= n
        BY <1>1, <1>2, <2>1, <3>2, <4>1
      <4>2. CASE i > n
        <5>1. i - n \in 1 .. m - n /\ n + (i - n) = i /\ ~(i <= n)
          BY ONLY <1>1, <4>2, i \in 1 .. m, m \in Nat
        <5>2. t[i] = r[i - n]
          BY <1>2, <3>2, <5>1
        <5>. QED BY <3>1, <5>1, <5>2
      <4>. QED BY <1>1, <4>1, <4>2
    <3>4. t # <<>>
      BY <1>1, <1>2, <2>2, <3>2
    <3>. QED BY <3>2, <3>3, <3>4 DEF Prefix
  <2>3. CASE ~(m > n)
    <3>1. m = n /\ m = Len(o) /\ ~(n + 1 <= m)
      BY <1>1, <2>1, <2>3
    <3>2. Len(r) = 0
      BY <1>1, <3>1
    <3>3. Len(t) = n
      BY ONLY <1>1, <1>2, <3>2
    <3>4. \A i \in 1 .. n : t[i] = s[i]
      BY <1>1, <1>2, <3>3
    <3>5. t = <<>> => Len(o) = 0
      BY <3>1, <3>3
    <3>. QED BY <2>1, <3>3, <3>4, <3>5, EmptyLen DEF Prefix
  <2>. QED BY <2>2, <2>3
<1>. QED BY <1>2, <1>3

\* What a page changes.
LEMMA GiveShape ==
  ASSUME PageTypes, NEW c \in Readers, NEW order \in Seq(Contracts), Give(c, order)
  PROVE  /\ pages' \in [Readers -> Seq(Contracts)]
         /\ \A d \in Readers \ {c} : pages'[d] = pages[d] /\ (d \in calm' <=> d \in calm)
         /\ Prefix(pages[c], order) => /\ Prefix(pages'[c], order)
                                       /\ pages'[c] = <<>> => order = <<>>
         /\ calm \subseteq calm' /\ calm' \subseteq Readers
         /\ c \in calm' => \/ c \in calm
                           \/ pages[c] = <<>> /\ \A d \in Readers \ {c} : at[d] # "rank"
<1> DEFINE n == Len(pages[c])
           m == IF n + PageSize < Len(order) THEN n + PageSize ELSE Len(order)
           t == pages[c] \o SubSeq(order, n + 1, m)
<1>1. /\ pages \in [Readers -> Seq(Contracts)] /\ pages[c] \in Seq(Contracts) /\ n \in Nat
      /\ PageSize \in Nat /\ PageSize > 0
  BY OptionsAssumption DEF PageTypes
<1>2. m \in Nat /\ m <= Len(order) /\ (m = Len(order) \/ m > n)
  BY <1>1
<1>3. /\ t \in Seq(Contracts)
      /\ Prefix(pages[c], order) => Prefix(t, order) /\ (t = <<>> => order = <<>>)
  BY <1>1, <1>2, PageExtends
<1>4. pages' = [pages EXCEPT ![c] = t]
  BY DEF Give
<1>. HIDE DEF t
<1>5. /\ pages' \in [Readers -> Seq(Contracts)] /\ pages'[c] = t
      /\ \A d \in Readers \ {c} : pages'[d] = pages[d]
  BY <1>1, <1>3, <1>4
<1>6. calm' = IF n = 0 /\ \A d \in Readers \ {c} : at[d] # "rank" THEN calm \union {c} ELSE calm
  BY DEF Give
<1>7. n = 0 => pages[c] = <<>>
  BY <1>1, EmptyLen
<1>. QED BY <1>3, <1>5, <1>6, <1>7 DEF PageTypes

\* A client that is not concerned.
LEMMA OtherReader ==
  ASSUME PagesInv, NEW d \in Readers, at'[d] = at[d], mode'[d] = mode[d], pages'[d] = pages[d],
         d \in calm' <=> d \in calm, frozen' = frozen, ranking' \in {None} \union Seq(Contracts),
         held' = "live" => held = "live",
         d \in calm /\ mode[d] = "market_quality" /\ held' = "live" =>
           \/ ranking' = ranking /\ \A e \in Readers : at'[e] = "rank" => at[e] = "rank"
           \/ ranking' # None /\ pages[d] = <<>>
  PROVE  ModeInv(d)' /\ CalmInv(d)'
<1>1. ModeInv(d) /\ CalmInv(d)
  BY DEF PagesInv
<1>2. ModeInv(d)'
  BY <1>1 DEF ModeInv
<1>3. ranking' # None => Prefix(<<>>, ranking')
  BY PrefixEmpty
<1>4. CalmInv(d)'
  BY <1>1, <1>3 DEF CalmInv
<1>. QED BY <1>2, <1>4

\* No page is given and no ranking made: a call begins, ends, goes on or fails, and
\* the snapshot expires.
LEMMA NoPage ==
  ASSUME PagesInv, UNCHANGED <<pages, calm, frozen>>,
         at' \in [Readers -> Places], chain' \subseteq Contracts, found' \subseteq Contracts,
         \A d \in Readers : at'[d] \in {"enrich", "rank"} => at'[d] = at[d],
         mode' = mode,
         \/ held' = held /\ ranking' = ranking
         \/ held = "live" /\ held' = "expired" /\ ranking' = None
  PROVE  PagesInv'
<1>1. PageTypes'
  BY DEF PagesInv, PageTypes
<1>2. ListInv'
  BY DEF PagesInv, ListInv
<1>3. ASSUME NEW d \in Readers PROVE ModeInv(d)' /\ CalmInv(d)'
  <2>1. ModeInv(d) /\ CalmInv(d)
    BY DEF PagesInv
  <2>2. ModeInv(d)'
    BY <2>1 DEF ModeInv
  <2>3. CalmInv(d)'
    BY <2>1 DEF CalmInv
  <2>. QED BY <2>2, <2>3
<1>. QED BY <1>1, <1>2, <1>3 DEF PagesInv

\* The snapshot is made, and its first page given.
LEMMA FreezeKeeps ==
  ASSUME PagesInv, NEW c \in Readers, held = "none", \A d \in Readers \ {c} : at[d] = "idle",
         NEW S \in SUBSET Contracts, Freeze(c, S), ranking' = ranking,
         chain' \subseteq Contracts, found' \subseteq Contracts
  PROVE  PagesInv'
<1>1. PICK list \in InOrder(S) : frozen' = list /\ Give(c, list)
  BY DEF Freeze
<1>2. /\ held' = "live" /\ mode' = [mode EXCEPT ![c] = "plain"]
      /\ at' = [at EXCEPT ![c] = "idle"]
  BY DEF Freeze, Goto
<1>3. PageTypes /\ ranking = None /\ calm = {} /\ \A d \in Readers : mode[d] = None
  BY DEF PagesInv, ListInv
<1>4. \A d \in Readers : pages[d] = <<>>
  BY <1>3 DEF PagesInv, ModeInv
<1>5. list \in Seq(Contracts) /\ Distinct(list)
  <2>1. IsFiniteSet(S)
    BY OptionsAssumption, FS_Subset
  <2>2. Cardinality(S) \in Nat
    BY <2>1, FS_CardinalityType
  <2>3. list \in Seq(S) /\ \A i, j \in 1 .. Len(list) : i < j => list[i] < list[j]
    <3>1. PICK n \in Nat : n = Cardinality(S)
      BY <2>2
    <3>2. list \in [1 .. n -> S] /\ \A i, j \in DOMAIN list : i < j => list[i] < list[j]
      BY <3>1 DEF InOrder
    <3>3. list \in Seq(S) /\ DOMAIN list = 1 .. Len(list)
      BY <3>2
    <3>. QED BY <3>2, <3>3
  <2>4. \A i \in 1 .. Len(list) : list[i] \in Nat
    <3>1. Contracts \subseteq Nat
      BY OptionsAssumption
    <3>2. \A i \in 1 .. Len(list) : list[i] \in S
      BY <2>3
    <3>. QED BY <3>1, <3>2
  <2>5. list \in Seq(Contracts)
    BY <2>3
  <2>. QED BY <2>3, <2>4, <2>5 DEF Distinct
<1>6. /\ pages' \in [Readers -> Seq(Contracts)]
      /\ \A d \in Readers \ {c} : pages'[d] = pages[d] /\ (d \in calm' <=> d \in calm)
      /\ Prefix(pages'[c], list) /\ (pages'[c] = <<>> => list = <<>>)
      /\ calm' \subseteq Readers
  BY <1>1, <1>3, <1>4, <1>5, GiveShape, PrefixEmpty
<1>7. /\ mode' \in [Readers -> Modes \union {None}] /\ at' \in [Readers -> Places]
      /\ mode'[c] = "plain" /\ at'[c] = "idle"
      /\ \A d \in Readers \ {c} : mode'[d] = None /\ at'[d] = "idle"
  BY <1>2, <1>3 DEF PageTypes, Modes, Places
<1>8. PageTypes'
  BY <1>1, <1>3, <1>5, <1>6, <1>7 DEF PageTypes
<1>9. ListInv'
  BY <1>1, <1>2, <1>3, <1>5 DEF ListInv
<1>10. ModeInv(c)' /\ CalmInv(c)'
  BY <1>1, <1>6, <1>7, OptionsAssumption DEF ModeInv, CalmInv, Modes
<1>11. ASSUME NEW d \in Readers \ {c} PROVE ModeInv(d)' /\ CalmInv(d)'
  BY <1>3, <1>4, <1>6, <1>7, OptionsAssumption DEF ModeInv, CalmInv, Modes
<1>. QED BY <1>8, <1>9, <1>10, <1>11 DEF PagesInv

\* A page of the frozen list.
LEMMA PlainPage ==
  ASSUME PagesInv, NEW c \in Readers, NEW m \in {"plain", "structural"},
         mode[c] \in {None, m}, mode' = [mode EXCEPT ![c] = m],
         at' = at \/ at' = [at EXCEPT ![c] = "idle"], at' = at => at[c] = "idle",
         held # "none", Give(c, frozen), UNCHANGED <<chain, found, held, frozen, ranking>>
  PROVE  PagesInv'
<1>1. PageTypes /\ ModeInv(c) /\ frozen \in Seq(Contracts) /\ ListInv
  BY DEF PagesInv, PageTypes
<1>2. Prefix(pages[c], frozen)
  BY <1>1, PrefixEmpty DEF ModeInv
<1>3. /\ pages' \in [Readers -> Seq(Contracts)]
      /\ \A d \in Readers \ {c} : pages'[d] = pages[d] /\ (d \in calm' <=> d \in calm)
      /\ Prefix(pages'[c], frozen) /\ (pages'[c] = <<>> => frozen = <<>>)
      /\ calm' \subseteq Readers
  BY <1>1, <1>2, GiveShape
<1>4. /\ mode' \in [Readers -> Modes \union {None}] /\ at' \in [Readers -> Places]
      /\ mode'[c] = m /\ at'[c] = "idle" /\ m \in Modes
      /\ \A d \in Readers \ {c} : mode'[d] = mode[d] /\ at'[d] = at[d]
  BY <1>1 DEF PageTypes, Modes, Places
<1>5. PageTypes' /\ ListInv'
  BY <1>1, <1>3, <1>4 DEF PageTypes, ListInv
<1>6. ModeInv(c)' /\ CalmInv(c)'
  BY <1>3, <1>4, OptionsAssumption DEF ModeInv, CalmInv
<1>7. \A e \in Readers : at'[e] = "rank" => at[e] = "rank"
  BY <1>4
<1>8. ASSUME NEW d \in Readers \ {c} PROVE ModeInv(d)' /\ CalmInv(d)'
  <2>1. ranking' \in {None} \union Seq(Contracts)
    BY <1>1 DEF PageTypes
  <2>. QED BY <1>3, <1>4, <1>7, <2>1, OtherReader
<1>. QED BY <1>5, <1>6, <1>8 DEF PagesInv

\* A call takes a mode, and may wait for quotes.
LEMMA TakesMode ==
  ASSUME PagesInv, NEW c \in Readers, NEW m \in Modes, mode[c] \in {None, m},
         mode' = [mode EXCEPT ![c] = m], held # "none", at[c] = "idle",
         \/ at' = at
         \/ m = "structural" /\ at' = [at EXCEPT ![c] = "enrich"]
         \/ m = "market_quality" /\ held = "live" /\ ranking = None /\ at' = [at EXCEPT ![c] = "rank"],
         UNCHANGED <<chain, found, held, frozen, ranking, pages, calm>>
  PROVE  PagesInv'
<1>1. PageTypes /\ ModeInv(c) /\ CalmInv(c) /\ frozen \in Seq(Contracts) /\ ListInv
  BY DEF PagesInv, PageTypes
<1>2. /\ mode' \in [Readers -> Modes \union {None}] /\ at' \in [Readers -> Places]
      /\ mode'[c] = m
      /\ \A d \in Readers \ {c} : mode'[d] = mode[d] /\ at'[d] = at[d]
  BY <1>1 DEF PageTypes, Modes, Places
<1>3. PageTypes' /\ ListInv'
  BY <1>1, <1>2 DEF PageTypes, ListInv
<1>4. Prefix(<<>>, frozen) /\ m # None
  BY <1>1, PrefixEmpty, OptionsAssumption
<1>5. c \in calm => mode[c] = m
  BY <1>1 DEF ModeInv
<1>6. \/ at'[c] = "idle"
      \/ at'[c] = "enrich" /\ m = "structural"
      \/ at'[c] = "rank" /\ m = "market_quality" /\ held = "live" /\ ranking = None
  BY <1>1 DEF PageTypes
<1>7. ModeInv(c)'
  BY <1>1, <1>2, <1>4, <1>5, <1>6 DEF ModeInv
<1>8. at'[c] = "rank" => \A d \in Readers : ~(d \in calm /\ mode[d] = "market_quality")
  BY <1>6 DEF PagesInv, CalmInv
<1>9. (\A e \in Readers : at'[e] = "rank" => at[e] = "rank") \/ at'[c] = "rank"
  BY <1>2
<1>10. CalmInv(c)'
  BY <1>1, <1>2, <1>5, <1>6, <1>8, <1>9 DEF CalmInv
<1>11. ASSUME NEW d \in Readers \ {c} PROVE ModeInv(d)' /\ CalmInv(d)'
  <2>1. ranking' \in {None} \union Seq(Contracts)
    BY <1>1 DEF PageTypes
  <2>. QED BY <1>2, <1>8, <1>9, <2>1, OtherReader
<1>. QED BY <1>3, <1>7, <1>10, <1>11 DEF PagesInv

\* A page of the ranking: the one in the cache, or one just made.
LEMMA RankedPage ==
  ASSUME PagesInv, NEW c \in Readers, held # "none", UNCHANGED <<chain, found, held, frozen>>,
         mode' = [mode EXCEPT ![c] = "market_quality"], mode[c] \in {None, "market_quality"},
         NEW order \in Seq(Contracts), Distinct(order), Len(order) = Len(frozen), order # None,
         ranking' = order, Give(c, order),
         \/ at' = at /\ at[c] = "idle" /\ held = "live" /\ ranking = order
         \/ at[c] = "rank" /\ at' = [at EXCEPT ![c] = "idle"]
  PROVE  PagesInv'
<1>1. PageTypes /\ ModeInv(c) /\ CalmInv(c) /\ frozen \in Seq(Contracts) /\ ListInv
      /\ pages[c] \in Seq(Contracts)
  BY DEF PagesInv, PageTypes
<1>2. /\ pages' \in [Readers -> Seq(Contracts)]
      /\ \A d \in Readers \ {c} : pages'[d] = pages[d] /\ (d \in calm' <=> d \in calm)
      /\ Prefix(pages[c], order) => /\ Prefix(pages'[c], order)
                                    /\ pages'[c] = <<>> => order = <<>>
      /\ calm' \subseteq Readers
      /\ c \in calm' => \/ c \in calm
                        \/ pages[c] = <<>> /\ \A d \in Readers \ {c} : at[d] # "rank"
  BY <1>1, GiveShape
<1>3. /\ mode' \in [Readers -> Modes \union {None}] /\ at' \in [Readers -> Places]
      /\ mode'[c] = "market_quality" /\ at'[c] = "idle"
      /\ \A d \in Readers \ {c} : mode'[d] = mode[d] /\ at'[d] = at[d]
  BY <1>1 DEF PageTypes, Modes, Places
<1>4. PageTypes'
  BY <1>1, <1>2, <1>3 DEF PageTypes
<1>5. ListInv'
  BY <1>1, <1>2, <1>3 DEF ListInv
<1>6. ModeInv(c)'
  BY <1>3, OptionsAssumption DEF ModeInv, Modes
<1>7. c \in calm => mode[c] = "market_quality" /\ at[c] # "rank" /\ ranking = order /\ held = "live"
  BY <1>1 DEF ModeInv, CalmInv
<1>8. c \in calm' => Prefix(pages[c], order)
  BY <1>1, <1>2, <1>7, PrefixEmpty DEF CalmInv
<1>9. c \in calm' /\ pages'[c] # <<>> => \A d \in Readers : at'[d] # "rank"
  <2>1. CASE pages[c] # <<>>
    BY <1>1, <1>2, <1>3, <1>7, <2>1 DEF CalmInv
  <2>2. CASE pages[c] = <<>> /\ \A d \in Readers \ {c} : at[d] # "rank"
    BY <1>3, <2>2
  <2>3. CASE pages[c] = <<>> /\ c \in calm
    <3>1. frozen = <<>>
      BY <1>1, <2>3 DEF CalmInv
    <3>2. Len(order) = 0
      BY <3>1
    <3>3. Len(pages'[c]) <= Len(order) \/ c \notin calm'
      BY <1>2, <1>8 DEF Prefix
    <3>4. pages'[c] \in Seq(Contracts)
      BY <1>2
    <3>5. Len(pages'[c]) = 0 \/ c \notin calm'
      BY <3>2, <3>3, <3>4
    <3>. QED BY <3>4, <3>5, EmptyLen
  <2>. QED BY <1>2, <2>1, <2>2, <2>3
<1>10. CalmInv(c)'
  <2>1. c \in calm' => pages'[c] \in Seq(Contracts) /\ Prefix(pages'[c], order)
    BY <1>2, <1>8
  <2>2. c \in calm' => Distinct(pages'[c])
    BY <2>1, DistinctPrefix
  <2>3. c \in calm' /\ pages'[c] = <<>> => Len(frozen) = 0
    BY <1>2, <1>8
  <2>4. c \in calm' /\ pages'[c] = <<>> => frozen = <<>>
    BY <1>1, <2>3, EmptyLen
  <2>. QED BY <1>3, <1>9, <2>1, <2>2, <2>4 DEF CalmInv
<1>11. ASSUME NEW d \in Readers \ {c} PROVE ModeInv(d)' /\ CalmInv(d)'
  <2>1. \A e \in Readers : at'[e] = "rank" => at[e] = "rank"
    BY <1>3
  <2>2. d \in calm /\ mode[d] = "market_quality" /\ held = "live" /\ at[c] = "rank" => pages[d] = <<>>
    BY DEF PagesInv, CalmInv
  <2>. QED BY <1>2, <1>3, <2>1, <2>2, OtherReader
<1>. QED BY <1>4, <1>5, <1>6, <1>10, <1>11 DEF PagesInv

LEMMA PagesNext == OptionsInv /\ PagesInv /\ [NextOptions]_optionsVars => PagesInv'
<1> SUFFICES ASSUME OptionsInv, PagesInv, [NextOptions]_optionsVars PROVE PagesInv'
  OBVIOUS
<1>1. PageTypes /\ ListInv /\ frozen \in Seq(Contracts)
  BY DEF PagesInv, PageTypes
<1>2. CASE Change
  <2>1. /\ UNCHANGED <<pages, calm, frozen, at, mode, held, ranking, found>>
        /\ chain' \subseteq Contracts
    BY <1>1, <1>2 DEF Change, discovery, chainSnapshot, client, PageTypes
  <2>. QED BY <1>1, <2>1, NoPage DEF PageTypes
<1>3. CASE ChainExpires
  BY <1>1, <1>3, NoPage DEF ChainExpires, upstream, discovery, client, history, PageTypes
<1>4. ASSUME NEW c \in Readers, Screen(c) \/ Fail(c) PROVE PagesInv'
  <2>1. /\ UNCHANGED <<pages, calm, frozen, mode, held, ranking, chain, found>>
        /\ \E p \in {"discover", "idle"} : at' = [at EXCEPT ![c] = p]
    BY <1>4 DEF Screen, Fail, Goto, upstream, discovery, chainSnapshot, history
  <2>. QED BY <1>1, <2>1, NoPage DEF PageTypes, Places
<1>5. ASSUME NEW c \in Readers, Discovered(c) PROVE PagesInv'
  <2>1. /\ at[c] = "discover" /\ ranking' = ranking /\ chain' = chain /\ found' = {}
    BY <1>5 DEF Discovered, upstream
  <2>2. held = "none" /\ \A d \in Readers \ {c} : at[d] = "idle"
    BY <2>1 DEF OptionsInv, AloneInv
  <2>3. CASE Freeze(c, {})
    BY <1>1, <2>1, <2>2, <2>3, FreezeKeeps DEF PageTypes
  <2>4. CASE Goto(c, "types") /\ UNCHANGED <<held, frozen, mode, pages, calm>>
    BY <1>1, <2>1, <2>4, NoPage DEF PageTypes, Goto, Places
  <2>. QED BY <1>5, <2>3, <2>4 DEF Discovered
<1>6. ASSUME NEW c \in Readers, (\E t \in asking : TypeAnswered(c, t)) \/ \E e \in todo : ReadPage(c, e)
      PROVE  PagesInv'
  <2>1. /\ at[c] \in {"types", "scan"} /\ ranking' = ranking /\ chain' = chain
        /\ found' \subseteq Contracts
        /\ ScanOver(c, "scan") \/ UNCHANGED <<held, frozen, client, calm>>
    BY <1>1, <1>6 DEF TypeAnswered, ReadPage, MatrixRows, Rows, upstream, PageTypes
  <2>2. held = "none" /\ \A d \in Readers \ {c} : at[d] = "idle"
    BY <2>1 DEF OptionsInv, AloneInv
  <2>3. CASE Freeze(c, found')
    BY <1>1, <2>1, <2>2, <2>3, FreezeKeeps DEF PageTypes
  <2>4. CASE Goto(c, "scan") /\ UNCHANGED <<held, frozen, mode, pages, calm>>
    BY <1>1, <2>1, <2>4, NoPage DEF PageTypes, Goto, Places
  <2>5. CASE UNCHANGED <<held, frozen, client, calm>>
    BY <1>1, <2>1, <2>5, NoPage DEF PageTypes, client
  <2>. QED BY <2>1, <2>3, <2>4, <2>5 DEF ScanOver
<1>7. ASSUME NEW c \in Readers, \E m \in Modes : ChainGone(c, m) PROVE PagesInv'
  <2>1. PICK m \in Modes : ChainGone(c, m)
    BY <1>7
  <2>2. /\ at[c] = "idle" /\ held # "none" /\ mode[c] \in {None, m} /\ mode' = [mode EXCEPT ![c] = m]
        /\ UNCHANGED <<at, chain, found, held, frozen, ranking, pages, calm>>
    BY <2>1 DEF ChainGone, NextPageCall, upstream, discovery, chainSnapshot, history
  <2>. QED BY <2>2, TakesMode
<1>8. ASSUME NEW c \in Readers, GetPage(c) PROVE PagesInv'
  BY <1>8, PlainPage DEF GetPage, NextPageCall, upstream, discovery, chainSnapshot
<1>9. ASSUME NEW c \in Readers, EnrichPage(c) PROVE PagesInv'
  BY <1>9, TakesMode DEF EnrichPage, NextPageCall, Goto, upstream, discovery, chainSnapshot, history, Modes
<1>10. ASSUME NEW c \in Readers, Enriched(c) PROVE PagesInv'
  <2>1. at[c] = "enrich" /\ mode[c] = "structural" /\ held # "none"
    BY <1>10 DEF Enriched, PagesInv, ModeInv, OptionsInv, AloneInv
  <2>2. mode' = [mode EXCEPT ![c] = "structural"] /\ at' = [at EXCEPT ![c] = "idle"]
    BY <1>1, <1>10, <2>1 DEF Enriched, Goto, PageTypes
  <2>3. at'[c] = "idle"
    BY <1>1, <2>2 DEF PageTypes
  <2>. QED BY <1>10, <2>1, <2>2, <2>3, PlainPage DEF Enriched, upstream, discovery, chainSnapshot
<1>11. ASSUME NEW c \in Readers, RankPage(c) PROVE PagesInv'
  <2>1. /\ held = "live" /\ at[c] = "idle" /\ mode[c] \in {None, "market_quality"}
        /\ mode' = [mode EXCEPT ![c] = "market_quality"]
        /\ UNCHANGED <<chain, found, held, frozen, ranking>>
    BY <1>11 DEF RankPage, NextPageCall, upstream, discovery, chainSnapshot
  <2>2. CASE ranking # None
    <3>1. Give(c, ranking) /\ at' = at
      BY <1>11, <2>2 DEF RankPage, Cached
    <3>2. ranking \in Seq(Contracts) /\ Distinct(ranking) /\ Len(ranking) = Len(frozen)
      BY <1>1, <2>2 DEF PageTypes, ListInv
    <3>. QED BY <2>1, <2>2, <3>1, <3>2, RankedPage
  <2>3. CASE ranking = None
    <3>1. at' = [at EXCEPT ![c] = "rank"] /\ UNCHANGED <<pages, calm>>
      BY <1>11, <2>3 DEF RankPage, Cached, Goto
    <3>. QED BY <2>1, <2>3, <3>1, TakesMode DEF Modes
  <2>. QED BY <2>2, <2>3
<1>12. ASSUME NEW c \in Readers, ChainRanked(c) PROVE PagesInv'
  <2>1. /\ at[c] = "rank" /\ mode[c] = "market_quality" /\ held # "none"
        /\ UNCHANGED <<chain, found, held, frozen, mode>> /\ at' = [at EXCEPT ![c] = "idle"]
    BY <1>12 DEF ChainRanked, PagesInv, ModeInv, OptionsInv, AloneInv, upstream, discovery, Goto
  <2>2. mode' = [mode EXCEPT ![c] = "market_quality"]
    BY <1>1, <2>1 DEF PageTypes
  <2>3. PICK order \in Orders(frozen) : ranking' = order /\ Give(c, order)
    BY <1>12 DEF ChainRanked
  <2>4. /\ order \in [1 .. Len(frozen) -> Contracts]
        /\ \A i, j \in 1 .. Len(frozen) : order[i] = order[j] => i = j
    BY <1>1 DEF Orders, ToSet, IsInjective
  <2>5. order \in Seq(Contracts) /\ Len(order) = Len(frozen)
    BY <1>1, <2>4
  <2>6. Distinct(order) /\ order # None
    BY <2>4, <2>5, OptionsAssumption DEF Distinct
  <2>. QED BY <2>1, <2>2, <2>3, <2>5, <2>6, RankedPage
<1>13. CASE UNCHANGED optionsVars
  BY <1>1, <1>13, NoPage DEF optionsVars, upstream, discovery, chainSnapshot, client, history, PageTypes
<1>. QED BY <1>2, <1>3, <1>4, <1>5, <1>6, <1>7, <1>8, <1>9, <1>10, <1>11, <1>12, <1>13
     DEF NextOptions, ReaderStep

\* A client whose first page came while nobody ranked pages through one ranking, the
\* one in the cache, and gets no contract twice; so does a client that pages through
\* the list.  For any list, any page size and any number of clients.
THEOREM OneRanking == SpecOptions => []PagesOfOneRanking
<1>1. PagesInv => PagesOfOneRanking
  <2> SUFFICES ASSUME PagesInv, NEW c \in calm
               PROVE  /\ mode[c] = "market_quality" /\ held = "live" => IsPrefix(pages[c], ranking)
                      /\ \A i, j \in DOMAIN pages[c] : pages[c][i] = pages[c][j] => i = j
    BY DEF PagesOfOneRanking
  <2>1. /\ c \in Readers /\ PageTypes /\ ListInv /\ ModeInv(c) /\ CalmInv(c)
        /\ pages[c] \in Seq(Contracts) /\ frozen \in Seq(Contracts)
    BY DEF PagesInv, PageTypes
  <2>2. ASSUME mode[c] = "market_quality", held = "live" PROVE IsPrefix(pages[c], ranking)
    <3>1. ranking \in Seq(Contracts) /\ Prefix(pages[c], ranking)
      BY <2>1, <2>2 DEF CalmInv, PageTypes
    <3>2. /\ SubSeq(pages[c], 1, Len(pages[c])) \in Seq(Contracts)
          /\ SubSeq(ranking, 1, Len(pages[c])) \in Seq(Contracts)
          /\ Len(SubSeq(ranking, 1, Len(pages[c]))) = Len(pages[c])
          /\ \A i \in 1 .. Len(pages[c]) : SubSeq(ranking, 1, Len(pages[c]))[i] = ranking[i]
          /\ SubSeq(pages[c], 1, Len(pages[c])) = pages[c]
      BY <2>1, <3>1 DEF Prefix
    <3>3. SubSeq(ranking, 1, Len(pages[c])) = pages[c]
      BY <2>1, <3>1, <3>2, SeqEqual DEF Prefix
    <3>. QED BY <3>1, <3>2, <3>3 DEF IsPrefix, Prefix
  <2>3. Distinct(pages[c])
    <3>1. CASE mode[c] = "market_quality"
      BY <2>1, <3>1 DEF CalmInv
    <3>2. CASE mode[c] \in {"plain", "structural"}
      BY <2>1, <3>2, DistinctPrefix DEF ModeInv, ListInv
    <3>3. mode[c] \in Modes
      BY <2>1 DEF ModeInv, PageTypes
    <3>. QED BY <3>1, <3>2, <3>3 DEF Modes
  <2>. QED BY <2>1, <2>2, <2>3 DEF Distinct
<1>. QED BY <1>1, OptionsInitInv, OptionsInvIsInductive, PagesInit, PagesNext, PTL DEF SpecOptions

-----------------------------------------------------------------------------
(* The two screens of the server side by side.                              *)

\* A behaviour of the two is one of each.
LEMMA BothScreens == SpecScreens => Spec /\ SpecOptions
<1>1. InitScreens => Init /\ InitOptions
  BY DEF InitScreens
<1>2. [LeveragedStep \/ OptionsStep]_allVars => [Next]_vars /\ [NextOptions]_optionsVars
  BY DEF LeveragedStep, OptionsStep, allVars
<1>. QED BY <1>1, <1>2, PTL DEF SpecScreens, Spec, SpecOptions

\* Whichever screen is followed, what it promises holds.
THEOREM ScreensKeep ==
  SpecScreens => [](/\ TypeOK /\ RankingIsComplete /\ OnceUnlessOverlapping
                    /\ ChainIsComplete /\ PagesOfOneRanking)
BY BothScreens, ScreenTypes, RankingComplete, TriedOnce, ChainComplete, OneRanking, PTL
================================================================================
