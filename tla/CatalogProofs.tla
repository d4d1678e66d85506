----------------------------- MODULE CatalogProofs -----------------------------
(* The scans of a paged list and the catalog, for any list, page size, number  *)
(* of pages in flight and number of changes.  What a page holds is said with   *)
(* the places that items have on the list.                                     *)
EXTENDS InstrumentCatalog, FiniteSetTheorems, TLAPS

-----------------------------------------------------------------------------
(* Places.                                                                  *)

\* The place of x on list L: what comes before it.
Place(L, x) == Cardinality({y \in L : y < x})

LEMMA PlaceBounds ==
  ASSUME NEW L \in SUBSET Nat, IsFiniteSet(L), NEW x \in L
  PROVE  Place(L, x) \in 0 .. Cardinality(L) - 1
<1> DEFINE B == {y \in L : y < x}
<1>1. IsFiniteSet(L \ {x}) /\ Cardinality(L \ {x}) = Cardinality(L) - 1
  BY FS_RemoveElement
<1>2. B \in SUBSET (L \ {x})
  OBVIOUS
<1>3. IsFiniteSet(B) /\ Cardinality(B) <= Cardinality(L \ {x})
  BY <1>1, <1>2, FS_Subset
<1>4. Cardinality(B) \in Nat /\ Cardinality(L) \in Nat
  BY <1>3, FS_CardinalityType
<1>. QED BY <1>1, <1>3, <1>4 DEF Place

LEMMA PlaceOrder ==
  ASSUME NEW L \in SUBSET Nat, IsFiniteSet(L), NEW x \in L, NEW z \in L, x < z
  PROVE  Place(L, x) < Place(L, z)
<1> DEFINE B == {y \in L : y < x}
           C == {y \in L : y < z}
<1>1. IsFiniteSet(B) /\ IsFiniteSet(C)
  <2>1. B \in SUBSET L /\ C \in SUBSET L
    OBVIOUS
  <2>. QED BY <2>1, FS_Subset
<1>2. B \union {x} \in SUBSET C /\ x \notin B
  <2>1. \A y \in L : y \in Nat
    OBVIOUS
  <2>2. \A y \in B \union {x} : y \in L /\ y < z
    BY <2>1
  <2>3. x \notin B
    BY <2>1
  <2>. QED BY <2>2, <2>3
<1>3. Cardinality(B \union {x}) = Cardinality(B) + 1
  BY <1>1, <1>2, FS_AddElement
<1>4. Cardinality(B \union {x}) <= Cardinality(C)
  BY <1>1, <1>2, FS_Subset
<1>5. Cardinality(B) \in Nat /\ Cardinality(C) \in Nat
  BY <1>1, FS_CardinalityType
<1>. QED BY <1>3, <1>4, <1>5 DEF Place

\* Every place of the list is taken, by one item.
LEMMA PlacesAreTaken ==
  ASSUME NEW L \in SUBSET Nat, IsFiniteSet(L)
  PROVE  LET f == [x \in L |-> Place(L, x)]
         IN  f \in Bijection(L, 0 .. Cardinality(L) - 1)
<1> DEFINE N == Cardinality(L)
           f == [x \in L |-> Place(L, x)]
<1>1. N \in Nat /\ IsFiniteSet(0 .. N - 1) /\ Cardinality(0 .. N - 1) = N
  <2>1. N \in Nat
    BY FS_CardinalityType
  <2>2. IsFiniteSet(0 .. N - 1) /\ Cardinality(0 .. N - 1) = IF 0 > N - 1 THEN 0 ELSE N - 1 - 0 + 1
    BY <2>1, FS_Interval
  <2>. QED BY <2>1, <2>2
<1>2. f \in [L -> 0 .. N - 1]
  <2>1. \A x \in L : Place(L, x) \in 0 .. N - 1
    BY PlaceBounds
  <2>. QED BY <2>1
<1>3. \A x, z \in L : f[x] = f[z] => x = z
  <2> SUFFICES ASSUME NEW x \in L, NEW z \in L, f[x] = f[z], x # z PROVE FALSE
    OBVIOUS
  <2>1. x < z \/ z < x
    OBVIOUS
  <2>2. Place(L, x) \in 0 .. N - 1 /\ Place(L, z) \in 0 .. N - 1
    BY PlaceBounds
  <2>3. Place(L, x) < Place(L, z) \/ Place(L, z) < Place(L, x)
    BY <2>1, PlaceOrder
  <2>4. Place(L, x) = Place(L, z)
    OBVIOUS
  <2>. QED BY ONLY <2>2, <2>3, <2>4, N \in Nat
<1>4. f \in Injection(L, 0 .. N - 1)
  BY <1>2, <1>3 DEF Injection, IsInjective
<1>5. f \in Surjection(L, 0 .. N - 1)
  <2> HIDE DEF f
  <2>. QED BY <1>1, <1>4, FS_Injection
<1>. QED BY <1>4, <1>5 DEF Bijection

\* So many items as places.
LEMMA ItemsAtPlaces ==
  ASSUME NEW L \in SUBSET Nat, IsFiniteSet(L),
         NEW a \in Nat, NEW b \in Nat, a <= b, b <= Cardinality(L)
  PROVE  Cardinality({x \in L : Place(L, x) \in a .. b - 1}) = b - a
<1> DEFINE N == Cardinality(L)
           f == [x \in L |-> Place(L, x)]
           P == {x \in L : Place(L, x) \in a .. b - 1}
           g == [x \in P |-> Place(L, x)]
<1>1. f \in Bijection(L, 0 .. N - 1) /\ N \in Nat
  BY PlacesAreTaken, FS_CardinalityType
<1>2. IsFiniteSet(P) /\ P \in SUBSET L
  <2>1. P \in SUBSET L
    OBVIOUS
  <2>. QED BY <2>1, FS_Subset
<1>3. g \in [P -> a .. b - 1]
  OBVIOUS
<1>4. \A x, z \in P : g[x] = g[z] => x = z
  BY <1>1 DEF Bijection, Injection, IsInjective
<1>5. \A i \in a .. b - 1 : \E x \in P : g[x] = i
  <2> SUFFICES ASSUME NEW i \in a .. b - 1 PROVE \E x \in P : g[x] = i
    OBVIOUS
  <2>1. i \in 0 .. N - 1
    BY <1>1
  <2>2. PICK x \in L : f[x] = i
    BY <1>1, <2>1 DEF Bijection, Surjection
  <2>3. Place(L, x) = i
    BY <2>2
  <2>. QED BY <2>3
<1>6. g \in Bijection(P, a .. b - 1)
  BY <1>3, <1>4, <1>5 DEF Bijection, Injection, Surjection, IsInjective
<1>7. Cardinality(a .. b - 1) = Cardinality(P)
  <2> HIDE DEF g, P
  <2>. QED BY <1>2, <1>6, FS_Bijection DEF ExistsBijection
<1>8. Cardinality(a .. b - 1) = IF a > b - 1 THEN 0 ELSE b - 1 - a + 1
  BY FS_Interval
<1>. QED BY <1>7, <1>8

\* The offsets of the pages of a scan are multiples of its first page's rows.
LEMMA Division ==
  ASSUME NEW n \in Nat \ {0}, NEW r \in Nat
  PROVE  /\ r % n \in 0 .. n - 1 /\ r \div n \in Nat
         /\ r = n * (r \div n) + (r % n)
OBVIOUS

LEMMA MultiplesApart ==
  ASSUME NEW n \in Nat \ {0}, NEW o \in Nat, NEW p \in Nat,
         o % n = 0, p % n = 0, o < p
  PROVE  o + n <= p
<1>1. /\ o = n * (o \div n) /\ o \div n \in Nat
      /\ p = n * (p \div n) /\ p \div n \in Nat
  BY Division
<1>2. ASSUME NEW a \in Nat, NEW b \in Nat, o = n * a, p = n * b
      PROVE  o + n <= p
  <2>1. a < b
    BY <1>2
  <2>2. n * (a + 1) <= n * b
    BY <2>1
  <2>. QED BY <1>2, <2>2
<1>. QED BY <1>1, <1>2

LEMMA MultipleBelow ==
  ASSUME NEW n \in Nat \ {0}, NEW r \in Nat, r >= n
  PROVE  \E o \in Nat : o % n = 0 /\ n <= o /\ o <= r /\ r < o + n
<1>1. PICK q \in Nat : n * q <= r /\ r < n * q + n
  <2>1. /\ r \div n \in Nat /\ r % n \in 0 .. n - 1
        /\ r = n * (r \div n) + (r % n)
    BY Division
  <2>2. n * (r \div n) <= r /\ r < n * (r \div n) + n
    BY <2>1
  <2>. QED BY <2>1, <2>2
<1>2. n * q \in Nat /\ n * q >= n
  BY <1>1
<1>3. (n * q) % n = 0
  BY <1>1
<1>. QED BY <1>1, <1>2, <1>3

-----------------------------------------------------------------------------
(* A list that does not change.                                             *)

Once(S) == [x \in Items |-> IF x \in S THEN 1 ELSE 0]

ScanTypes ==
  /\ listed \in SUBSET Items /\ atFirst \in SUBSET Items
  /\ scan \in {"catalog", "feed", "options"}
  /\ cap \in 1 .. Limit /\ counted \in BOOLEAN
  /\ perRow \in {1, 2} /\ (scan # "options" => perRow = 1)
  /\ pc \in {"first", "offsets", "next", "done", "failed"}
  /\ total \in {Unknown} \union Nat /\ step \in Nat /\ offset \in Nat
  /\ todo \in SUBSET Nat
  /\ got \in [Items -> 0 .. 2] /\ rows \in Nat
  /\ grown \in BOOLEAN /\ shrunk \in BOOLEAN
  /\ pc = "first" => ~grown /\ ~shrunk /\ got = Once({}) /\ rows = 0

Front(o) == {x \in listed : Place(listed, x) < o}

\* Pages side by side: what is missing is on the pages that are still out, and
\* no two of them share a row.
Spreading ==
  pc = "offsets" =>
    /\ got = Once(listed \ UNION {PageAt(o) : o \in todo})
    /\ \A o, p \in todo : o < p => o + cap <= p

\* Page after page: the rows so far are the front of the list.
Following ==
  pc = "next" =>
    /\ got = Once(Front(offset)) /\ rows = offset
    /\ offset <= Cardinality(listed) /\ total = Reported
    /\ scan = "feed" => step <= cap

Whole ==
  pc = "done" /\ (cap = Limit \/ PagesMayBeCut) => got = Once(listed)

StableInv == ~grown /\ ~shrunk => Spreading /\ Following /\ Whole

LEMMA Listed ==
  ASSUME ScanTypes
  PROVE  /\ listed \in SUBSET Nat /\ IsFiniteSet(listed) /\ Cardinality(listed) \in Nat
         /\ Reported \in {Unknown} \union Nat
         /\ Reported # Unknown => Reported >= Cardinality(listed)
         /\ Reported # Unknown /\ perRow = 1 => Reported = Cardinality(listed)
         /\ Reported # Unknown <=> counted
<1>1. listed \in SUBSET Nat /\ IsFiniteSet(listed)
  <2>1. listed \in SUBSET Items /\ IsFiniteSet(Items) /\ Items \subseteq Nat
    BY ScanAssumption DEF ScanTypes
  <2>. QED BY <2>1, FS_Subset
<1>2. Cardinality(listed) \in Nat
  BY <1>1, FS_CardinalityType
<1>3. perRow \in {1, 2} /\ counted \in BOOLEAN
  BY DEF ScanTypes
<1>. QED BY <1>1, <1>2, <1>3 DEF Reported, Unknown

\* What a page holds: the rows that follow, all of them unless it is full.
LEMMA PageRows ==
  ASSUME ScanTypes, NEW o \in Nat, o <= Cardinality(listed)
  PROVE  LET n == Cardinality(PageAt(o)) IN
         /\ n \in 0 .. cap /\ o + n <= Cardinality(listed)
         /\ n = cap \/ o + n = Cardinality(listed)
         /\ PageAt(o) = {x \in listed : Place(listed, x) \in o .. o + n - 1}
<1> DEFINE N == Cardinality(listed)
           b == IF o + cap < N THEN o + cap ELSE N
           P == {x \in listed : Place(listed, x) \in o .. b - 1}
<1>1. listed \in SUBSET Nat /\ IsFiniteSet(listed) /\ N \in Nat /\ cap \in Nat
  BY Listed, ScanAssumption DEF ScanTypes
<1>2. b \in Nat /\ o <= b /\ b <= N
  BY <1>1
<1>3. Cardinality(P) = b - o
  <2> HIDE DEF b
  <2>. QED BY <1>1, <1>2, ItemsAtPlaces
<1>4. \A x \in listed : Place(listed, x) \in 0 .. N - 1
  BY <1>1, PlaceBounds
<1>5. PageAt(o) = P
  <2>1. PageAt(o) = {x \in listed : Place(listed, x) \in o .. o + cap - 1}
    BY DEF PageAt, Place
  <2>2. \A x \in listed : Place(listed, x) \in o .. o + cap - 1 <=> Place(listed, x) \in o .. b - 1
    BY <1>1, <1>4
  <2>. QED BY <2>1, <2>2
<1>6. Cardinality(PageAt(o)) = b - o
  BY <1>3, <1>5
<1>7. b - o \in 0 .. cap /\ o + (b - o) = b /\ (b - o = cap \/ b = N)
  BY <1>1, <1>2
<1>. HIDE DEF b
<1>. QED BY <1>2, <1>5, <1>6, <1>7

LEMMA PageIsFinite ==
  ASSUME ScanTypes, NEW o
  PROVE  PageAt(o) \in SUBSET listed /\ Cardinality(PageAt(o)) \in Nat
<1>1. PageAt(o) \in SUBSET listed
  BY DEF PageAt
<1>2. IsFiniteSet(PageAt(o))
  BY <1>1, Listed, FS_Subset
<1>. QED BY <1>1, <1>2, FS_CardinalityType

LEMMA TakeTypes ==
  ASSUME ScanTypes, NEW o, Take(PageAt(o))
  PROVE  got' \in [Items -> 0 .. 2] /\ rows' \in Nat
<1>1. Cardinality(PageAt(o)) \in Nat
  BY PageIsFinite
<1>2. got \in [Items -> 0 .. 2] /\ rows \in Nat
  BY DEF ScanTypes
<1>. QED BY <1>1, <1>2 DEF Take

LEMMA Taken ==
  ASSUME ScanTypes, NEW S, NEW page, got = Once(S), page \intersect S = {}, Take(page)
  PROVE  got' = Once(S \union page)
<1>1. \A x \in Items : x \in page => got[x] = 0
  BY DEF Once
<1>2. \A x \in Items : got[x] = IF x \in S THEN 1 ELSE 0
  BY DEF Once
<1>. QED BY <1>1, <1>2 DEF Take, Once

LEMMA ScanTypesInit == Init => ScanTypes
<1> SUFFICES ASSUME Init PROVE ScanTypes
  OBVIOUS
<1>1. got = Once({}) /\ got \in [Items -> 0 .. 2]
  BY DEF Init, Once
<1>2. perRow \in {1, 2} /\ (scan # "options" => perRow = 1)
  BY DEF Init
<1>. QED BY <1>1, <1>2 DEF Init, ScanTypes

LEMMA ScanTypesStep ==
  ASSUME ScanTypes, Next
  PROVE  ScanTypes'
<1>1. Reported \in {Unknown} \union Nat /\ listed \in SUBSET Nat
  BY Listed
<1>2. CASE First
  <2>1. got' \in [Items -> 0 .. 2] /\ rows' \in Nat /\ total' = Reported
    BY <1>2, TakeTypes DEF First
  <2>2. Cardinality(PageAt(0)) \in Nat
    BY PageIsFinite
  <2>3. /\ pc' \in {"offsets", "next", "done", "failed"}
        /\ step' \in Nat /\ offset' \in Nat /\ todo' \in SUBSET Nat
    <3>1. step \in Nat /\ offset \in Nat /\ todo \in SUBSET Nat
      BY DEF ScanTypes
    <3>2. End => /\ pc' \in {"done", "failed"} /\ step' = step /\ offset' = offset /\ todo' = {}
      BY DEF End
    <3>3. ASSUME NEW n \in Nat, Spread(n)
          PROVE  /\ pc' \in {"offsets", "done", "failed"}
                 /\ step' \in Nat /\ offset' \in Nat /\ todo' \in SUBSET Nat
      <4>1. {o \in n .. total' - 1 : o % n = 0} \in SUBSET Nat
        BY <2>1, <1>1 DEF Unknown
      <4>. HIDE DEF End
      <4>. QED BY <3>1, <3>2, <3>3, <4>1 DEF Spread
    <3>4. ASSUME NEW n \in Nat, Follow(n)
          PROVE  pc' = "next" /\ step' \in Nat /\ offset' \in Nat /\ todo' \in SUBSET Nat
      BY <3>1, <3>4 DEF Follow
    <3>5. \/ End \/ Spread(Cardinality(PageAt(0))) \/ Follow(Cardinality(PageAt(0)))
      BY <1>2 DEF First
    <3>. QED BY <2>2, <3>1, <3>2, <3>3, <3>4, <3>5
  <2>. QED BY <1>1, <1>2, <2>1, <2>3 DEF First, upstream, ScanTypes
<1>3. ASSUME NEW o \in todo, Fetch(o)
      PROVE  ScanTypes'
  <2>1. got' \in [Items -> 0 .. 2] /\ rows' \in Nat
    BY <1>3, TakeTypes DEF Fetch
  <2>2. /\ pc' \in {"offsets", "done", "failed"} /\ step' = step /\ offset' = offset
        /\ todo' \in SUBSET todo
    BY <1>3 DEF Fetch, End
  <2>. QED BY <1>3, <2>1, <2>2 DEF Fetch, upstream, history, ScanTypes
<1>4. CASE NextPage
  <2>1. got' \in [Items -> 0 .. 2] /\ rows' \in Nat
    BY <1>4, TakeTypes DEF NextPage
  <2>2. total' \in {Unknown} \union Nat
    BY <1>1, <1>4 DEF NextPage, ScanTypes
  <2>3. /\ pc' \in {"next", "done", "failed"} /\ step' = step /\ todo' \in SUBSET todo
        /\ offset' \in {offset, offset + Cardinality(PageAt(offset))}
    BY <1>4 DEF NextPage, End
  <2>4. offset' \in Nat
    BY <2>3, PageIsFinite DEF ScanTypes
  <2>. QED BY <1>4, <2>1, <2>2, <2>3, <2>4 DEF NextPage, upstream, history, ScanTypes
<1>5. CASE PageFails
  BY <1>5 DEF PageFails, upstream, history, ScanTypes
<1>6. CASE Change
  BY <1>6 DEF Change, scanner, ScanTypes
<1>. QED BY <1>2, <1>3, <1>4, <1>5, <1>6 DEF Next, Answered

-----------------------------------------------------------------------------
LEMMA FrontGrows ==
  ASSUME ScanTypes, NEW o \in Nat, o <= Cardinality(listed)
  PROVE  LET n == Cardinality(PageAt(o)) IN
         /\ Front(o) \union PageAt(o) = Front(o + n)
         /\ Front(o) \intersect PageAt(o) = {}
<1> DEFINE n == Cardinality(PageAt(o))
<1>1. n \in Nat /\ PageAt(o) = {x \in listed : Place(listed, x) \in o .. o + n - 1}
  BY PageRows
<1>2. \A x \in listed : Place(listed, x) \in Nat
  BY Listed, PlaceBounds
<1>. HIDE DEF n
<1>3. \A x \in listed : /\ Place(listed, x) < o + n <=> Place(listed, x) < o \/ Place(listed, x) \in o .. o + n - 1
                        /\ ~ (Place(listed, x) < o /\ Place(listed, x) \in o .. o + n - 1)
  BY <1>1, <1>2
<1>. QED BY <1>1, <1>3 DEF Front, n

LEMMA FrontIsAll ==
  ASSUME ScanTypes
  PROVE  Front(0) = {} /\ Front(Cardinality(listed)) = listed
<1>1. \A x \in listed : Place(listed, x) \in 0 .. Cardinality(listed) - 1
  BY Listed, PlaceBounds
<1>. QED BY <1>1, Listed DEF Front

\* Pages that are far enough apart have no row in common.
LEMMA PagesDiffer ==
  ASSUME ScanTypes, NEW o \in Nat, NEW p \in Nat, o + cap <= p
  PROVE  PageAt(o) \intersect PageAt(p) = {}
<1>1. \A x \in listed : Place(listed, x) \in Nat
  BY Listed, PlaceBounds
<1>2. cap \in Nat
  BY ScanAssumption DEF ScanTypes
<1>3. \A x \in listed : ~ (Place(listed, x) \in o .. o + cap - 1 /\ Place(listed, x) \in p .. p + cap - 1)
  BY <1>1, <1>2
<1>. QED BY <1>3 DEF PageAt, Place

\* What the pages after a full first one have together.
LEMMA PagesCover ==
  ASSUME ScanTypes, NEW t \in Nat, t = Cardinality(listed)
  PROVE  LET rest == {o \in cap .. t - 1 : o % cap = 0} IN
         /\ listed \ UNION {PageAt(o) : o \in rest} = PageAt(0)
         /\ \A o, p \in rest : o < p => o + cap <= p
<1> DEFINE rest == {o \in cap .. t - 1 : o % cap = 0}
<1>1. cap \in Nat \ {0} /\ rest \in SUBSET Nat
  BY ScanAssumption DEF ScanTypes
<1>2. \A x \in listed : Place(listed, x) \in 0 .. t - 1
  BY Listed, PlaceBounds
<1>3. \A o, p \in rest : o < p => o + cap <= p
  BY <1>1, MultiplesApart
<1>4. ASSUME NEW x \in listed, x \notin PageAt(0)
      PROVE  x \in UNION {PageAt(o) : o \in rest}
  <2>1. Place(listed, x) \notin 0 .. 0 + cap - 1
    BY <1>4 DEF PageAt, Place
  <2>2. Place(listed, x) \in Nat /\ Place(listed, x) >= cap
    BY <1>1, <1>2, <2>1
  <2>3. PICK o \in Nat : /\ o % cap = 0 /\ cap <= o
                         /\ o <= Place(listed, x) /\ Place(listed, x) < o + cap
    BY <1>1, <2>2, MultipleBelow
  <2>4. o \in rest /\ Place(listed, x) \in o .. o + cap - 1
    BY <1>1, <1>2, <2>2, <2>3
  <2>5. x \in PageAt(o)
    BY <2>4 DEF PageAt, Place
  <2>. QED BY <2>4, <2>5
<1>5. ASSUME NEW o \in rest
      PROVE  PageAt(0) \intersect PageAt(o) = {}
  <2>1. o \in Nat /\ 0 + cap <= o
    BY <1>1, <1>5
  <2>. QED BY <2>1, PagesDiffer
<1>6. PageAt(0) \in SUBSET listed
  BY PageIsFinite
<1>. HIDE DEF rest
<1>7. listed \ UNION {PageAt(o) : o \in rest} = PageAt(0)
  BY <1>4, <1>5, <1>6
<1>. QED BY <1>3, <1>7 DEF rest

-----------------------------------------------------------------------------
(* The steps of a scan of a list that stays as it is.                       *)

LEMMA SameList ==
  ASSUME UNCHANGED upstream
  PROVE  /\ listed' = listed /\ cap' = cap /\ counted' = counted
         /\ \A o : PageAt(o)' = PageAt(o) /\ Front(o)' = Front(o)
         /\ Reported' = Reported
BY DEF upstream, PageAt, Front, Place, Reported

\* A scan ends with all rows.
LEMMA EndsWhole ==
  ASSUME ScanTypes, UNCHANGED upstream, pc' \in {"done", "failed"},
         (pc' = "done" /\ (cap = Limit \/ PagesMayBeCut) => got' = Once(listed)),
         scan' = scan
  PROVE  Spreading' /\ Following' /\ Whole'
BY SameList DEF Spreading, Following, Whole, PagesMayBeCut, Once

LEMMA SpreadStep ==
  ASSUME ScanTypes, UNCHANGED <<upstream, scan>>, got' = Once(PageAt(0)),
         total' = Cardinality(listed), Spread(cap)
  PROVE  Spreading' /\ Following' /\ Whole'
<1> DEFINE rest == {o \in cap .. total' - 1 : o % cap = 0}
<1>1. /\ listed \ UNION {PageAt(o) : o \in rest} = PageAt(0)
      /\ \A o, p \in rest : o < p => o + cap <= p
  BY Listed, PagesCover
<1>2. CASE rest = {}
  <2>1. pc' \in {"done", "failed"} /\ PageAt(0) = listed
    BY <1>1, <1>2 DEF Spread, End
  <2>. QED BY <2>1, EndsWhole
<1>3. CASE rest # {}
  <2>1. pc' = "offsets" /\ todo' = rest
    BY <1>3 DEF Spread
  <2>. HIDE DEF rest
  <2>2. got' = Once(listed \ UNION {PageAt(o) : o \in todo'})
    BY <1>1, <2>1
  <2>3. \A o, p \in todo' : o < p => o + cap <= p
    BY <1>1, <2>1
  <2>4. Spreading'
    BY <2>2, <2>3, SameList DEF Spreading, Once
  <2>. QED BY <2>1, <2>4 DEF Following, Whole
<1>. QED BY <1>2, <1>3

LEMMA StableFirst ==
  ASSUME ScanTypes, First
  PROVE  Spreading' /\ Following' /\ Whole'
<1> DEFINE n == Cardinality(PageAt(0))
           N == Cardinality(listed)
<1>1. /\ UNCHANGED <<upstream, scan>> /\ Take(PageAt(0)) /\ total' = Reported
      /\ got = Once({}) /\ rows = 0
  BY DEF First, ScanTypes
<1>2. /\ N \in Nat /\ n \in 0 .. cap /\ n <= N /\ (n = cap \/ n = N)
  BY Listed, PageRows
<1>3. got' = Once(PageAt(0)) /\ rows' = n
  <2>1. got' = Once({} \union PageAt(0))
    BY <1>1, Taken
  <2>2. rows' = 0 + n
    BY <1>1 DEF Take
  <2>. QED BY <1>2, <2>1, <2>2
<1>4. PageAt(0) = Front(n) /\ (n = N => PageAt(0) = listed)
  <2>1. Front(0) \union PageAt(0) = Front(0 + n) /\ 0 + n = n
    BY <1>2, FrontGrows
  <2>. QED BY <2>1, FrontIsAll
<1>5. /\ cap \in 1 .. Limit /\ Limit \in Nat /\ (scan # "options" => perRow = 1)
      /\ scan \in {"catalog", "feed", "options"}
  BY ScanAssumption DEF ScanTypes
<1>6. /\ Reported \in {Unknown} \union Nat /\ (Reported # Unknown => Reported >= N)
      /\ (Reported # Unknown /\ perRow = 1 => Reported = N)
  BY Listed
<1>7. \/ End /\ n = 0
      \/ Spread(n) /\ scan = "feed" /\ total' # Unknown /\ n < total'
      \/ Spread(n) /\ scan = "catalog" /\ total' # Unknown /\ n = Limit
      \/ End /\ scan = "options" /\ n < Limit
      \/ Follow(n)
      \/ End /\ total' # Unknown /\ n >= total'
  BY DEF First, Spreads, IsLast
<1>. HIDE DEF n, N
<1>8. ASSUME End, cap = Limit \/ PagesMayBeCut => n = N
      PROVE  Spreading' /\ Following' /\ Whole'
  <2>1. pc' \in {"done", "failed"}
    BY <1>8 DEF End
  <2>. QED BY <1>1, <1>3, <1>4, <1>8, <2>1, EndsWhole
<1>9. ASSUME Spread(n), n = cap, total' = N
      PROVE  Spreading' /\ Following' /\ Whole'
  BY <1>1, <1>3, <1>9, SpreadStep DEF N
<1>10. CASE End /\ n = 0
  <2>1. n = N
    BY <1>2, <1>5, <1>10
  <2>. QED BY <1>8, <1>10, <2>1
<1>11. CASE Spread(n) /\ scan = "feed" /\ total' # Unknown /\ n < total'
  <2>1. total' = N /\ n = cap
    BY <1>1, <1>2, <1>5, <1>6, <1>11
  <2>. QED BY <1>9, <1>11, <2>1
<1>12. CASE Spread(n) /\ scan = "catalog" /\ total' # Unknown /\ n = Limit
  <2>1. total' = N /\ n = cap
    BY <1>1, <1>2, <1>5, <1>6, <1>12
  <2>. QED BY <1>9, <1>12, <2>1
<1>13. CASE End /\ scan = "options" /\ n < Limit
  <2>1. cap = Limit \/ PagesMayBeCut => n = N
    BY <1>2, <1>13 DEF PagesMayBeCut
  <2>. QED BY <1>8, <1>13, <2>1
<1>14. CASE Follow(n)
  <2>1. pc' = "next" /\ step' = n /\ offset' = n
    BY <1>14 DEF Follow
  <2>2. Following'
    BY <1>1, <1>2, <1>3, <1>4, <2>1, SameList DEF Following, Once, N
  <2>. QED BY <2>1, <2>2 DEF Spreading, Whole
<1>15. CASE End /\ total' # Unknown /\ n >= total'
  <2>1. n = N
    BY <1>1, <1>2, <1>6, <1>15
  <2>. QED BY <1>8, <1>15, <2>1
<1>. QED BY <1>7, <1>10, <1>11, <1>12, <1>13, <1>14, <1>15

LEMMA StableFetch ==
  ASSUME ScanTypes, Spreading, NEW o \in todo, Fetch(o)
  PROVE  Spreading' /\ Following' /\ Whole'
<1> DEFINE Out(T) == listed \ UNION {PageAt(p) : p \in T}
<1>1. /\ pc = "offsets" /\ UNCHANGED <<upstream, scan>> /\ Take(PageAt(o)) /\ o \in Nat
      /\ got = Once(Out(todo)) /\ (\A p, q \in todo : p < q => p + cap <= q)
      /\ todo \in SUBSET Nat
  BY DEF Fetch, Spreading, ScanTypes
<1>2. \A p \in todo \ {o} : PageAt(o) \intersect PageAt(p) = {}
  <2> SUFFICES ASSUME NEW p \in todo, p # o PROVE PageAt(o) \intersect PageAt(p) = {}
    OBVIOUS
  <2>1. p \in Nat /\ (o < p \/ p < o)
    BY <1>1
  <2>2. o + cap <= p \/ p + cap <= o
    BY <1>1, <2>1
  <2>. QED BY <1>1, <2>1, <2>2, PagesDiffer
<1>3. Out(todo) \union PageAt(o) = Out(todo \ {o}) /\ PageAt(o) \intersect Out(todo) = {}
  <2>1. PageAt(o) \in SUBSET listed
    BY PageIsFinite
  <2>. QED BY <1>2, <2>1
<1>4. got' = Once(Out(todo \ {o}))
  <2>. HIDE DEF Out
  <2>. QED BY <1>1, <1>3, Taken
<1>5. CASE todo = {o}
  <2>1. pc' \in {"done", "failed"} /\ Out(todo \ {o}) = listed
    BY <1>5 DEF Fetch, End
  <2>. QED BY <1>1, <1>4, <2>1, EndsWhole
<1>6. CASE todo # {o}
  <2>1. pc' = "offsets" /\ todo' = todo \ {o}
    BY <1>1, <1>6 DEF Fetch
  <2>2. Spreading'
    BY <1>1, <1>4, <2>1, SameList DEF Spreading, Once
  <2>. QED BY <2>1, <2>2 DEF Following, Whole
<1>. QED BY <1>5, <1>6

LEMMA StableNextPage ==
  ASSUME ScanTypes, Following, NextPage
  PROVE  Spreading' /\ Following' /\ Whole'
<1> DEFINE n == Cardinality(PageAt(offset))
           N == Cardinality(listed)
<1>1. /\ pc = "next" /\ UNCHANGED <<upstream, scan>> /\ Take(PageAt(offset))
      /\ offset \in Nat /\ offset <= N /\ rows = offset /\ total = Reported
      /\ got = Once(Front(offset)) /\ (scan = "feed" => step <= cap)
  BY DEF NextPage, Following, ScanTypes
<1>2. /\ N \in Nat /\ n \in 0 .. cap /\ offset + n <= N /\ (n = cap \/ offset + n = N)
  BY <1>1, Listed, PageRows
<1>3. got' = Once(Front(offset + n)) /\ rows' = offset + n
  <2>1. Front(offset) \union PageAt(offset) = Front(offset + n) /\ PageAt(offset) \intersect Front(offset) = {}
    BY <1>1, FrontGrows
  <2>2. got' = Once(Front(offset) \union PageAt(offset))
    BY <1>1, <2>1, Taken
  <2>. QED BY <1>1, <2>1, <2>2 DEF Take
<1>4. total' = Reported
  BY <1>1 DEF NextPage
<1>5. /\ cap \in 1 .. Limit /\ Limit \in Nat /\ (scan # "options" => perRow = 1)
      /\ scan \in {"catalog", "feed", "options"} /\ step \in Nat
  BY ScanAssumption DEF ScanTypes
<1>6. /\ Reported \in {Unknown} \union Nat /\ (Reported # Unknown => Reported >= N)
      /\ (Reported # Unknown /\ perRow = 1 => Reported = N) /\ (Reported # Unknown <=> counted)
  BY Listed
<1>7. \/ End /\ (n < FullPage \/ (total' # Unknown /\ offset + n >= total'))
      \/ offset' = offset + n /\ UNCHANGED <<pc, step>>
  BY DEF NextPage
<1>. HIDE DEF n, N
<1>8. CASE End /\ (n < FullPage \/ (total' # Unknown /\ offset + n >= total'))
  <2>1. pc' \in {"done", "failed"} /\ (pc' = "done" /\ scan = "catalog" => Accepts)
    BY <1>8 DEF End
  <2>2. ASSUME pc' = "done", cap = Limit \/ PagesMayBeCut
        PROVE  offset + n = N
    <3>1. CASE total' # Unknown /\ offset + n >= total'
      BY <1>1, <1>2, <1>4, <1>6, <3>1
    <3>2. CASE n < FullPage /\ (scan = "feed" \/ cap = Limit)
      <4>1. FullPage <= cap /\ FullPage \in Nat
        BY <1>1, <1>5, <3>2 DEF FullPage
      <4>. QED BY <1>2, <1>5, <3>2, <4>1
    <3>3. CASE scan = "catalog" /\ counted
      <4>1. Accepts /\ total' = N /\ total' # Unknown
        BY <1>4, <1>5, <1>6, <2>1, <2>2, <3>3
      <4>. QED BY <1>3, <4>1 DEF Accepts
    <3>. QED BY <1>8, <2>2, <3>1, <3>2, <3>3 DEF PagesMayBeCut
  <2>3. pc' = "done" /\ (cap = Limit \/ PagesMayBeCut) => got' = Once(listed)
    BY <1>3, <2>2, FrontIsAll DEF N
  <2>. QED BY <1>1, <2>1, <2>3, EndsWhole
<1>9. CASE offset' = offset + n /\ UNCHANGED <<pc, step>>
  <2>1. Following'
    BY <1>1, <1>2, <1>3, <1>4, <1>9, SameList DEF Following, Once, N
  <2>. QED BY <1>1, <1>9, <2>1 DEF Spreading, Whole
<1>. QED BY <1>7, <1>8, <1>9

LEMMA StableStep ==
  ASSUME ScanTypes, StableInv, Next
  PROVE  StableInv'
<1> SUFFICES ASSUME ~grown', ~shrunk' PROVE Spreading' /\ Following' /\ Whole'
  BY DEF StableInv
<1>1. ~ Change /\ UNCHANGED <<grown, shrunk>>
  BY DEF Next, Answered, Change, First, NextPage, Fetch, PageFails, history, ScanTypes
<1>2. Spreading /\ Following /\ Whole
  BY <1>1 DEF StableInv
<1>3. CASE PageFails
  BY <1>3 DEF PageFails, Spreading, Following, Whole
<1>. QED BY <1>1, <1>2, <1>3, StableFirst, StableFetch, StableNextPage DEF Next, Answered

LEMMA StableInit == Init => StableInv
BY DEF Init, StableInv, Spreading, Following, Whole

LEMMA ScanInvariant == Spec => [](ScanTypes /\ StableInv)
<1>1. ScanTypes /\ StableInv /\ [Next]_vars => ScanTypes' /\ StableInv'
  <2> SUFFICES ASSUME ScanTypes, StableInv, [Next]_vars PROVE ScanTypes' /\ StableInv'
    OBVIOUS
  <2>1. CASE Next
    BY <2>1, ScanTypesStep, StableStep
  <2>2. CASE UNCHANGED vars
    <3>1. UNCHANGED <<upstream, scanner, history>>
      BY <2>2 DEF vars
    <3>2. ScanTypes'
      BY <3>1 DEF upstream, scanner, history, ScanTypes
    <3>3. StableInv'
      BY <3>1, SameList DEF scanner, history, StableInv, Spreading, Following, Whole, PagesMayBeCut
    <3>. QED BY <3>2, <3>3
  <2>. QED BY <2>1, <2>2
<1>. QED BY <1>1, ScanTypesInit, StableInit, PTL DEF Spec

\* A scan of a list that does not change has every item once, in whatever order
\* its pages arrive and however short Avanza cuts them.
THEOREM StableWhole == Spec => []StableScanIsWhole
<1>1. ScanTypes /\ StableInv => StableScanIsWhole
  BY DEF StableInv, Whole, StableScanIsWhole, Once
<1>. QED BY <1>1, ScanInvariant, PTL

-----------------------------------------------------------------------------
(* A list that shrinks.                                                     *)

\* Rows that come once are counted once.
CountInv ==
  /\ IsFiniteSet(Items)
  /\ (\A x \in Items : got[x] < 2) /\ scan = "catalog" =>
       rows = Cardinality({x \in Items : got[x] > 0})

\* What the catalog has collected was on the list at the first page, and the
\* total it goes by is the length the list had then.
ShrinkInv ==
  scan = "catalog" /\ counted /\ cap = Limit =>
    /\ pc # "next"
    /\ pc = "first" => {x \in Items : got[x] > 0} = {}
    /\ pc \in {"offsets", "done"} /\ ~grown =>
         /\ listed \subseteq atFirst /\ {x \in Items : got[x] > 0} \subseteq atFirst
         /\ total = Cardinality(atFirst)
    /\ pc \in {"offsets", "done"} => total # Unknown
    /\ pc = "done" => rows = total /\ \A x \in Items : got[x] < 2

Rowed == {x \in Items : got[x] > 0}

LEMMA RowsTaken ==
  ASSUME ScanTypes, NEW o, Take(PageAt(o)), scan = "catalog"
  PROVE  /\ Rowed' = Rowed \union PageAt(o)
         /\ \A x \in Items : got'[x] < 2 => got[x] < 2 /\ (x \in PageAt(o) => x \notin Rowed)
         /\ rows' = rows + Cardinality(PageAt(o))
<1>1. got \in [Items -> 0 .. 2] /\ PageAt(o) \in SUBSET Items
  BY PageIsFinite DEF ScanTypes
<1>2. /\ rows' = rows + Cardinality(PageAt(o))
      /\ \A x \in Items : got'[x] = IF x \in PageAt(o) /\ got[x] < 2 THEN got[x] + 1 ELSE got[x]
  BY <1>1 DEF Take
<1>3. \A x \in Items : got[x] \in 0 .. 2
  BY <1>1
<1>. QED BY <1>1, <1>2, <1>3 DEF Rowed

LEMMA CountTaken ==
  ASSUME ScanTypes, CountInv, NEW o, Take(PageAt(o)), scan' = scan
  PROVE  CountInv'
<1> SUFFICES ASSUME scan = "catalog", \A x \in Items : got'[x] < 2
             PROVE  rows' = Cardinality(Rowed')
  BY DEF CountInv, Rowed
<1>1. /\ Rowed' = Rowed \union PageAt(o) /\ rows' = rows + Cardinality(PageAt(o))
      /\ (\A x \in Items : got[x] < 2) /\ PageAt(o) \intersect Rowed = {}
  BY RowsTaken, PageIsFinite DEF Rowed, ScanTypes
<1>2. rows = Cardinality(Rowed)
  BY <1>1 DEF CountInv, Rowed
<1>3. IsFiniteSet(Rowed) /\ IsFiniteSet(PageAt(o))
  <2>1. Rowed \in SUBSET Items /\ PageAt(o) \in SUBSET Items
    BY PageIsFinite DEF Rowed, ScanTypes
  <2>. QED BY <2>1, ScanAssumption, FS_Subset
<1>4. /\ Cardinality(Rowed') = Cardinality(Rowed) + Cardinality(PageAt(o)) - Cardinality(Rowed \intersect PageAt(o))
      /\ Rowed \intersect PageAt(o) = {}
  BY <1>1, <1>3, FS_Union
<1>5. Cardinality(Rowed \intersect PageAt(o)) = 0
  BY <1>4, FS_EmptySet
<1>6. Cardinality(Rowed) \in Nat /\ Cardinality(PageAt(o)) \in Nat
  BY <1>3, FS_CardinalityType
<1>. QED BY <1>1, <1>2, <1>4, <1>5, <1>6

LEMMA CountStep ==
  ASSUME ScanTypes, CountInv, [Next]_vars
  PROVE  CountInv'
<1>1. CASE First \/ NextPage \/ \E o \in todo : Fetch(o)
  <2>1. scan' = scan /\ \E o : Take(PageAt(o))
    BY <1>1 DEF First, NextPage, Fetch
  <2>. QED BY <2>1, CountTaken
<1>2. CASE PageFails \/ Change \/ UNCHANGED vars
  BY <1>2 DEF PageFails, Change, vars, scanner, CountInv
<1>. QED BY <1>1, <1>2 DEF Next, Answered

\* A catalog's scan ends with as many rows as its total, none of them twice.
LEMMA EndAccepts ==
  ASSUME ScanTypes', End, scan = "catalog", pc' = "done", total' # Unknown
  PROVE  rows' = total' /\ \A x \in Items : got'[x] < 2
BY DEF End, Accepts

LEMMA ShrinkFirst ==
  ASSUME ScanTypes, ScanTypes', ShrinkInv, First
  PROVE  ShrinkInv'
<1> SUFFICES ASSUME scan = "catalog", counted, cap = Limit PROVE ShrinkInv'
  BY DEF First, upstream, ShrinkInv
<1> DEFINE n == Cardinality(PageAt(0))
<1>1. /\ Take(PageAt(0)) /\ total' = Reported /\ atFirst' = listed /\ pc = "first"
      /\ UNCHANGED <<scan, grown, shrunk, listed, cap, counted>>
  BY DEF First, upstream
<1>2. Rowed' \subseteq listed
  <2>1. Rowed = {}
    BY <1>1 DEF ShrinkInv, Rowed
  <2>. QED BY <1>1, <2>1, RowsTaken, PageIsFinite
<1>3. total' = Cardinality(listed) /\ total' # Unknown /\ total' \in Nat
  <2>1. perRow = 1
    BY DEF ScanTypes
  <2>. QED BY <1>1, <2>1, Listed
<1>4. n \in 0 .. cap /\ (n = cap \/ n = Cardinality(listed))
  BY Listed, PageRows
<1>5. End \/ (Spread(n) /\ n = Limit)
  <2>1. n # 0 /\ n < total' => n = Limit
    BY <1>3, <1>4
  <2>2. Spreads(n) \/ IsLast(n)
    BY <1>3, <1>4, <2>1 DEF Spreads, IsLast
  <2>. QED BY <2>2 DEF First, Spreads
<1>6. pc' \in {"offsets", "done", "failed"} /\ (pc' = "done" => End)
  BY <1>5 DEF Spread, End
<1>. QED BY <1>1, <1>2, <1>3, <1>6, EndAccepts DEF ShrinkInv, Rowed

LEMMA ShrinkFetch ==
  ASSUME ScanTypes, ScanTypes', ShrinkInv, NEW o \in todo, Fetch(o)
  PROVE  ShrinkInv'
<1> SUFFICES ASSUME scan = "catalog", counted, cap = Limit PROVE ShrinkInv'
  BY DEF Fetch, upstream, ShrinkInv
<1>1. /\ Take(PageAt(o)) /\ pc = "offsets" /\ total' = total
      /\ UNCHANGED <<scan, grown, atFirst, listed, cap, counted>>
      /\ pc' \in {"offsets", "done", "failed"} /\ (pc' = "done" => End)
  BY DEF Fetch, End, upstream, history
<1>2. ~grown => /\ listed \subseteq atFirst /\ Rowed \subseteq atFirst
               /\ total = Cardinality(atFirst)
  BY <1>1 DEF ShrinkInv, Rowed
<1>3. ~grown => Rowed' \subseteq atFirst
  BY <1>1, <1>2, RowsTaken, PageIsFinite
<1>4. pc' = "done" => rows' = total' /\ \A x \in Items : got'[x] < 2
  <2> SUFFICES ASSUME pc' = "done" PROVE total' # Unknown
    BY <1>1, EndAccepts
  <2>. QED BY <1>1 DEF ShrinkInv
<1>. QED BY <1>1, <1>2, <1>3, <1>4 DEF ShrinkInv, Rowed

LEMMA ShrinkStep ==
  ASSUME ScanTypes, ScanTypes', ShrinkInv, [Next]_vars
  PROVE  ShrinkInv'
<1>1. CASE NextPage
  BY <1>1 DEF NextPage, upstream, ShrinkInv
<1>2. CASE PageFails
  BY <1>2 DEF PageFails, upstream, ShrinkInv
<1>3. CASE Change
  <2>1. /\ UNCHANGED <<scan, cap, counted, pc, got, total, atFirst, rows>> /\ pc \in {"offsets", "next"}
        /\ (~grown' => ~grown /\ listed' \subseteq listed)
    BY <1>3 DEF Change, scanner, ScanTypes
  <2>. QED BY <2>1 DEF ShrinkInv
<1>4. CASE UNCHANGED vars
  BY <1>4 DEF vars, upstream, scanner, history, ShrinkInv
<1>. QED BY <1>1, <1>2, <1>3, <1>4, ShrinkFirst, ShrinkFetch DEF Next, Answered

LEMMA ShrinkInvariant == Spec => [](CountInv /\ ShrinkInv)
<1>1. Init => CountInv /\ ShrinkInv
  <2> SUFFICES ASSUME Init PROVE CountInv /\ ShrinkInv
    OBVIOUS
  <2>1. {x \in Items : got[x] > 0} = {} /\ rows = 0 /\ pc = "first"
    BY DEF Init
  <2>. QED BY <2>1, ScanAssumption, FS_EmptySet DEF CountInv, ShrinkInv
<1>2. ScanTypes /\ ScanTypes' /\ CountInv /\ ShrinkInv /\ [Next]_vars => CountInv' /\ ShrinkInv'
  BY CountStep, ShrinkStep
<1>. QED BY <1>1, <1>2, ScanInvariant, PTL DEF Spec

\* A catalog that is accepted has everything that was listed when its scan began,
\* even if the list shrank under it.
THEOREM ShrinkingSeen == Spec => []ShrinkingIsNoticed
<1>1. ScanTypes /\ CountInv /\ ShrinkInv => ShrinkingIsNoticed
  <2> SUFFICES ASSUME ScanTypes, CountInv, ShrinkInv,
                      scan = "catalog", pc = "done", counted, cap = Limit, ~grown
               PROVE  {x \in Items : got[x] > 0} = atFirst
    BY DEF ShrinkingIsNoticed
  <2>1. /\ Rowed \subseteq atFirst /\ Cardinality(Rowed) = Cardinality(atFirst)
    BY DEF CountInv, ShrinkInv, Rowed
  <2>2. IsFiniteSet(atFirst)
    BY ScanAssumption, FS_Subset DEF ScanTypes
  <2>. QED BY <2>1, <2>2, FS_Subset DEF Rowed
<1>. QED BY <1>1, ScanInvariant, ShrinkInvariant, PTL

-----------------------------------------------------------------------------
(* The catalog beside its readers.                                          *)

CatalogInv ==
  /\ instruments \in SUBSET Items /\ before \in SUBSET Items /\ crossed \in BOOLEAN
  /\ writer # "scans" => pc = "done" /\ scan = "catalog"
  /\ instruments = before \/ (writer = "done" /\ instruments = Collected)
  /\ reader # "idle" => writer # "scans"
  /\ reader = "counted" /\ ~crossed => count = Cardinality(instruments \intersect Asked)
  /\ reader = "listed" /\ ~crossed =>
       \/ list = before \intersect Asked
       \/ writer = "done" /\ list = Collected \intersect Asked

\* No limit that is as long as the list cuts it.
LEMMA AllRows ==
  ASSUME NEW S \in SUBSET Nat, IsFiniteSet(S)
  PROVE  FirstRows(S, Cardinality(S)) = S
<1>1. \A x \in S : Place(S, x) \in 0 .. Cardinality(S) - 1
  BY PlaceBounds
<1>2. Cardinality(S) \in Nat
  BY FS_CardinalityType
<1>3. \A x \in S : Place(S, x) < Cardinality(S)
  BY <1>1, <1>2
<1>. QED BY <1>3 DEF FirstRows, Place

LEMMA ScanStep ==
  ASSUME ScanTypes, CatalogInv, [Next]_vars, UNCHANGED catalogVars
  PROVE  CatalogInv'
<1>1. UNCHANGED <<instruments, refreshed, writer, reader, count, list, before, crossed>>
  BY DEF catalogVars, file, reading
<1>2. CASE writer = "scans"
  BY <1>1, <1>2 DEF CatalogInv
<1>3. CASE writer # "scans"
  <2>1. pc = "done"
    BY <1>3 DEF CatalogInv
  <2>2. UNCHANGED vars
    BY <2>1 DEF Next, Answered, First, NextPage, Fetch, PageFails, Change
  <2>3. UNCHANGED <<pc, scan, got>>
    BY <2>2 DEF vars, scanner
  <2>. QED BY <1>1, <2>3 DEF CatalogInv, Collected
<1>. QED BY <1>2, <1>3

LEMMA FileStep ==
  ASSUME ScanTypes, CatalogInv, Refresher \/ Age
  PROVE  CatalogInv'
<1>1. Refresher \/ Age => UNCHANGED <<pc, scan, got>> /\ UNCHANGED <<reader, count, list, before>>
  BY DEF Refresher, Begin, Commit, Die, Age, vars, scanner, reading
<1>2. Collected' = Collected
  BY <1>1 DEF Collected
<1>3. CASE Begin \/ Die \/ Age
  BY <1>1, <1>2, <1>3 DEF Begin, Die, Age, file, CatalogInv
<1>4. CASE Commit
  <2>1. /\ instruments' = Collected /\ writer' = "done" /\ writer = "writes"
        /\ (~crossed' => ~crossed /\ reader # "counted")
    BY <1>4 DEF Commit, CatalogInv
  <2>2. Collected \in SUBSET Items
    BY DEF Collected
  <2>3. crossed' \in BOOLEAN
    BY <1>4 DEF Commit
  <2>4. instruments' \in SUBSET Items /\ before' \in SUBSET Items
    BY <1>1, <2>1, <2>2 DEF CatalogInv
  <2>5. writer' # "scans" => pc' = "done" /\ scan' = "catalog"
    BY <1>1, <2>1 DEF CatalogInv
  <2>6. instruments' = before' \/ (writer' = "done" /\ instruments' = Collected')
    BY <1>2, <2>1
  <2>7. reader' = "counted" => crossed'
    BY <1>1, <2>1
  <2>8. reader' = "listed" /\ ~crossed' =>
          \/ list' = before' \intersect Asked
          \/ writer' = "done" /\ list' = Collected' \intersect Asked
    BY <1>1, <1>2, <2>1 DEF CatalogInv
  <2>. QED BY <2>1, <2>3, <2>4, <2>5, <2>6, <2>7, <2>8 DEF CatalogInv
<1>. QED BY <1>3, <1>4 DEF Refresher

LEMMA ServerStep ==
  ASSUME ScanTypes, CatalogInv, Server
  PROVE  CatalogInv'
<1>1. /\ UNCHANGED <<pc, scan, got, instruments, writer, before>>
      /\ Collected' = Collected
  BY DEF Server, Check, Count, Find, Reads, vars, scanner, file, Collected
<1>2. CASE Check
  <2>1. reader' \in {"fresh", "feed"} /\ writer # "scans"
    BY <1>2 DEF Check, Reads
  <2>2. crossed' \in BOOLEAN
    BY <1>2 DEF Check
  <2>. QED BY <1>1, <2>1, <2>2 DEF CatalogInv
<1>3. CASE Count
  <2>1. /\ reader' \in {"counted", "feed"} /\ reader = "fresh"
        /\ count' = Cardinality(instruments \intersect Asked)
    BY <1>3 DEF Count, Reads
  <2>2. crossed' \in BOOLEAN /\ writer # "scans"
    BY <1>3, <2>1 DEF Count, CatalogInv
  <2>. QED BY <1>1, <2>1, <2>2 DEF CatalogInv
<1>4. CASE Find
  <2>1. /\ reader' \in {"listed", "feed"} /\ reader = "counted" /\ crossed' = crossed
        /\ list' = FirstRows(instruments \intersect Asked, count)
    BY <1>4 DEF Find, Reads
  <2>2. ~crossed => list' = instruments \intersect Asked
    <3>1. instruments \intersect Asked \in SUBSET Items /\ Items \subseteq Nat /\ IsFiniteSet(Items)
      BY ScanAssumption DEF CatalogInv
    <3>2. IsFiniteSet(instruments \intersect Asked)
      BY <3>1, FS_Subset
    <3>3. FirstRows(instruments \intersect Asked, Cardinality(instruments \intersect Asked)) = instruments \intersect Asked
      BY <3>1, <3>2, AllRows
    <3>. QED BY <2>1, <3>3 DEF CatalogInv
  <2>. QED BY <1>1, <2>1, <2>2 DEF CatalogInv
<1>. QED BY <1>2, <1>3, <1>4 DEF Server

LEMMA CatalogScans == SpecCatalog => Spec
<1>1. [NextCatalog]_<<vars, catalogVars>> => [Next]_vars
  BY DEF NextCatalog, Refresher, Begin, Commit, Die, Age, Server, Check, Count, Find, Reads
<1>. QED BY <1>1, PTL DEF SpecCatalog, Spec, InitCatalog

\* The products the screen takes from the catalog are all that the underlying has
\* in one catalog, whole, whatever the refresher does between the screen's reads.
THEOREM ServedWhole == SpecCatalog => []ServedListIsWhole
<1>1. InitCatalog => CatalogInv
  BY CatalogAssumption DEF InitCatalog, Init, CatalogInv
<1>2. ScanTypes /\ CatalogInv /\ [NextCatalog]_<<vars, catalogVars>> => CatalogInv'
  <2>1. UNCHANGED <<vars, catalogVars>> => [Next]_vars /\ UNCHANGED catalogVars
    OBVIOUS
  <2>. QED BY <2>1, ScanStep, FileStep, ServerStep DEF NextCatalog
<1>3. CatalogInv /\ ShrinkingIsNoticed => ServedListIsWhole
  BY DEF CatalogInv, ShrinkingIsNoticed, ServedListIsWhole, Collected
<1>. QED BY <1>1, <1>2, <1>3, CatalogScans, ScanInvariant, ShrinkingSeen, PTL DEF SpecCatalog
================================================================================
