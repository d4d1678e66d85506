\* Leveraged: two clients, up to five products in batches of two.  Options: three
\* clients, up to three contracts of two expiries, read a row at a time and given in
\* pages of two, one change.
SPECIFICATION FairScreens
CONSTANTS
  Clients = {1, 2}
  MaxTotal = 5
  Batch = 2
  Readers = {1, 2, 3}
  Contracts = {1, 2, 3}
  Types = {1, 2}
  Expiries = {1, 2}
  TypeOf <- MCTypeOf
  ExpiryOf <- MCExpiryOf
  Concurrent = 2
  MatrixPage = 1
  PageSize = 2
  MaxChanges = 1
  None = None
INVARIANTS
  RankingIsComplete
  OnceUnlessOverlapping
  ChainIsComplete
  PagesOfOneRanking
PROPERTIES
  ScanCompletes
CHECK_DEADLOCK FALSE
