\* Any list of up to six items, pages of two, two changes; three of the items
\* are asked for, and an earlier refresh may have left two.
SPECIFICATION FairCatalog
CONSTANTS
  Items = {1, 2, 3, 4, 5, 6}
  Limit = 2
  Concurrent = 2
  MaxChanges = 2
  Asked = {1, 3, 5}
  Earlier = {{}, {1, 2}}
INVARIANTS
  StableScanIsWhole
  ShrinkingIsNoticed
  ServedListIsWhole
PROPERTIES
  ScanEnds
CHECK_DEADLOCK FALSE
