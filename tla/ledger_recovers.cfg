CONSTANTS
  MaxRecord = 3
  Legacy    = {"receipts"}
  MaxStarts = 3
SPECIFICATION Spec
CHECK_DEADLOCK FALSE
INVARIANTS AckedIsKept MemoryIsFile ChainHolds OpensAgain
PROPERTY ImplementsSqlite
