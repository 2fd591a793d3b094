SPECIFICATION FairSpec
CONSTANTS
  NoPage = NoPage
  NaN = NaN
  Item <- MCItem
  Stored <- MCStored
  Deleted = {1, 2}
  Kinds = {"onlyFlow", "flowFilter", "otherFilter"}
  Calls <- AllCalls
  BatchLimit = 1
  MaxWrites = 2
  MaxExported = 12
  MaxPages = 5
INVARIANT TypeOK
INVARIANT ExactWhenQuiet
INVARIANT PagesFit
INVARIANT UntouchedExported
INVARIANT LastPageReachesEnd
INVARIANT OncePerPage
INVARIANT ExportWithinTable
PROPERTY CallsEnd
CHECK_DEADLOCK FALSE
