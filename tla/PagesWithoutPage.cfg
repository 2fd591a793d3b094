SPECIFICATION FairSpec
CONSTANTS
  NoPage = NoPage
  NaN = NaN
  Item <- MCItem
  Stored <- FourRows
  Deleted = {}
  Kinds = {"onlyFlow"}
  Calls <- ExportWithoutPage
  BatchLimit = 2
  MaxWrites = 0
  MaxExported = 4
  MaxPages = 5
PROPERTY CallsEnd
CHECK_DEADLOCK FALSE
