SPECIFICATION Spec
CONSTANTS
  None = None
  Flow = {1, 2}
  MaxVersion = 2
  Category = {1, 2, 3}
  CategoryGroup <- MCCategoryGroup
  CategoryName <- MCCategoryName
  ShortcutMatches <- MCShortcutMatches
  ObjectType = {"organization", "location", "usageYear"}
  ObjectID = {1, 2}
  Requests <- ThreeFilterRequests
  RecentYear = {1, 2}
INVARIANT AnswerPassesAllFilters
CHECK_DEADLOCK FALSE
