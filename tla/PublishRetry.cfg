SPECIFICATION Spec
CONSTANTS
  None = None
  Plan = Plan
  location = location
  year = year
  attachment = attachment
  cost = cost
  entity = entity
  m1 = m1
  m2 = m2
  p1 = p1
  p2 = p2
  TableOf <- MCTableOf
  BaseOf <- MCBaseOf
  AttachmentOf <- MCAttachmentOf
  PeriodOf <- MCPeriodOf
  PeriodNumber <- MCPeriodNumber
  Request = {r1, r2}
  BaseRow <- RetryBase
  VersionRow <- RetryVersion
  Period = {p1, p2}
  CostAttachment = {}
  Inputs <- RetryInputs
  InitialRow <- RetryInitial
  InitialPeriod = {p1, p2}
  Deletable = {}
  ChunkSize = 1
  MaxTime = 3
  Lone = {r1, r2}
INVARIANT NamesIncrease
INVARIANT VersionsSettled
PROPERTY TagsNeverLost
PROPERTY CurrentNeverVanishes
PROPERTY LogSpec
PROPERTY LastPublishedNeverRegresses
CHECK_DEADLOCK FALSE
