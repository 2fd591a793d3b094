SPECIFICATION Spec
CONSTANTS
  None = None
  Plan = Plan
  location = location
  year = year
  attachment = attachment
  cost = cost
  entity = entity
  m1 = m1
  m2 = m2
  p1 = p1
  p2 = p2
  TableOf <- MCTableOf
  BaseOf <- MCBaseOf
  AttachmentOf <- MCAttachmentOf
  PeriodOf <- MCPeriodOf
  PeriodNumber <- MCPeriodNumber
  Request = {r1}
  BaseRow <- FreshBase
  VersionRow <- FreshVersion
  Period = {p1}
  CostAttachment = {}
  Inputs <- FreshInputs
  InitialRow = {}
  InitialPeriod = {}
  Deletable = {}
  ChunkSize = 1
  MaxTime = 1
  Lone = {}
INVARIANT TypeOK
INVARIANT LastPublishedIsPublished
CHECK_DEADLOCK FALSE
