SPECIFICATION FairSpec
CONSTANTS
  None = None
  Plan = Plan
  location = location
  year = year
  attachment = attachment
  cost = cost
  entity = entity
  m1 = m1
  m2 = m2
  p1 = p1
  p2 = p2
  TableOf <- MCTableOf
  BaseOf <- MCBaseOf
  AttachmentOf <- MCAttachmentOf
  PeriodOf <- MCPeriodOf
  PeriodNumber <- MCPeriodNumber
  Request = {r1}
  BaseRow <- EditBase
  VersionRow <- EditVersion
  Period = {p1}
  CostAttachment = {}
  Inputs <- EditInputs
  InitialRow <- EditInitial
  InitialPeriod = {p1}
  Deletable <- EditDeletable
  ChunkSize = 1
  MaxTime = 3
  Lone = {r1}
INVARIANT VersionsSettled
INVARIANT BaseRowsSettled
PROPERTY RequestsEnd
CHECK_DEADLOCK FALSE
