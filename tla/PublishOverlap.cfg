SPECIFICATION Spec
CONSTANTS
  None = None
  Plan = Plan
  location = location
  year = year
  attachment = attachment
  cost = cost
  entity = entity
  m1 = m1
  m2 = m2
  p1 = p1
  p2 = p2
  TableOf <- MCTableOf
  BaseOf <- MCBaseOf
  AttachmentOf <- MCAttachmentOf
  PeriodOf <- MCPeriodOf
  PeriodNumber <- MCPeriodNumber
  Request = {r1, r2, r3}
  BaseRow <- OverlapBase
  VersionRow <- OverlapVersion
  Period = {p1}
  CostAttachment = {}
  Inputs <- OverlapInputs
  InitialRow <- OverlapInitial
  InitialPeriod = {p1}
  Deletable = {}
  ChunkSize = 1
  MaxTime = 1
  Lone = {r3}
INVARIANT VersionsSettled
INVARIANT BaseRowsSettled
INVARIANT NoPhantomTags
INVARIANT CurrentIsPublished
PROPERTY CurrentNeverVanishes
SYMMETRY OverlappingAreAlike
CHECK_DEADLOCK FALSE
