CONSTANTS
  a1 = a1  a2 = a2  x1 = x1  x2 = x2  d1 = d1  d2 = d2
  og1 = og1  og2 = og2  ol = ol  oy = oy  op1 = op1  op2 = op2
  op3 = op3  os = os  ot = ot  r1 = r1  r2 = r2  rp = rp  rq = rq
  rd1 = rd1  rd2 = rd2  rd3 = rd3  link = link  parked = parked  paid = paid
  email = email  org1 = org1  org2 = org2  loc = loc  year = year  plan1 = plan1
  plan2 = plan2  v1 = v1  v2 = v2  w1 = w1  None = None
  ActiveFlow = {a1, a2}
  ExternalReference = {x1, x2}
  ReportDetail = {d1, d2}
  FlowObject = {og1, og2, ol, oy, op1, op2, op3, os, ot}
  FlowRef = {r1, r2, rp, rq}
  DetailRef = {rd1, rd2, rd3}
  FlowLink = {link}
  Category = {parked, paid, email}
  Organization = {org1, org2}
  Location = {loc}
  UsageYear = {year}
  Plan = {plan1, plan2}
  PlanVersion = {v1, v2, w1}
  FlowVersion <- MCFlowVersion
  Owner <- MCOwner
  Direction <- MCDirection
  ObjectOf <- MCObjectOf
  RefersTo <- MCRefersTo
  CategoryOf <- MCCategoryOf
  ParentOf <- MCParentOf
  ChildOf <- MCChildOf
  PlanOf <- MCPlanOf
  ParkedCategory = parked
  Requests <- MCRequests
SPECIFICATION FairSpec
INVARIANTS TypeOK RowsKept NothingForeign PlansKeepShowing ChannelsShown SourcesShown FailsForCause
PROPERTIES ReaderSpec PageEnds
CHECK_DEADLOCK FALSE
