SPECIFICATION FairSpec
CONSTANTS
  Site = {0, 1, 2}
  Self = 1
  Rows <- MCRows
  Handlers = {1, 2}
  MaxFaults = 1
INVARIANTS
  TypeOK
  NoStaleHop
  PlanReported
PROPERTIES
  PlanFollowed
  ImplementsPlanCell
