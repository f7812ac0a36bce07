SPECIFICATION FairSpec
CONSTANTS
  Site = {0, 1, 2}
  Candidates = {0, 1}
  Plans <- MCPlans
  Attempts = 1
  MaxFaults = 1
  MaxChanges = 2
INVARIANTS
  TypeOK
  NoLoopOnceSettled
PROPERTIES
  StableLeaderConverges
  SitesAreCells
