\* Two interfaces of one site, each of which may vanish and return.
SPECIFICATION FairSpec
CONSTANTS
  Iface = {"wg4", "wg6"}
  Site = {"s"}
  SiteOf <- OneSite
  MaxChanges = 2
INVARIANTS TypeOK OpenWorkersOwned
PROPERTIES StoppedWorkersExit ReportsInTheEnd
