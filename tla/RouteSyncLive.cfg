\* Liveness of one daemon under the scheduler's fairness: one prefix, one failing
\* call, one outside change.
SPECIFICATION FairSpec
CONSTANTS
  V4 = {p4}
  V6 = {}
  LocalPath = {}
  Plans = {"c1"}
  Handlers = {h1}
  MaxFaults = 1
  MaxChanges = 1
PROPERTIES SignalServed ConvergesWithoutLeader DeletedRouteHealed
