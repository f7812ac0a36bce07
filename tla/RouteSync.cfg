\* Safety of one daemon: a prefix in each family, one of them with a local best
\* path; two failing calls and one outside change at any time.
SPECIFICATION Spec
CONSTANTS
  V4 = {p4}
  V6 = {p6}
  LocalPath = {p6}
  Plans = {"c1"}
  Handlers = {h1}
  MaxFaults = 2
  MaxChanges = 1
INVARIANTS TypeOK LockDiscipline SyncedMeansEqual
 
