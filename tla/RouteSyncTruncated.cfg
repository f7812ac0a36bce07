\* A BIRD connection that breaks in the middle of an answer, in a periodic sync.
SPECIFICATION Spec
CONSTANTS
  V4 = {p4}
  V6 = {p6}
  LocalPath = {}
  Plans = {"c1"}
  Handlers = {}
  MaxFaults = 1
  MaxChanges = 0
PROPERTIES SyncRemovesOnlyOutdated
