\* One failing call during the initial run.
SPECIFICATION Spec
CONSTANTS
  V4 = {p4}
  V6 = {p6}
  LocalPath = {}
  Plans = {"c1"}
  Handlers = {}
  MaxFaults = 1
  MaxChanges = 0
PROPERTIES RemovesOnlyOutdated
