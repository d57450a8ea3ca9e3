SPECIFICATION Spec
CONSTANTS
  Savers = {p1, p2}
  Cron = cron
  Times = {2}
  Unset = Unset
  Saved = {2, Unset}
  Lead = 1
  Cut = 1
  Hour = 2
  Attempts = 3
  None = None
  Horizon = 2
  MaxSaves = 2
  MaxFaults = 0
SYMMETRY SaverSymmetry
INVARIANTS StaleIsBeingSynced
CHECK_DEADLOCK FALSE
