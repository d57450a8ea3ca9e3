SPECIFICATION Spec
CONSTANTS
  Savers = {p1}
  Cron = cron
  Times = {1, 3}
  Unset = Unset
  Saved = {1, 3}
  Lead = 1
  Cut = 1
  Hour = 2
  Attempts = 3
  None = None
  Horizon = 2
  MaxSaves = 2
  MaxFaults = 0
PROPERTIES ReleasedInSync
CHECK_DEADLOCK FALSE
