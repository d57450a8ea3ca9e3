SPECIFICATION Spec
CONSTANTS
  Savers = {p1, p2}
  Cron = cron
  Times = {2, 3}
  Unset = Unset
  Saved = {2, 3}
  Lead = 1
  Cut = 1
  Hour = 2
  Attempts = 3
  None = None
  Horizon = 2
  MaxSaves = 3
  MaxFaults = 0
SYMMETRY SaverSymmetry
INVARIANTS TypeOK AtMostOneNotice NoOrphanNotice StaleIsBeingSynced
PROPERTIES ImplementsNoticeLife
CHECK_DEADLOCK FALSE
