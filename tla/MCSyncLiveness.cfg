SPECIFICATION FairSpec
CONSTANTS
  Savers = {p1}
  Cron = cron
  Times = {2, 3}
  Unset = Unset
  Saved = {2, 3, Unset}
  Lead = 1
  Cut = 1
  Hour = 2
  Attempts = 3
  None = None
  Horizon = 4
  MaxSaves = 2
  MaxFaults = 1
PROPERTIES EveryNoticeGoes
CHECK_DEADLOCK FALSE
