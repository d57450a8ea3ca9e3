SPECIFICATION FairSpec
CONSTANTS
  Schedules = {s1, s2}
  First = s1
  Targets = {g, t}
  Everyone = everyone
  UserTargets = {t}
  Source = g
  Users = {u1}
  Resolvers = {r1, r2}
  Editors = {e1}
  Nobody = Nobody
  MaxEdits = 2
  Returning = {u1}
  MaxFaults = 1
CONSTRAINT RacesOrResend
CHECK_DEADLOCK FALSE
INVARIANTS TypeOK NobodyForgotten UnstartedReachedNobody
PROPERTIES RecipientsClosed ImplementsNoticeLife StartedIsKept EveryDueScheduleGetsOn
