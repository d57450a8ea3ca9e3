SPECIFICATION Spec
CONSTANTS
  Schedules = {s1}
  First = s1
  Targets = {g, t}
  Everyone = everyone
  UserTargets = {t}
  Source = g
  Users = {u1}
  Resolvers = {r1, r2}
  Editors = {e1}
  Nobody = Nobody
  MaxEdits = 1
  Returning = {}
  MaxFaults = 0
SYMMETRY Symmetry
PROPERTIES NoEmptyAudience
CHECK_DEADLOCK FALSE
