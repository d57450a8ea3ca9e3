SPECIFICATION Spec
CONSTANTS
  d1 = d1
  s1 = s1
  t1 = t1
  t2 = t2
  Schedules = {s1}
  Deliveries = {d1}
  Tokens = {t1}
  Consumers = {c1, c2}
  ScheduleOf <- ScheduleMap
  TokenOf <- TokenMap
  Offsets = {1}
  Window = 5
  Timeout = 0
  ConfigDelay = 2
  RetryAfters = {0}
  Outcomes = {"accepted", "configuration"}
  BatchSize = 1
  ClaimLimit = 1
  Null = Null
  MaxStall = 4
  MaxUpsets = 1
SYMMETRY ConsumerSymmetry
INVARIANTS FenceNamesHolder
