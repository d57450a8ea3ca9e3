SPECIFICATION Spec
CONSTANTS
  d1 = d1
  s1 = s1
  t1 = t1
  t2 = t2
  Schedules = {s1}
  Deliveries = {d1, d2}
  Tokens = {t1, t2}
  Consumers = {c1, c2}
  ScheduleOf <- ScheduleMap
  TokenOf <- TokenMap
  Offsets = {1}
  Window = 1
  Timeout = 0
  ConfigDelay = 1
  RetryAfters = {0}
  Outcomes = {"accepted", "lost", "temporary", "unregistered"}
  BatchSize = 1
  ClaimLimit = 1
  Null = Null
  MaxStall = 1
  MaxUpsets = 0
SYMMETRY ConsumerSymmetry
INVARIANTS HonestOutcome FreshLeaseIsExclusive FenceNamesHolder StatusesAgree
CONSTRAINT OneRaceAtATime
