SPECIFICATION Spec
CONSTANTS
  d1 = d1
  s1 = s1
  t1 = t1
  t2 = t2
  Schedules = {s1}
  Deliveries = {d1}
  Tokens = {t1}
  Consumers = {c1}
  ScheduleOf <- ScheduleMap
  TokenOf <- TokenMap
  Offsets = {1, 2}
  Window = 3
  Timeout = 0
  ConfigDelay = 1
  RetryAfters = {0, 2}
  Outcomes = {"accepted", "lost", "temporary", "permanent", "unregistered", "configuration"}
  BatchSize = 1
  ClaimLimit = 1
  Null = Null
  MaxStall = 1
  MaxUpsets = 1
SYMMETRY ConsumerSymmetry
INVARIANTS TypeOK NoStrandedDelivery AttemptsBounded
PROPERTIES ImplementsLifecycle
