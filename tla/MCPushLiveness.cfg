SPECIFICATION FairSpec
CONSTANTS
  d1 = d1
  s1 = s1
  t1 = t1
  t2 = t2
  Schedules = {s1}
  Deliveries = {d1}
  Tokens = {t1}
  Consumers = {c1}
  ScheduleOf <- ScheduleMap
  TokenOf <- TokenMap
  Offsets = {1}
  Window = 1
  Timeout = 0
  ConfigDelay = 1
  RetryAfters = {0}
  Outcomes = {"accepted", "temporary", "configuration"}
  BatchSize = 1
  ClaimLimit = 1
  Null = Null
  MaxStall = 1
  MaxUpsets = 1
PROPERTIES EveryDeliverySettles EveryScheduleEnds
