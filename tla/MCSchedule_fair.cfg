SPECIFICATION ScheduleSpec
CONSTANTS
  Jobs = {j1, j2}
  Keys = {k1}
  NoKey = NoKey
  Schedulers = {s1, s2}
  Workers = {w1}
  Limit = 2
  MaxAttempts = 2
  LateBatches = FALSE
  MaxFaults = 1
  MaxChanges = 0
  MaxRequeues = 1
ACTION_CONSTRAINT OneIncident
INVARIANTS OncePerPeriod
PROPERTIES JobsFinish PeriodIsServed
CHECK_DEADLOCK FALSE
