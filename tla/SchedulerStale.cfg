SPECIFICATION Spec
CONSTANTS
  MaxTid = 4
  MaxPid = 2
  SleepTimes <- MCSleepTimes
  QueueCap = 3
  LongUptime = FALSE
  WakeRunning = TRUE
INVARIANT NoStaleSchedule
