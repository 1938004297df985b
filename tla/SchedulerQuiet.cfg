SPECIFICATION FairSpec
CONSTANTS
  MaxTid = 4
  MaxPid = 2
  SleepTimes <- MCSleepTimes
  QueueCap = 3
  LongUptime = FALSE
  WakeRunning = FALSE
INVARIANTS QueueDiscipline NoStaleSchedule NoOverdueSleeper
PROPERTIES SleepRespected EveryThreadRuns
