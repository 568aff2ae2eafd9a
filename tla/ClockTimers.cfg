SPECIFICATION FairSpec
CONSTANTS
    t1 = t1
    t2 = t2
    Tasks <- TwoTasks
    Boot = {t1}
    Holders <- TwoTasks
    Cleanup = cleanup
    TimerQuota <- Quotas
    MaxLiveTimers = 2
    Delays = {0, 1, 9}
    CleanupDelay = 1
    MaxInstant = 8
    Platforms = {"level", "rtc", "hpet"}
    MaxArms = 3
    Horizon = 2
    MaxFaults = 1
CHECK_DEADLOCK FALSE
INVARIANT WakeArmed
INVARIANT CleanupNeverRefused
INVARIANT WakesAccounted
PROPERTY DeadNeverSignalled
PROPERTY TimersFire
