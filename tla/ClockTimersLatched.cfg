SPECIFICATION Spec
CONSTANTS
    t1 = t1
    t2 = t2
    Tasks <- TwoTasks
    Boot = {t1}
    Holders <- TwoTasks
    Cleanup = cleanup
    TimerQuota <- Quotas
    MaxLiveTimers = 2
    Delays = {0, 1, 9}
    CleanupDelay = 1
    MaxInstant = 8
    Platforms = {"rtc", "hpet"}
    MaxArms = 3
    Horizon = 2
    MaxFaults = 0
CHECK_DEADLOCK FALSE
INVARIANT NoWakeWindow
