CONSTANTS
    MinDt <- MC_MinDt
    SlowPeriod <- MC_SlowPeriod
    ScanPeriod <- MC_ScanPeriod
    Duration <- MC_Duration
    SleepMin <- MC_SleepMin
    SleepMax <- MC_SleepMax
    Fallible <- MC_Fallible
SPECIFICATION Spec
INVARIANT TypeOK
PROPERTY Cadence
\* collect() returns: the loop has nothing left to do once pc = "done".
CHECK_DEADLOCK FALSE
