\* Expected violation: a rescan keeps prev_proc of a PID that exited.
CONSTANTS
    Pids <- MC_Pids
    MaxGen <- MC_MaxGen
    ScanTicks <- MC_ScanTicks
    Undecodable <- MC_Clean
SPECIFICATION Spec
INVARIANT DeltaSameIncarnation
