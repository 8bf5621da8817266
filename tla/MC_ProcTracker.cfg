\* Tracking on a process table where comm or cmdline may not decode.
CONSTANTS
    Pids <- MC_Pids
    MaxGen <- MC_MaxGen
    ScanTicks <- MC_ScanTicks
    Undecodable <- MC_BadNames
SPECIFICATION Spec
INVARIANT TypeOK
PROPERTY EventuallyTrackedOnceDecodable
PROPERTY LoopDeltaSound
