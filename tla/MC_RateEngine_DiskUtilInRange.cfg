\* A disk unplugged and plugged back between two ticks.
CONSTANTS
    Devs <- MC_Devs
    Lats <- MC_Lats
    DtMs <- MC_DtMs
    OpSectors = 8
    MaxEvents = 2
SPECIFICATION Spec
INVARIANT DiskUtilInRange
