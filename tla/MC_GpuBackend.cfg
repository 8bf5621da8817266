\* Failover and fall-through, on every
\* interleaving of NVML outcomes and nvidia-smi availability.
CONSTANTS
    FailMax <- MC_FailMax
    GpuCount <- MC_GpuCount
SPECIFICATION Spec
INVARIANT TypeOK
INVARIANT NoSampleLost
PROPERTY FailoverExactlyAfterStreak
