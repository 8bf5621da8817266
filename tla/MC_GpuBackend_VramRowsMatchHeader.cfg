\* Expected violation: VramRowsMatchHeader.
CONSTANTS
    FailMax <- MC_FailMax
    GpuCount <- MC_GpuCount
SPECIFICATION Spec
INVARIANT VramRowsMatchHeader
