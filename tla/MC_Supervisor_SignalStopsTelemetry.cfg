\* Expected to be violated: see SignalStopsTelemetry in Supervisor.tla.
CONSTANTS
    Grace <- MC_Grace
    RecvTimeout <- MC_RecvTimeout
SPECIFICATION Spec
INVARIANT SignalStopsTelemetry
CHECK_DEADLOCK FALSE
