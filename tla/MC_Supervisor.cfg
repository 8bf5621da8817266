\* Teardown of the telemetry child and the journalctl monitor.
CONSTANTS
    Grace <- MC_Grace
    RecvTimeout <- MC_RecvTimeout
SPECIFICATION Spec
INVARIANT TypeOK
INVARIANT TelemetryRowsKept
PROPERTY Termination
PROPERTY SupervisedChildSpec
\* main returns and sysmon exits: the final states have no successor.
CHECK_DEADLOCK FALSE
