\* Expected to be violated: see JournalStoppedAtTeardown in Supervisor.tla.
CONSTANTS
    Grace <- MC_Grace
    RecvTimeout <- MC_RecvTimeout
SPECIFICATION Spec
INVARIANT JournalStoppedAtTeardown
CHECK_DEADLOCK FALSE
