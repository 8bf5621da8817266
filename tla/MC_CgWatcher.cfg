\* Enforcement when a command line of this user may not decode as UTF-8,
\* for as long as the daemon survives.  The daemon may die of the decode
\* error and stop for good, so deadlock is not checked.
CONSTANTS
    Pids <- MC_Pids
    Undecodable <- MC_BadCmdline
    CapSysNice = TRUE
SPECIFICATION Spec
INVARIANT TypeOK
PROPERTY EnforcedWhileAlive
CHECK_DEADLOCK FALSE
