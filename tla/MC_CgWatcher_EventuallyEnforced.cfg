\* Enforcement when a command line of this user may not decode as UTF-8.
\* The daemon may stop for good here, so deadlock is not checked.
CONSTANTS
    Pids <- MC_Pids
    Undecodable <- MC_BadCmdline
    CapSysNice = TRUE
SPECIFICATION Spec
PROPERTY EventuallyEnforced
CHECK_DEADLOCK FALSE
