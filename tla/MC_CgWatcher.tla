---------------------------- MODULE MC_CgWatcher ----------------------------
(***************************************************************************)
(* CgWatcher on two PID slots, so that one process can start, end or exec *)
(* while the daemon handles the other, with python3 holding CAP_SYS_NICE  *)
(* as the daemon's warning asks, and with command lines that may not      *)
(* decode as UTF-8.                                                        *)
(***************************************************************************)
EXTENDS CgWatcher

MC_Pids == {1, 2}
MC_BadCmdline == {"cmdline"}

=============================================================================
