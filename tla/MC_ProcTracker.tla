--------------------------- MODULE MC_ProcTracker ---------------------------
(***************************************************************************)
(* ProcTracker on two PID slots with two incarnations each (one PID       *)
(* reuse), a rescan every second slow tick, and names that all decode or  *)
(* comm and cmdline files that may hold bytes that are not UTF-8.         *)
(***************************************************************************)
EXTENDS ProcTracker

MC_Pids == {1, 2}
MC_MaxGen == 2
MC_ScanTicks == 2
MC_Clean == {}
MC_BadNames == {"comm", "cmdline"}

=============================================================================
