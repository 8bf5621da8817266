---------------------------- MODULE MC_Sampler ----------------------------
(* Small instance of Sampler: one clock unit stands for 0.05 s scaled so  *)
(* that a sleep can fall below the floor (an INTERVAL below 0.05 s, or     *)
(* jitter), a slow tick comes every few ticks and a rescan every few slow *)
(* ticks, within a run of nine units: five to nine sleeps.                *)
EXTENDS Sampler

MC_MinDt == 2
MC_SlowPeriod == 3
MC_ScanPeriod == 5
MC_Duration == 9
MC_SleepMin == 1
MC_SleepMax == 2
MC_Fallible == Sources
=============================================================================
