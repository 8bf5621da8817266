------------------------------ MODULE Sampler ------------------------------
(***************************************************************************)
(* The two-tier sampling loop collect() of src/monitoring/sysmon.py.      *)
(*                                                                         *)
(* One thread sleeps, discards a tick whose elapsed time is below the     *)
(* floor, then runs the source blocks in their fixed order: cpu, disk and  *)
(* mem on every tick, and irq, gpu, vmstat, psi, freq and proc when at     *)
(* least SlowPeriod has passed since the last slow tick.  Every block is   *)
(* its own try/except: a block that raises writes nothing and leaves its  *)
(* previous snapshot alone, and the loop goes on.  A signal raises         *)
(* KeyboardInterrupt wherever the thread happens to be.                    *)
(*                                                                         *)
(* Data is abstracted to time: a snapshot is the instant it was read, a   *)
(* rate row is the divisor it was computed with and the spans of the      *)
(* counter deltas it divides.  The monotonic and the wall clock are one   *)
(* clock `now` (no wall-clock jumps), the run starts at time 0.           *)
(***************************************************************************)
EXTENDS Integers

CONSTANTS
    MinDt,       \* the 0.05 s floor of line 766, in clock units
    SlowPeriod,  \* the 1.0 s gate of the slow tier, line 826
    ScanPeriod,  \* PROC_SCAN_INTERVAL = 5.0 s, line 753
    Duration,    \* DURATION, the length of the run, line 761
    SleepMin,    \* the shortest time.sleep(INTERVAL) of line 762 takes
    SleepMax,    \* the longest (INTERVAL plus scheduling latency)
    Fallible     \* the source blocks whose try body may raise

ASSUME ClockAssumption ==
    /\ MinDt \in Nat \ {0}
    /\ SlowPeriod \in Nat \ {0}
    /\ ScanPeriod \in Nat \ {0}
    /\ Duration \in Nat
    /\ SleepMin \in Nat \ {0}
    /\ SleepMax \in Nat
    /\ SleepMin <= SleepMax

(* The source blocks of the loop body, in the order the code runs them.   *)
FastSources == {"cpu", "disk", "mem"}
SlowSources == {"irq", "gpu", "vmstat", "psi", "freq", "proc"}
Sources == FastSources \cup SlowSources

(* Sources whose rows are deltas of counters against a kept snapshot.     *)
Differenced == {"cpu", "disk", "irq", "vmstat"}
(* Streams whose rows divide a delta by an elapsed time.                  *)
RateStreams == {"disk", "irq", "vmstat"}

ASSUME FallibleAssumption == Fallible \subseteq Sources

(* Control points: the sleep at the top of the loop, one per source block,*)
(* the tail of the loop body (lines 992-995), and teardown.               *)
Pcs == {"sleep", "end", "done"} \cup Sources

(* Where control goes after a block.  After mem the slow gate decides.    *)
Succ == [cpu |-> "disk", disk |-> "mem",
         irq |-> "gpu", gpu |-> "vmstat", vmstat |-> "psi",
         psi |-> "freq", freq |-> "proc", proc |-> "end"]

Unbound == -1   \* curr_ctxt before the first successful parse_cpu_stat
NoRow == [at |-> -1, div |-> 0, spans |-> {}]

VARIABLES
    now,           \* time.monotonic() (and time.time())
    pc,            \* where the loop thread is
    prevTime,      \* prev_time: the last accepted tick
    lastSlow,      \* last_slow: the last slow tick
    lastProcScan,  \* last_proc_scan: the last rescan of the process table
    snapAt,        \* prev_cpu, prev_disk, prev_irq, prev_vmstat: when read
    ctxtAt,        \* curr_ctxt: when it was read, or Unbound
    prevCtxtAt,    \* prev_ctxt: when it was read
    lastRow        \* history: the last rate row of each rate stream

vars == <<now, pc, prevTime, lastSlow, lastProcScan, snapAt, ctxtAt,
          prevCtxtAt, lastRow>>

Row == [at : Int, div : Int, spans : SUBSET Int]

TypeOK ==
    /\ now \in Nat
    /\ pc \in Pcs
    /\ prevTime \in Nat
    /\ lastSlow \in Nat
    /\ lastProcScan \in Int
    /\ snapAt \in [Differenced -> Nat]
    /\ ctxtAt \in Nat \cup {Unbound}
    /\ prevCtxtAt \in Nat
    /\ lastRow \in [RateStreams -> Row]

(* Lines 744-758: the first snapshots are read before the loop (their     *)
(* failure aborts the run before any sampling, so it is no state of the  *)
(* loop).  last_proc_scan = 0 on a monotonic clock far past ScanPeriod:   *)
(* the first slow tick rescans.                                            *)
Init ==
    /\ now = 0
    /\ pc = "sleep"
    /\ prevTime = 0
    /\ lastSlow = 0
    /\ lastProcScan = -ScanPeriod
    /\ snapAt = [s \in Differenced |-> 0]
    /\ ctxtAt = Unbound
    /\ prevCtxtAt = 0
    /\ lastRow = [s \in RateStreams |-> NoRow]

(* The slow gate of line 826; last_slow does not move inside a tick.      *)
SlowDue == now - lastSlow >= SlowPeriod

(* A block either completes or raises; only a Fallible block can raise.   *)
Outcomes(s) == IF s \in Fallible THEN {"ok", "raise"} ELSE {"ok"}

-----------------------------------------------------------------------------
(* Lines 761-767: the loop test, the sleep, and the dt floor.  A tick     *)
(* below the floor is dropped by `continue` before anything is read, and  *)
(* prev_time stays, so the next dt spans the dropped tick too.            *)
Tick ==
    /\ pc = "sleep"
    /\ now < Duration
    /\ \E d \in SleepMin .. SleepMax :
          /\ now' = now + d
          /\ pc' = IF now + d - prevTime < MinDt THEN "sleep" ELSE "cpu"
    /\ UNCHANGED <<prevTime, lastSlow, lastProcScan, snapAt, ctxtAt,
                   prevCtxtAt, lastRow>>

(* Line 761: the duration has elapsed; collect() returns.                 *)
Finish ==
    /\ pc = "sleep"
    /\ now >= Duration
    /\ pc' = "done"
    /\ UNCHANGED <<now, prevTime, lastSlow, lastProcScan, snapAt, ctxtAt,
                   prevCtxtAt, lastRow>>

(* Lines 770-783: parse_cpu_stat binds curr_ctxt, cpu_delta against       *)
(* prev_cpu writes the percentage rows, prev_cpu := curr_cpu.             *)
CpuStep ==
    /\ pc = "cpu"
    /\ \E r \in Outcomes("cpu") :
          IF r = "ok"
          THEN /\ snapAt' = [snapAt EXCEPT !["cpu"] = now]
               /\ ctxtAt' = now
          ELSE UNCHANGED <<snapAt, ctxtAt>>
    /\ pc' = Succ["cpu"]
    /\ UNCHANGED <<now, prevTime, lastSlow, lastProcScan, prevCtxtAt,
                   lastRow>>

(* Lines 786-798: diskstat_delta(prev_disk, curr_disk, dt) with           *)
(* dt = now - prev_time, then prev_disk := curr_disk.                     *)
DiskStep ==
    /\ pc = "disk"
    /\ \E r \in Outcomes("disk") :
          IF r = "ok"
          THEN /\ lastRow' = [lastRow EXCEPT !["disk"] =
                    [at |-> now, div |-> now - prevTime,
                     spans |-> {now - snapAt["disk"]}]]
               /\ snapAt' = [snapAt EXCEPT !["disk"] = now]
          ELSE UNCHANGED <<lastRow, snapAt>>
    /\ pc' = Succ["disk"]
    /\ UNCHANGED <<now, prevTime, lastSlow, lastProcScan, ctxtAt,
                   prevCtxtAt>>

(* Lines 801-826: the memory gauges (no snapshot kept), then the slow     *)
(* gate slow_dt = now - last_slow >= 1.0.                                 *)
MemStep ==
    /\ pc = "mem"
    /\ pc' = IF SlowDue THEN "irq" ELSE "end"
    /\ UNCHANGED <<now, prevTime, lastSlow, lastProcScan, snapAt, ctxtAt,
                   prevCtxtAt, lastRow>>

(* Lines 829-841: interrupt_delta against prev_irq, each rate divided by  *)
(* slow_dt; a tick on which no IRQ line moved writes no row but still     *)
(* replaces prev_irq.                                                      *)
IrqStep ==
    /\ pc = "irq"
    /\ \E r \in Outcomes("irq") :
          IF r = "ok"
          THEN /\ \E active \in BOOLEAN :
                    lastRow' = IF active
                               THEN [lastRow EXCEPT !["irq"] =
                                      [at |-> now, div |-> now - lastSlow,
                                       spans |-> {now - snapAt["irq"]}]]
                               ELSE lastRow
               /\ snapAt' = [snapAt EXCEPT !["irq"] = now]
          ELSE UNCHANGED <<lastRow, snapAt>>
    /\ pc' = Succ["irq"]
    /\ UNCHANGED <<now, prevTime, lastSlow, lastProcScan, ctxtAt,
                   prevCtxtAt>>

(* Lines 844-855, 933-942, 945-952: the GPU, PSI and frequency gauges.    *)
(* They keep no snapshot in this loop; whether they write or raise leaves *)
(* the loop's state as it is.                                             *)
GaugeStep(s) ==
    /\ pc = s
    /\ pc' = Succ[s]
    /\ UNCHANGED <<now, prevTime, lastSlow, lastProcScan, snapAt, ctxtAt,
                   prevCtxtAt, lastRow>>

(* Mutant: the context-switch rate is computed from an unbound curr_ctxt. *)
VmstatStepNoBindCheck ==
    /\ pc = "vmstat"
    /\ \E r \in Outcomes("vmstat") :
          IF r = "ok"
          THEN /\ lastRow' = [lastRow EXCEPT !["vmstat"] =
                    [at |-> now, div |-> now - lastSlow,
                     spans |-> {now - snapAt["vmstat"], ctxtAt - prevCtxtAt}]]
               /\ snapAt' = [snapAt EXCEPT !["vmstat"] = now]
               /\ prevCtxtAt' = ctxtAt
          ELSE UNCHANGED <<lastRow, snapAt, prevCtxtAt>>
    /\ pc' = Succ["vmstat"]
    /\ UNCHANGED <<now, prevTime, lastSlow, lastProcScan, ctxtAt>>

(* Lines 858-930: the vmstat rates against prev_vmstat, and the context-  *)
(* switch rate (curr_ctxt - prev_ctxt) / slow_dt, where curr_ctxt is the  *)
(* value the cpu block of some earlier or this tick bound.  An unbound    *)
(* curr_ctxt raises UnboundLocalError inside the same try.                *)
VmstatStep ==
    /\ pc = "vmstat"
    /\ \E r \in Outcomes("vmstat") :
          IF r = "ok" /\ ctxtAt # Unbound
          THEN /\ lastRow' = [lastRow EXCEPT !["vmstat"] =
                    [at |-> now, div |-> now - lastSlow,
                     spans |-> {now - snapAt["vmstat"], ctxtAt - prevCtxtAt}]]
               /\ snapAt' = [snapAt EXCEPT !["vmstat"] = now]
               /\ prevCtxtAt' = ctxtAt
          ELSE UNCHANGED <<lastRow, snapAt, prevCtxtAt>>
    /\ pc' = Succ["vmstat"]
    /\ UNCHANGED <<now, prevTime, lastSlow, lastProcScan, ctxtAt>>

(* Lines 955-990: rescan the process table when PROC_SCAN_INTERVAL has    *)
(* passed, then read the tracked PIDs.  A raise inside the rescan skips   *)
(* the assignment of last_proc_scan.                                      *)
ProcStep ==
    /\ pc = "proc"
    /\ \E r \in Outcomes("proc") :
          lastProcScan' = IF r = "ok" /\ now - lastProcScan >= ScanPeriod
                          THEN now ELSE lastProcScan
    /\ pc' = Succ["proc"]
    /\ UNCHANGED <<now, prevTime, lastSlow, snapAt, ctxtAt, prevCtxtAt,
                   lastRow>>

(* Mutant: last_slow := now outside the `if` of line 826.                 *)
EndTickEveryTick ==
    /\ pc = "end"
    /\ lastSlow' = now
    /\ prevTime' = now
    /\ pc' = "sleep"
    /\ UNCHANGED <<now, lastProcScan, snapAt, ctxtAt, prevCtxtAt, lastRow>>

(* Lines 992-995: last_slow := now on a slow tick, prev_time := now.      *)
EndTick ==
    /\ pc = "end"
    /\ lastSlow' = IF SlowDue THEN now ELSE lastSlow
    /\ prevTime' = now
    /\ pc' = "sleep"
    /\ UNCHANGED <<now, lastProcScan, snapAt, ctxtAt, prevCtxtAt, lastRow>>

(* Lines 1002-1003 with the SIGTERM handler of lines 1469-1472: the        *)
(* signal raises KeyboardInterrupt at whatever point the thread is, and   *)
(* the loop is left from there.                                            *)
Interrupt ==
    /\ pc # "done"
    /\ pc' = "done"
    /\ UNCHANGED <<now, prevTime, lastSlow, lastProcScan, snapAt, ctxtAt,
                   prevCtxtAt, lastRow>>

(* The loop thread's own steps.                                           *)
Loop ==
    \/ Tick
    \/ Finish
    \/ CpuStep
    \/ DiskStep
    \/ MemStep
    \/ IrqStep
    \/ \E s \in {"gpu", "psi", "freq"} : GaugeStep(s)
    \/ VmstatStep
    \/ ProcStep
    \/ EndTick

Next == Loop \/ Interrupt

(* Only safety properties are checked of the loop, so no fairness is      *)
(* assumed; a signal is the environment's choice.                          *)
Spec == Init /\ [][Next]_vars

-----------------------------------------------------------------------------
(* The longest gap between two accepted ticks: a dropped tick is less     *)
(* than MinDt after the last accepted one, and one more sleep follows.    *)
MaxTickGap == MinDt - 1 + SleepMax

(***************************************************************************)
(* Cadence of the two tiers (spec 4.1: the fast tier every tick, the slow *)
(* tier once per elapsed second on the monotonic clock, jitter ticks      *)
(* dropped).  Accepted ticks of collect() are at least MinDt and at most  *)
(* MaxTickGap apart; slow ticks at least SlowPeriod and less than          *)
(* SlowPeriod + MaxTickGap apart; rescans of the process table at least    *)
(* ScanPeriod apart.  The lower bounds are what keep every divisor above   *)
(* its floor; the upper bound is what keeps the slow tier from starving  *)
(* behind dropped ticks.                                                   *)
(***************************************************************************)
Cadence ==
    [][ /\ prevTime' # prevTime =>
              prevTime' - prevTime \in MinDt .. MaxTickGap
        /\ lastSlow' # lastSlow =>
              lastSlow' - lastSlow \in SlowPeriod .. SlowPeriod + MaxTickGap - 1
        /\ lastProcScan' # lastProcScan =>
              lastProcScan' - lastProcScan >= ScanPeriod
      ]_vars

(***************************************************************************)
(* Every rate row divides its counter deltas by the time those deltas     *)
(* span (spec 3: a Rate Sample is computed from two Snapshots and the     *)
(* elapsed time between them).  The disk block divides by the time since  *)
(* the last accepted tick and irq/vmstat by the time since the last slow  *)
(* tick, while a block that raised keeps its older snapshot; and the      *)
(* context-switch delta spans whatever ticks the cpu block last read.     *)
(***************************************************************************)
RateSpanMatchesDivisor ==
    \A s \in RateStreams :
        lastRow[s] # NoRow => \A sp \in lastRow[s].spans : sp = lastRow[s].div

=============================================================================
