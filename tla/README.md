# TLA+ models of the sysmon monitoring tools

This directory holds TLA+ specifications of `src/monitoring/`:

- `sysmon.py`, the two-tier host sampler;
- `xplane_telemetry.py`, the telemetry recorder that sysmon supervises;
- `cgroups/cgwatcher.py`, a separate priority daemon.

It also holds the TLC configurations that model-check them and the TLAPS proofs of their central invariants. `PROJECT.json` lists:

- every component, modelled or not;
- every run, with the properties it checks;
- the mutants that show each property can fail;
- the map from each definition to the source lines it translates;
- the findings, the hazards and the theorems.

## 1. The system

`sysmon.py main()` is one Python process. It runs these parts:

| Part | Code | What it does |
|---|---|---|
| GPU backend selector | `init_gpu` 62-107, `get_vram` 292-362 | Probes NVML, then nvidia-smi, then the AMD vendor file. On every slow tick it queries NVML, counts consecutive failures, switches to nvidia-smi for good after `_NVML_FAIL_MAX` = 3, and falls through to nvidia-smi on the failing call. |
| Sampling loop | `collect` 741-1006 | Sleeps `INTERVAL` and drops a tick with `dt < 0.05`. It then runs the cpu, disk and mem blocks. Once `slow_dt >= 1.0`, it also runs irq, gpu, vmstat, psi, freq and the per-process block. Each block has its own `try/except`. Snapshots `prev_*`, `prev_time` and `last_slow` are updated as the blocks complete. |
| Per-process tracker | `find_tracked_procs` 515-545, `read_proc_stats` 547-584, block 955-990 | Rescans /proc every 5 s for names matching patterns (comm first, then cmdline). Reads each tracked PID's stats every slow tick, writes deltas against `prev_proc`, and drops PIDs whose stat vanished. |
| Supervisor | `main` 1451-1558, `_start_gpu_event_monitor` 1371-1393, `_capture_dmesg` 1359-1369 | Installs a SIGTERM handler that raises `KeyboardInterrupt`. Spawns the telemetry recorder, captures dmesg, and starts a thread that runs `journalctl -f`. Runs `collect`, then terminates the telemetry child (5 s wait, then kill) and the journalctl child, then reports. |
| Telemetry recorder | `xplane_telemetry.py` | A separate process. Subscribes to X-Plane over UDP, blocking until it answers, and only then installs its SIGTERM handler. Records rows to a block-buffered CSV, flushed every 10 s. Resubscribes after 3 consecutive 3-s timeouts; that resubscribe blocks and ignores the cleared `running`. |
| cgwatcher | `cgwatcher.py`: `run_loop` 278-299, `scan_and_classify` 222-265, `match_process` 197-219 | An independent daemon. Every `INTERVAL` it lists /proc and skips other users' processes. It matches each remaining process's comm, then its cmdline, against the rules. Under CFS it moves a match into its class's systemd slice; under PDS/BMQ it renices it, unless the process already has the setting. Only `KeyboardInterrupt` is caught around the loop. |
| Delta/rate engine | `cpu_delta` 162-185, `diskstat_delta` 265-288, called at 770-798 | Differences two snapshots of kernel counters into CPU shares and disk rates, for every key present in both. |
| Parsers, CSV sinks, summary, correlator | 125-290, 366-512, 590-736, 1012-1353 | Pure parsing, file layout, and post-run reports. |

The parts interact as follows:

- The loop calls `get_vram` and the per-process block inside its slow tier.
- A signal reaches the loop as an exception.
- `main` shares only process handles with its two background children.
- The telemetry CSV is read by `main` (its line count) and by the correlator after the run.

Behaviours that make this code hard to test:

- A signal can interrupt any statement.
- A source block can raise between a row and its snapshot update.
- The process table changes under the scan, and PIDs are reused.
- A process name may not decode as UTF-8.
- The monitor thread races main's fixed 0.3 s sleep.
- The telemetry child may be blocked where it ignores SIGTERM.
- NVML may fail intermittently or permanently.

## 2. Modules and how they correspond to the code

Every action carries a comment naming the lines it models. Each module's `vars`, `Init`, one action per step, `Next` and `Spec` follow the layout in the table.

| Module | Models | State (code name) | Actions |
|---|---|---|---|
| `Sampler` | `collect()` | `now`, `pc` (the block the thread is in), `prevTime` (`prev_time`), `lastSlow`, `lastProcScan`, `snapAt` (`prev_cpu/disk/irq/vmstat` as read instants), `ctxtAt`/`prevCtxtAt` (`curr_ctxt`/`prev_ctxt`), history `lastRow` | `Tick` (sleep + floor), `Finish`, `CpuStep`, `DiskStep`, `MemStep` (with the slow gate), `IrqStep`, `GaugeStep(s)`, `VmstatStep`, `ProcStep`, `EndTick`, `Interrupt` |
| `GpuBackend` | `init_gpu`, `get_vram`, vram.csv header | `backend` (`_GPU_BACKEND` by branch), `useNvml`, `failCount`, env `smiUp`, history `recent`, `lastQuery` | `InitDisabled`, `InitProbe`, `QueryDisabled`, `QueryNvmlOk`, `QueryNvmlFail`, `QuerySmi`, env `SmiChange` |
| `ProcTracker` | process scan and per-PID deltas | `proc` (env process table: incarnation, alive, how it matches, which name file is undecodable), `tracked` (`tracked_pids`), `prevProc` (`prev_proc`), `sinceScan`, `pc`, history `rows`, env `reusable` | `SkipScan`, `ScanFails`, `Rescan`, `ReadStep`, env `Exit(p)`, `Spawn(p)` |
| `Supervisor` | `main()` lifecycle, monitor thread, telemetry child | `pc`, `withTelem`/`withDmesg` (CLI), `telem`, `telemTerm`, `telemDirty`, `journal`, `monHandle` (`gpu_mon_proc is not None`), `waited`, history `crashed`, `telemLost` | main: `Start`, `DmesgPre`, `MonSpawn`, `MonReturn`, `CollectDone`, `StopTelem`, `WaitTelem`, `TelemGone`, `KillTelem`, `StopMon`, `DmesgPost`, `Report`; thread: `MonPopen`; child: `TelemConnect`, `TelemRow`, `TelemFlush`, `TelemResubscribe`, `TelemReconnect`, `TelemEnd`; env: `SigTerm` |
| `SupervisedProcess` | spec 9's supervised-process abstraction, with spec 5's teardown order | `child` (absent, starting, running, stopping, stopped), `sup` (before, stopping, after, abandoned) | `Launch`, `Ready`, `Exit`, `Request`, `Kill`, `Collect`, `Abandon` |
| `RateEngine` | `cpu_delta`, `diskstat_delta` and the fast-tier CPU and disk blocks | `kcpu`/`kdisk` (env: the kernel's counters now, by device plugged in), `prevCpu`/`prevDisk` (`prev_cpu["all"]`, `prev_disk`), `events`, history `cpuRow` (`cd["all"]`), `ioRows` (`dd`) | `Tick`; env `Jiffy`, `IoDone`, `Unplug`, `Plug` |
| `CgWatcher` | cgwatcher's `run_loop` and `scan_and_classify` | `proc` (env process table: own or foreign, first matching class, whether comm or cmdline matched, which name file is undecodable, current slice or nice value), `scheduler`, `pc`, `todo` (the listdir entries left), `matched` | `ListProc`, `Skip(p)`, `Match(p)`, `Crash(p)`, `Enforce`, `EndPass`; env `Start(p)`, `End(p)`, `Exec(p)`, `ExitMidRead(p)` (a process reaped between the open and the read of its comm, cmdline or cgroup file, which raises ProcessLookupError and ends the daemon) |

Data is abstracted to what the properties tell apart:

- In `Sampler`, a snapshot is the instant it was read, and a rate row is the divisor it used together with the spans of its deltas.
- A vram.csv line is the sequence of column names its fields stand for.
- A proc.csv row is the pair of incarnations it differences.
- In `RateEngine`, every derived value is an exact fraction `[num, den]`; the code's floats have the same sign and order. Snapshots are kept relative to the previous one, because only differences reach a row. After each tick, the counters are translated back to a base reading; a replugged device restarts from zero, below that base.
- Seconds in `Supervisor` count only main's bounded wait.

Each MC module gives the constants small values (in brackets, what they stand for in the code):

- `MC_Sampler`:
  - one unit is a scaled 0.05 s;
  - `MinDt` 2, `SlowPeriod` 3, `ScanPeriod` 5, `Duration` 9;
  - sleeps of 1 or 2 units, so that both dropped ticks and late slow ticks happen;
  - every block fallible.
- `MC_GpuBackend`: `FailMax` 3 (the code's value) and 2 GPUs (so nvidia-smi's one line per GPU shows).
- `MC_ProcTracker`:
  - 2 PIDs with 2 incarnations each, which allows one reuse;
  - a rescan every second slow tick;
  - the undecodable-name sets named by each cfg.
- `MC_RateEngine`:
  - one disk;
  - operations of 5 or 40 ms;
  - ticks of 50 ms (the floor) or 200 ms;
  - two CPU-line changes and two disk operations between ticks, enough for two 40 ms operations to exceed a 50 ms tick.
- `MC_Supervisor`: the code's timeouts, `Grace` 5 and `RecvTimeout` 3.
- `MC_CgWatcher`:
  - 2 PID slots, so that one process can end, start or exec while the daemon handles another;
  - both schedulers, chosen in `Init`;
  - python3 holding CAP_SYS_NICE;
  - command lines that may not decode (names that do decode are among the cases).

## 3. Runs

| Run | Expect | Properties | Shows |
|---|---|---|---|
| `sampler_cadence` | pass (1.1 M states) | `TypeOK`, `Cadence` | The spacing of accepted ticks, slow ticks and rescans holds under dropped ticks and raising blocks. |
| `sampler_rate_span` | violation | `RateSpanMatchesDivisor` | A block that raised keeps its snapshot, so its next rate divides a two-interval delta by one interval. |
| `gpu_backend` | pass | `TypeOK`, `NoSampleLost`, `FailoverExactlyAfterStreak` | Failover happens exactly after FailMax consecutive failures, and a failing call still samples via nvidia-smi. |
| `gpu_vram_columns` | violation | `VramRowsMatchHeader` | nvidia-smi rows are misaligned with the header. |
| `proc_tracker` | pass | `TypeOK`, `EventuallyTrackedOnceDecodable`, `LoopDeltaSound` | A matching live process is eventually tracked once names decode. A per-process pass that starts with `prev_proc` agreeing with `tracked_pids` writes only same-process deltas and leaves the two agreeing; the mutant without `tracked_pids.pop` (963) breaks it. |
| `proc_stale_prev` | violation | `DeltaSameIncarnation` | A reused PID is differenced against the old process. |
| `supervisor_teardown` | pass | `TypeOK`, `TelemetryRowsKept`, `Termination`, `SupervisedChildSpec` | No buffered row is lost, and main ends. Under the mapping `TelemChild`/`TelemPhase`, main and the telemetry child implement `SupervisedProcess`. The telemetry child is launched once, is asked to stop only by `terminate()`, stays stopped, and its output is read after. The mutant without `terminate()` breaks it. |
| `supervisor_journal_orphan` | violation | `JournalStoppedAtTeardown` | A late thread Popen leaves journalctl running after sysmon exits. |
| `supervisor_signal_orphan` | violation | `SignalStopsTelemetry` | SIGTERM outside `collect` orphans the telemetry child. |
| `cgwatcher_enforce` | pass | `TypeOK`, `EnforcedWhileAlive` | While the daemon lives, a process that keeps matching a class gets its slice or nice value, even when processes exec or PIDs are reused between match and enforcement. A comm match never reads the cmdline. |
| `rate_util_clamp` | violation | `DiskUtilInRange` | A disk unplugged and plugged back between two ticks gets a negative `io_util_pct`. Spec 8 says utilisation is always within [0, 100]. Without `Plug`, the same instance passes over 1.57 M states: the upper cap and the zero guards hold. |
| `cgwatcher_decode_crash` | violation | `EventuallyEnforced` | One unmatched comm with a non-UTF-8 cmdline kills the daemon for good. |

Two deviations from the spec are modelled but have no run of their own; `PROJECT.json` lists them as hazards:

- `Sampler`'s `Interrupt` lets SIGTERM end a tick between any two blocks, against spec 4.1's "finish the in-flight tick". It is the same handler (1471) that `supervisor_signal_orphan` shows orphaning the telemetry child.
- `GpuBackend`'s `QuerySmi` spawns nvidia-smi on every slow tick even when `init_gpu` found no GPU (347). Spec 4.3 says the backend does not retry.

`PROJECT.json` records each violation run as a finding, with the source line, what the code does and what the spec says.

Each property of a passing run has a mutant in `PROJECT.json`. A mutant is an operator defined just before the definition it replaces, modelling a plausible bug: a dropped guard, `>` for `>=`, a missing reset, a wait without a timeout. TLC finds each mutant's property violated.

Bounds. The bounds are enough for the behaviour they target:

- The sampler bounds allow every interleaving of a dropped tick, a late slow tick and a raising block within two slow periods.
- One PID reuse per slot is what the stale-`prev_proc` path needs.
- Two PIDs let one process block the scan for another.
- The supervisor's timeouts are the code's own.
- Two PID slots in `CgWatcher` let a process change between its match and its enforcement while the other is scanned; all three classes and a non-class slice are present.

`EventuallyTrackedOnceDecodable` assumes every live name decodes, and the hypothesis is needed. A UnicodeDecodeError at 543 aborts every rescan for as long as the undecodable process lives. `PROJECT.json` lists this as a hazard that no run covers. Likewise `EnforcedWhileAlive` only speaks of runs in which the cgwatcher daemon survives. Its death of a decode error is the `cgwatcher_decode_crash` violation, and its death of a ProcessLookupError (`ExitMidRead`) is reachable in the same model.

`CgWatcher`'s `Permitted` follows the kernel. Writing `cgroup.procs` moves only a process of the user's own cgroups. setpriority with CAP_SYS_NICE renices any process, so a PID reused by another user's process between the uid check (236) and `set_pid_nice` is reniced under PDS/BMQ. The run reaches this, and `PROJECT.json` lists it as a hazard; spec 2 makes no claim about other users' processes.

Deadlock checking is off only where the program ends: `collect` returning in `Sampler`, `main` returning in `Supervisor`, and the cgwatcher daemon dying of a decode error. `GpuBackend` and `ProcTracker` run with deadlock checking on.

### Fairness

| Module | Fairness | Justification |
|---|---|---|
| `ProcTracker` | `WF_vars(Tracker)` | Slow ticks keep coming, which `Cadence` shows. |
| `Supervisor` | Weak fairness on main's steps and on the monitor thread's Popen | Both threads are runnable. |
| `CgWatcher` | `WF_vars(Watcher)` | `run_loop` sleeps `INTERVAL` and scans again forever; nothing in it blocks. |
| `Supervisor` | Weak fairness on the telemetry loop's end (`TelemEnd`) | The recording loop ends by itself at its `-d DURATION`. |

`Sampler` has no fairness: only safety properties of `collect()` are checked. None of these assume anything of X-Plane, of the process table or of signals: they stay unfair.

## 4. Proofs (TLAPS)

| Module | Theorem | States | Rests on |
|---|---|---|---|
| `SamplerProofs` | `TypeCorrect` | `Spec => []TypeOK` | `TypeOK` is inductive as it stands. |
| `SamplerProofs` | `CadenceHolds` | `Spec => Cadence` | The inductive `TimingInv` (see below); `CadenceStep` then bounds every step that moves `prev_time`, `last_slow` or `last_proc_scan`. |
| `GpuBackendProofs` | `TypeCorrect` | `Spec => []TypeOK` | The inductive `TypeInv` (see below). |
| `GpuBackendProofs` | `SampleKept` | `Spec => []NoSampleLost` | `NoSampleLostStep`, with `TypeInv` and the lemma `SmiLinesNonEmpty` (an nvidia-smi answer lists at least one GPU). |
| `GpuBackendProofs` | `FailoverStreak` | `Spec => FailoverExactlyAfterStreak` | The inductive `StreakInv`: the last `failCount` entries of `recent` are failures, the entry before them (if any) a success, and NVML is off before `init_gpu`. The lemma `RememberEnd` says how `Remember` shifts the history; `DropStep` shows only the `FailMax`-th failure drops NVML. |
| `SupervisorProofs` | `TypeCorrect` | `Spec => []TypeOK` | `TypeOK` is inductive as it stands; it needs `SupervisorAssumption` for `waited`. |
| `SupervisorProofs` | `RowsKept` | `RecvTimeout < Grace => (Spec => []TelemetryRowsKept)` | The inductive `TeardownInv` (see below). |
| `SupervisorProofs` | `ChildRefinement` | `Spec => SupervisedChildSpec` | The inductive `LifecycleInv` (see below), `ChildInit`, and `ChildStep`: every step maps to a lifecycle step or a stutter. |
| `RateEngineProofs` | `UtilCapped` | `RateAssumption => (Spec => []DiskUtilCapped)` | The inductive `RateInv` (see below) and the lemma `DiskDeltaCapped`: `diskstat_delta` caps every row over any positive span. |
| `RateEngineProofs` | `CpuInRange` | `RateAssumption => (Spec => CpuInRangeUnlessColumnBack)` | `RateInv` and the lemma `CpuDeltaInRange`: `cpu_delta` of two readings whose columns did not go back gives shares in [0, 100], and 0 when the total is 0. A zero total is reachable, because the kernel may take an iowait jiffy back (`IowaitBack`). |
| `RateEngineProofs` | `UtilUnlessRestart` | `RateAssumption => (Spec => UtilInRangeUnlessRestart)` | `RateInv` and the lemma `DiskDeltaInRange`: a tick at which no counter went back writes utilisations in [0, 100]. |
| `ProcTrackerProofs` | `TypeCorrect` | `Spec => []TypeOK` | `TypeInv`: a live PID has an incarnation in `1 .. MaxGen`; the lemma `ReadRows` types the rows of a read step. |
| `ProcTrackerProofs` | `LoopSound` | `Spec => LoopDeltaSound` | The inductive `LoopInv` (see below) and the lemma `LoopStep`: one pass from agreeing maps. |
| `CgWatcherProofs` | `TypeCorrect` | `Spec => []TypeOK` | `TypeInv`: in state `enforce`, `matched` names a real PID and class. The lemmas `SettingType`, `ReprioType` and `ForeignNotOwn`. Another user's process is changed only under PDS/BMQ, where `Permitted` allows it with CAP_SYS_NICE, and it is given a nice value. Under CFS it keeps its cgroup. |

`TimingInv` strengthens `TypeOK` with these facts:

- `lastSlow <= prevTime <= now`;
- `prevTime - lastSlow < SlowPeriod`;
- between ticks, the clock is less than `MinDt` past `prevTime`;
- inside an accepted tick, the clock is `MinDt .. MaxTickGap` past `prevTime`.

`TypeOK` alone is not inductive in `GpuBackend`, because a failure adds one to `failCount`. `TypeInv` adds the two facts that keep it in range:

- `useNvml => failCount < FailMax`;
- `backend = "none" => failCount = 0`.

`TelemetryRowsKept` is not inductive: it says nothing about the state in which main sends `kill()`. `TeardownInv` adds `WaitFacts`:

- while main waits, the child has had its SIGTERM and is past `subscribing`;
- a child still in its recording loop has been waited on for at most `RecvTimeout` seconds, because each `recvfrom` ends within one socket timeout and the loop then sees the flag;
- a child blocked in `resubscribe()` has an empty buffer, because it flushed before it blocked.

With `RecvTimeout < Grace` (3 s and 5 s in the code), the kill after `Grace` seconds can only find a child in `resubscribe()`. The hypothesis is necessary: the theorem's statement carries it, and TLC finds rows lost when it is dropped.

The refinement of `SupervisedProcess` needs `LifecycleInv`. It adds four facts to `TypeOK`, and TLC checks it on the teardown instance:

- main's `Popen` finds no child yet;
- the child has had no SIGTERM while main is before its `terminate()`;
- a child in its first subscribe has had no SIGTERM, so it is `starting`, not `stopping`;
- `crashed` is set only at main's exit.

The mapping is written with IF, not CASE. A CASE whose guards overlap (`telem = "exited"` and `telemTerm`) has no determined value in TLA+, although TLC takes the first true guard.

`LoopInv` adds two facts to `TypeInv`: a tracked PID names the incarnation now in its slot, and a free slot the kernel may hand out again is not tracked. The second fact keeps the first across a PID reuse. With them, a row of a live tracked PID whose stored stats agree with `tracked_pids` differences one incarnation. `LoopSound` is the positive side of the `proc_stale_prev` finding: the per-process loop is sound, and the stale delta needs the rescan at 957 to replace `tracked_pids` while `prev_proc` keeps the old stats.

`RateInv` holds the types of the snapshots (every counter an integer), the fact that `prevCpu` is the base reading a tick rebases to, and `DiskUtilCapped`, which only `Tick` changes. It does not hold `CpuSharesInRange`. The kernel's iowait column can go back (proc(5)), and then a tick writes a negative iowait share; TLC finds that state. `CpuInRange` is therefore an action property: a tick at which no column went back (`NoColumnWentBack`) writes shares in range. The lemmas `DoneType` and `BaseDiskType` type the kernel's accounting of an operation and the base disk reading.

`RateEngine` has no passing run: its one run, `rate_util_clamp`, is the violation of spec 8's lower clamp. Its constants' assumption is therefore the defined operator `RateAssumption`, not an ASSUME, and the three theorems take it as hypothesis. `DiskUtilCapped` and `UtilInRangeUnlessRestart` were checked by TLC on `MC_RateEngine` (six and a half million states, too long for a run) before they were proved. `CpuInRangeUnlessColumnBack` was checked on a diskless instance with three CPU-line changes per tick. `UtilUnlessRestart` is the positive side of the `rate_util_clamp` finding: the code's negative utilisation needs a counter that went back, and nothing else produces one. For the prover, `CpuDelta` writes the ten-column total as an explicit sum rather than a fold.

TLC checks all of these on the MC instances. TLAPS proves them for every value of the constants allowed by `ClockAssumption`, `FallibleAssumption`, `GpuAssumption`, `SupervisorAssumption`, `TrackerAssumption` and `WatcherAssumption`, and, as a hypothesis, `RateAssumption`.

The rest is only model-checked:

- Liveness (`EventuallyTrackedOnceDecodable`, the Supervisor's `Termination`, `EnforcedWhileAlive`), because the prover does not reason about fairness or ENABLED.

## 5. Not modelled

| Part | Why |
|---|---|
| The text parsing of /proc files, `interrupt_delta`, the vmstat rates, and the gauges (meminfo, PSI, cpufreq) | Text processing; the same differencing as `RateEngine`, over `slow_dt`. `Sampler` keeps whether a parse raises. |
| What `cpu_delta`'s shares should add up to while a VM runs (guest time counted twice in the total) | Spec 4.2 leaves Δtotal undefined; listed as a hazard. |
| The CSV sinks' formats | Layout. |
| `CSVWriters` partial opens on a startup failure | A startup-only path. |
| The statistics tables and `print_summary` | Post-run formatting. |
| The correlator, including the truncate-before-dedup at 1345 | A post-run text report. |
| `parse_args` | Declarations; its two control flags are Supervisor variables. |
| The telemetry packet decoding | Byte formatting. |
| cgwatcher's `load_rules`, logging, `--once`/`--daemon` start-up | Configuration and I/O; the rules are abstracted to the class a process matches. |
| cgwatcher's failure to start a systemd slice (`ensure_slice_active`) | The slices are assumed to exist. |
| cgwatcher without CAP_SYS_NICE | A process asking for a lower nice value is never reniced; that is the environment, so no property is claimed. |
| The wall clock versus the monotonic clock in the loop test (761) | `Sampler` uses one clock; a jumping wall clock is listed as a hazard. |

## 6. Plan for later work

1. Split the wall clock from the monotonic clock in `Sampler` to check the run length against spec 4.1.
