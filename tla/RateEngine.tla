----------------------------- MODULE RateEngine -----------------------------
(***************************************************************************)
(* The fast-tier CPU and disk blocks of collect() (src/monitoring/         *)
(* sysmon.py 770-798) and the delta engine they call: cpu_delta (162-185) *)
(* over /proc/stat and diskstat_delta (265-288) over /proc/diskstats.     *)
(*                                                                         *)
(* The kernel is the environment: between two ticks it accounts jiffies   *)
(* of the aggregate "cpu" line to CPU modes, may take iowait jiffies back, *)
(* completes disk operations, and a disk can be unplugged and plugged    *)
(* back, after which its counters start again from zero.  Every value the *)
(* engine derives is kept exact as a fraction num / den; the code's       *)
(* floats have the same sign and the same order.  Tick spans are in       *)
(* milliseconds.                                                           *)
(*                                                                         *)
(* Only differences of counters reach a row, so a snapshot is kept        *)
(* relative to the previous one: after each tick both the kernel's        *)
(* counters and the new snapshot are translated back to a base reading.   *)
(* A replugged device restarts from zero, below that base.                 *)
(***************************************************************************)
EXTENDS Integers, Functions

CONSTANTS
    Devs,        \* whole-disk devices parse_diskstats keeps (247-251)
    Lats,        \* milliseconds one disk operation takes
    DtMs,        \* tick spans the loop accepts (dt >= 0.05 s at 766)
    OpSectors,   \* 512-byte sectors one operation moves
    MaxEvents    \* jiffies, and disk operations, between two ticks

(* What the constants stand for: operation times and tick spans are      *)
(* positive (a tick span is at least 50 ms), sector and event counts are  *)
(* naturals.  Proofs about this module take it as their hypothesis.        *)
RateAssumption ==
    /\ Lats \subseteq Nat \ {0} /\ Lats # {}
    /\ DtMs \subseteq Nat \ {0}
    /\ OpSectors \in Nat /\ MaxEvents \in Nat

(* A derived value num / den.                                              *)
Q(n, m) == [num |-> n, den |-> m]

(* The ten columns of a /proc/stat "cpu" line (parse_cpu_stat, 149-156):  *)
(* user nice system idle iowait irq softirq steal guest guest_nice.        *)
Fields == 1 .. 10

Shares == {"user", "sys", "idle", "iowait", "irq", "softirq", "steal", "guest"}

(* The counters parse_diskstats keeps of a device (253-262); the gauge     *)
(* ios_in_progress is copied to the row unchanged and left out.            *)
DiskFields == {"reads", "sectors_read", "ms_reading", "writes",
               "sectors_written", "ms_writing", "weighted_ms_io"}

FreshDisk == [f \in DiskFields |-> 0]

(* The kernel completes a read or a write that took l ms: one operation,  *)
(* its sectors, its time, and its time in flight in the weighted counter. *)
Done(c, dir, l) ==
    IF dir = "read"
    THEN [c EXCEPT !["reads"] = @ + 1, !["sectors_read"] = @ + OpSectors,
                   !["ms_reading"] = @ + l, !["weighted_ms_io"] = @ + l]
    ELSE [c EXCEPT !["writes"] = @ + 1, !["sectors_written"] = @ + OpSectors,
                   !["ms_writing"] = @ + l, !["weighted_ms_io"] = @ + l]

(* Base readings: a CPU that has run in every mode, a disk that has       *)
(* completed a read and a write.                                           *)
BaseCpu == [i \in Fields |-> 1]
BaseDisk ==
    LET l == CHOOSE x \in Lats : TRUE
    IN  Done(Done(FreshDisk, "read", l), "write", l)

VARIABLES
    kcpu,      \* the kernel's "cpu" line now
    prevCpu,   \* prev_cpu["all"]
    kdisk,     \* the kernel's /proc/diskstats now, by device plugged in
    prevDisk,  \* prev_disk, by device
    jiffies,   \* jiffies accounted since the last tick
    ios,       \* disk operations completed since the last tick
    cpuRow,    \* the last cpu.csv row of "all" (cd["all"])
    ioRows     \* the last tick's io.csv rows, by device (dd)

vars == <<kcpu, prevCpu, kdisk, prevDisk, jiffies, ios, cpuRow, ioRows>>

-----------------------------------------------------------------------------
(* cpu_delta (162-185) for one key present in both snapshots: the share   *)
(* of each mode in the summed deltas of all ten columns, all 0 when the   *)
(* sum is 0.  /proc/stat has had ten columns since Linux 2.6.33, so the    *)
(* nine-column branch (183) is not taken.                                  *)
CpuDelta(p, c) ==
    LET d == [i \in Fields |-> c[i] - p[i]]
        total == d[1] + d[2] + d[3] + d[4] + d[5] + d[6] + d[7] + d[8]
                 + d[9] + d[10]
        Pct(n) == Q(100 * n, total)
    IN  IF total = 0
        THEN [s \in Shares |-> Q(0, 1)]
        ELSE [user |-> Pct(d[1] + d[2]), sys |-> Pct(d[3]), idle |-> Pct(d[4]),
              iowait |-> Pct(d[5]), irq |-> Pct(d[6]), softirq |-> Pct(d[7]),
              steal |-> Pct(d[8]), guest |-> Pct(d[9] + d[10])]

(* diskstat_delta (265-288): a row for every device in both snapshots,    *)
(* rates over dt ms, MB of 512-byte sectors, latency guarded by the       *)
(* operation count, and utilisation capped above at 100.                   *)
DiskDelta(prev, curr, dt) ==
    [dev \in DOMAIN curr \cap DOMAIN prev |->
        LET D(f) == curr[dev][f] - prev[dev][f]
            Lat(ms, n) == IF D(n) > 0 THEN Q(D(ms), D(n)) ELSE Q(0, 1)
        IN  [r_per_s      |-> Q(1000 * D("reads"), dt),
             w_per_s      |-> Q(1000 * D("writes"), dt),
             rMB_per_s    |-> Q(512 * 1000 * D("sectors_read"), 1024 * 1024 * dt),
             wMB_per_s    |-> Q(512 * 1000 * D("sectors_written"), 1024 * 1024 * dt),
             avg_r_lat_ms |-> Lat("ms_reading", "reads"),
             avg_w_lat_ms |-> Lat("ms_writing", "writes"),
             io_util_pct  |-> IF D("weighted_ms_io") <= dt
                              THEN Q(100 * D("weighted_ms_io"), dt)
                              ELSE Q(100, 1)]]

(* The snapshot taken at a tick, translated back to the base reading.     *)
RebaseDisk(k) == [d \in DOMAIN k |-> BaseDisk]

Init ==
    /\ kcpu = BaseCpu /\ prevCpu = BaseCpu
    /\ kdisk = [d \in Devs |-> BaseDisk] /\ prevDisk = kdisk
    /\ jiffies = 0 /\ ios = 0
    /\ cpuRow = [s \in Shares |-> Q(0, 1)]
    /\ ioRows = [d \in {} |-> Q(0, 1)]

-----------------------------------------------------------------------------
(* Lines 770-798 of an accepted tick of dt ms: parse both files, write a  *)
(* row per key in both snapshots, and keep the new snapshots.  The kernel *)
(* has changed the CPU line at least once, since dt >= 50 ms.              *)
Tick ==
    /\ jiffies > 0
    /\ \E dt \in DtMs :
          /\ cpuRow' = CpuDelta(prevCpu, kcpu)
          /\ ioRows' = DiskDelta(prevDisk, kdisk, dt)
    /\ kcpu' = BaseCpu /\ prevCpu' = BaseCpu
    /\ kdisk' = RebaseDisk(kdisk) /\ prevDisk' = RebaseDisk(kdisk)
    /\ jiffies' = 0 /\ ios' = 0

-----------------------------------------------------------------------------
(* The kernel.  A jiffy in a guest mode is also accounted to user (or     *)
(* nice): account_guest_time adds it to both columns.                      *)
Jiffy ==
    /\ jiffies < MaxEvents
    /\ \E m \in Fields :
          LET also == IF m = 9 THEN {1} ELSE IF m = 10 THEN {2} ELSE {}
          IN  kcpu' = [i \in Fields |->
                          IF i \in {m} \cup also THEN kcpu[i] + 1 ELSE kcpu[i]]
    /\ jiffies' = jiffies + 1
    /\ UNCHANGED <<prevCpu, kdisk, prevDisk, ios, cpuRow, ioRows>>

(* The kernel's iowait column can go back (proc(5): "the value in        *)
(* iowait may decrease in certain conditions"; the per-CPU iowait sum is  *)
(* recomputed from sleeping tasks).  The count never falls below zero,    *)
(* which the base reading keeps it above.                                   *)
IowaitBack ==
    /\ jiffies < MaxEvents
    /\ kcpu[5] > 0
    /\ kcpu' = [kcpu EXCEPT ![5] = @ - 1]
    /\ jiffies' = jiffies + 1
    /\ UNCHANGED <<prevCpu, kdisk, prevDisk, ios, cpuRow, ioRows>>

IoDone ==
    /\ ios < MaxEvents
    /\ \E d \in Devs, dir \in {"read", "write"}, l \in Lats :
          /\ d \in DOMAIN kdisk
          /\ kdisk' = [kdisk EXCEPT ![d] = Done(@, dir, l)]
    /\ ios' = ios + 1
    /\ UNCHANGED <<kcpu, prevCpu, prevDisk, jiffies, cpuRow, ioRows>>

Unplug ==
    /\ \E d \in DOMAIN kdisk : kdisk' = Restrict(kdisk, DOMAIN kdisk \ {d})
    /\ UNCHANGED <<kcpu, prevCpu, prevDisk, jiffies, ios, cpuRow, ioRows>>

(* A device that appears starts its counters from zero.                    *)
Plug ==
    /\ \E d \in Devs \ DOMAIN kdisk :
          kdisk' = [x \in DOMAIN kdisk \cup {d} |->
                      IF x = d THEN FreshDisk ELSE kdisk[x]]
    /\ UNCHANGED <<kcpu, prevCpu, prevDisk, jiffies, ios, cpuRow, ioRows>>

Next == Tick \/ Jiffy \/ IowaitBack \/ IoDone \/ Unplug \/ Plug

Spec == Init /\ [][Next]_vars

-----------------------------------------------------------------------------
(***************************************************************************)
(* Spec 8: "Disk utilization values are always clamped to [0, 100]        *)
(* regardless of input magnitude".  diskstat_delta caps io_util_pct at    *)
(* 100 (285) but not below 0, so a device whose counters restart between  *)
(* two ticks gives a negative utilisation.                                 *)
(***************************************************************************)
DiskUtilInRange ==
    \A d \in DOMAIN ioRows :
        LET u == ioRows[d].io_util_pct
        IN  0 <= u.num /\ u.num <= 100 * u.den

(***************************************************************************)
(* Spec 4.2: utilisation is "capped at 100".  Every row diskstat_delta     *)
(* writes has a utilisation of at most 100 (the min at 285), over a        *)
(* positive tick span, whatever the counters do.                            *)
(***************************************************************************)
DiskUtilCapped ==
    \A d \in DOMAIN ioRows :
        LET u == ioRows[d].io_util_pct
        IN  u.den > 0 /\ u.num <= 100 * u.den

(***************************************************************************)
(* Spec 8: derived percentages are never NaN or negative.  Each share of   *)
(* the last cpu.csv row of "all" is a percentage in [0, 100]: cpu_delta    *)
(* divides by the sum of all ten deltas (169) and every share's columns    *)
(* are among them.                                                          *)
(***************************************************************************)
CpuSharesInRange ==
    \A s \in Shares : /\ cpuRow[s].den > 0
                      /\ 0 <= cpuRow[s].num
                      /\ cpuRow[s].num <= 100 * cpuRow[s].den

(* No column of the CPU line is below its reading at the last tick.       *)
NoColumnWentBack == \A i \in Fields : kcpu[i] >= prevCpu[i]

(***************************************************************************)
(* The CPU shares of a tick are percentages exactly as far as no column    *)
(* went back: a tick of collect() at which every /proc/stat column is at  *)
(* least its last reading writes shares in [0, 100], the all-zero row of  *)
(* a zero total included (an idle jiffy and an iowait jiffy taken back).  *)
(* An iowait column that went back gives a negative iowait share.          *)
(***************************************************************************)
CpuInRangeUnlessColumnBack ==
    [][Tick /\ NoColumnWentBack => CpuSharesInRange']_vars

(* No device present at the last tick and now has a counter below its     *)
(* reading then: none restarted in between.                                *)
NoCounterWentBack ==
    \A d \in DOMAIN kdisk \cap DOMAIN prevDisk, f \in DiskFields :
        kdisk[d][f] >= prevDisk[d][f]

(***************************************************************************)
(* The lower half of spec 8's clamp holds exactly as far as the counters   *)
(* do not go back: a tick of collect() at which no device's counters       *)
(* restarted writes utilisations in [0, 100] (DiskUtilInRange).  The       *)
(* rate_util_clamp run shows a restart breaking it.                        *)
(***************************************************************************)
UtilInRangeUnlessRestart ==
    [][Tick /\ NoCounterWentBack => DiskUtilInRange']_vars

=============================================================================
