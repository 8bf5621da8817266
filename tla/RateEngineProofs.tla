-------------------------- MODULE RateEngineProofs --------------------------
(***************************************************************************)
(* Proofs about the delta engine of collect() (RateEngine), for every set  *)
(* of devices, operation times and tick spans that RateAssumption allows.  *)
(* The two delta operators are pure: their lemmas hold for any pair of     *)
(* snapshots.  RateInv adds to the types that the CPU snapshot is the base *)
(* reading and that the utilisation of every row is capped.                 *)
(***************************************************************************)
EXTENDS RateEngine, TLAPS

(* A device snapshot: every counter of parse_diskstats an integer.         *)
DiskSnap(k) == \A d \in DOMAIN k : k[d] \in [DiskFields -> Int]

(* The inductive invariant: the snapshots' types, the CPU snapshot at the *)
(* base reading, and the cap of every io.csv row.                          *)
RateInv ==
    /\ kcpu \in [Fields -> Int] /\ prevCpu = BaseCpu
    /\ DiskSnap(kdisk) /\ DiskSnap(prevDisk)
    /\ DiskUtilCapped

-----------------------------------------------------------------------------
(* The kernel's accounting of one operation keeps every counter an integer.*)
LEMMA DoneType ==
  ASSUME RateAssumption, NEW c \in [DiskFields -> Int], NEW dir, NEW l \in Int
  PROVE  Done(c, dir, l) \in [DiskFields -> Int]
BY DEF Done, DiskFields, RateAssumption

(* The base reading of a disk is a snapshot of integer counters.          *)
LEMMA BaseDiskType ==
  ASSUME RateAssumption
  PROVE  BaseDisk \in [DiskFields -> Int]
<1>1. (CHOOSE x \in Lats : TRUE) \in Int
  <2>1. \E x \in Lats : TRUE  BY DEF RateAssumption
  <2>2. (CHOOSE x \in Lats : TRUE) \in Lats  BY <2>1
  <2>3. Lats \subseteq Int  BY DEF RateAssumption
  <2>. QED  BY <2>2, <2>3
<1>2. FreshDisk \in [DiskFields -> Int]
  BY DEF FreshDisk
<1>. QED  BY <1>1, <1>2, DoneType DEF BaseDisk

(* The column deltas of two /proc/stat readings, their total, and the     *)
(* columns each share of cpu_delta sums (165-182).                         *)
CpuDl(p, c) == [i \in Fields |-> c[i] - p[i]]
CpuTot(x) == x[1] + x[2] + x[3] + x[4] + x[5] + x[6] + x[7] + x[8] + x[9] + x[10]
ShareCols(x) == [user |-> x[1] + x[2], sys |-> x[3], idle |-> x[4],
                 iowait |-> x[5], irq |-> x[6], softirq |-> x[7],
                 steal |-> x[8], guest |-> x[9] + x[10]]

(* cpu_delta, written with the helpers.                                    *)
LEMMA CpuDeltaForm ==
  ASSUME NEW p, NEW c
  PROVE  CpuDelta(p, c) =
           IF CpuTot(CpuDl(p, c)) = 0 THEN [s \in Shares |-> Q(0, 1)]
           ELSE [s \in Shares |-> Q(100 * ShareCols(CpuDl(p, c))[s], CpuTot(CpuDl(p, c)))]
<1>. DEFINE x == CpuDl(p, c)  t == CpuTot(x)
<1>1. CASE t = 0  BY <1>1 DEF CpuDelta, CpuTot, CpuDl, Fields
<1>2. CASE t # 0
  <2>1. CpuDelta(p, c) =
          [user |-> Q(100 * (x[1] + x[2]), t), sys |-> Q(100 * x[3], t),
           idle |-> Q(100 * x[4], t), iowait |-> Q(100 * x[5], t),
           irq |-> Q(100 * x[6], t), softirq |-> Q(100 * x[7], t),
           steal |-> Q(100 * x[8], t), guest |-> Q(100 * (x[9] + x[10]), t)]
    BY <1>2 DEF CpuDelta, CpuTot, CpuDl
  <2>. QED  BY <1>2, <2>1 DEF Shares, ShareCols
<1>. QED  BY <1>1, <1>2

(* Every share sums columns of the total, so with no negative delta it is *)
(* between 0 and the total.                                                *)
LEMMA ShareBound ==
  ASSUME NEW x \in [Fields -> Nat], NEW s \in Shares
  PROVE  /\ CpuTot(x) \in Nat
         /\ ShareCols(x)[s] \in 0 .. CpuTot(x)
<1>1. /\ x[1] \in Nat /\ x[2] \in Nat /\ x[3] \in Nat /\ x[4] \in Nat
      /\ x[5] \in Nat /\ x[6] \in Nat /\ x[7] \in Nat /\ x[8] \in Nat
      /\ x[9] \in Nat /\ x[10] \in Nat
  BY DEF Fields
<1>2. CpuTot(x) \in Nat  BY <1>1 DEF CpuTot
<1>3. ShareCols(x)[s] \in {x[1] + x[2], x[3], x[4], x[5], x[6], x[7], x[8], x[9] + x[10]}
  BY DEF Shares, ShareCols
<1>. QED  BY <1>1, <1>2, <1>3 DEF CpuTot

(* cpu_delta on a pair of readings whose counters did not go back: every   *)
(* share is a percentage in [0, 100], also when nothing was accounted.     *)
LEMMA CpuDeltaInRange ==
  ASSUME NEW p \in [Fields -> Int], NEW c \in [Fields -> Int],
         \A i \in Fields : c[i] >= p[i]
  PROVE  \A s \in Shares : /\ CpuDelta(p, c)[s].den > 0
                           /\ 0 <= CpuDelta(p, c)[s].num
                           /\ CpuDelta(p, c)[s].num <= 100 * CpuDelta(p, c)[s].den
<1> SUFFICES ASSUME NEW s \in Shares
             PROVE  /\ CpuDelta(p, c)[s].den > 0
                    /\ 0 <= CpuDelta(p, c)[s].num
                    /\ CpuDelta(p, c)[s].num <= 100 * CpuDelta(p, c)[s].den
  OBVIOUS
<1>1. CpuDl(p, c) \in [Fields -> Nat]  BY DEF CpuDl, Fields
<1>2. /\ CpuTot(CpuDl(p, c)) \in Nat
      /\ ShareCols(CpuDl(p, c))[s] \in 0 .. CpuTot(CpuDl(p, c))
  BY <1>1, ShareBound
<1>3. CASE CpuTot(CpuDl(p, c)) = 0
  <2>1. CpuDelta(p, c)[s] = Q(0, 1)  BY <1>3, CpuDeltaForm
  <2>. QED  BY <2>1 DEF Q
<1>4. CASE CpuTot(CpuDl(p, c)) # 0
  <2>1. CpuDelta(p, c)[s] = Q(100 * ShareCols(CpuDl(p, c))[s], CpuTot(CpuDl(p, c)))
    BY <1>4, CpuDeltaForm
  <2>. QED  BY <1>2, <1>4, <2>1 DEF Q
<1>. QED  BY <1>3, <1>4

(* diskstat_delta caps utilisation at 100 over any positive span.          *)
LEMMA DiskDeltaCapped ==
  ASSUME NEW prev, NEW curr, DiskSnap(prev), DiskSnap(curr),
         NEW dt \in Nat \ {0}
  PROVE  \A d \in DOMAIN DiskDelta(prev, curr, dt) :
            LET u == DiskDelta(prev, curr, dt)[d].io_util_pct
            IN  u.den > 0 /\ u.num <= 100 * u.den
<1> SUFFICES ASSUME NEW d \in DOMAIN curr \cap DOMAIN prev
             PROVE  LET u == DiskDelta(prev, curr, dt)[d].io_util_pct
                    IN  u.den > 0 /\ u.num <= 100 * u.den
  BY DEF DiskDelta
<1>1. curr[d]["weighted_ms_io"] - prev[d]["weighted_ms_io"] \in Int
  BY DEF DiskSnap, DiskFields
<1>2. DiskDelta(prev, curr, dt)[d].io_util_pct =
        LET w == curr[d]["weighted_ms_io"] - prev[d]["weighted_ms_io"]
        IN  IF w <= dt THEN Q(100 * w, dt) ELSE Q(100, 1)
  BY DEF DiskDelta
<1>. QED  BY <1>1, <1>2 DEF Q

(* ... and it keeps utilisation non-negative when no counter went back.     *)
LEMMA DiskDeltaInRange ==
  ASSUME NEW prev, NEW curr, DiskSnap(prev), DiskSnap(curr),
         NEW dt \in Nat \ {0},
         \A d \in DOMAIN curr \cap DOMAIN prev, f \in DiskFields :
            curr[d][f] >= prev[d][f]
  PROVE  \A d \in DOMAIN DiskDelta(prev, curr, dt) :
            LET u == DiskDelta(prev, curr, dt)[d].io_util_pct
            IN  0 <= u.num /\ u.num <= 100 * u.den
<1> SUFFICES ASSUME NEW d \in DOMAIN curr \cap DOMAIN prev
             PROVE  LET u == DiskDelta(prev, curr, dt)[d].io_util_pct
                    IN  0 <= u.num /\ u.num <= 100 * u.den
  BY DEF DiskDelta
<1>1. curr[d]["weighted_ms_io"] - prev[d]["weighted_ms_io"] \in Nat
  BY DEF DiskSnap, DiskFields
<1>2. DiskDelta(prev, curr, dt)[d].io_util_pct =
        LET w == curr[d]["weighted_ms_io"] - prev[d]["weighted_ms_io"]
        IN  IF w <= dt THEN Q(100 * w, dt) ELSE Q(100, 1)
  BY DEF DiskDelta
<1>. QED  BY <1>1, <1>2 DEF Q

-----------------------------------------------------------------------------
(* collect() starts with both snapshots at the base reading and no rows.  *)
LEMMA RateInit ==
  ASSUME RateAssumption
  PROVE  Init => RateInv
<1> SUFFICES ASSUME Init PROVE RateInv
  OBVIOUS
<1>1. BaseDisk \in [DiskFields -> Int]  BY BaseDiskType
<1>2. kcpu \in [Fields -> Int]  BY DEF Init, BaseCpu
<1>3. DiskSnap(kdisk) /\ DiskSnap(prevDisk)  BY <1>1 DEF Init, DiskSnap
<1>4. DiskUtilCapped  BY DEF Init, DiskUtilCapped
<1>. QED  BY <1>2, <1>3, <1>4 DEF Init, RateInv

(* Every tick of collect() and every step of the kernel keeps RateInv.    *)
LEMMA RateStep ==
  ASSUME RateAssumption
  PROVE  RateInv /\ [Next]_vars => RateInv'
<1> SUFFICES ASSUME RateInv, [Next]_vars PROVE RateInv'
  OBVIOUS
<1>1. CASE Tick
  <2>1. PICK dt \in DtMs : /\ cpuRow' = CpuDelta(prevCpu, kcpu)
                           /\ ioRows' = DiskDelta(prevDisk, kdisk, dt)
    BY <1>1 DEF Tick
  <2>2. dt \in Nat \ {0}  BY DEF RateAssumption
  <2>3. DiskUtilCapped'
    BY <2>1, <2>2, DiskDeltaCapped DEF RateInv, DiskUtilCapped
  <2>4. DiskSnap(kdisk') /\ DiskSnap(prevDisk')
    BY <1>1, BaseDiskType DEF Tick, RebaseDisk, DiskSnap
  <2>5. kcpu' \in [Fields -> Int] /\ prevCpu' = BaseCpu
    BY <1>1 DEF Tick, BaseCpu
  <2>. QED  BY <2>3, <2>4, <2>5 DEF RateInv
<1>2. CASE Jiffy
  <2>1. PICK m \in Fields :
          LET also == IF m = 9 THEN {1} ELSE IF m = 10 THEN {2} ELSE {}
          IN  kcpu' = [i \in Fields |->
                          IF i \in {m} \cup also THEN kcpu[i] + 1 ELSE kcpu[i]]
    BY <1>2 DEF Jiffy
  <2>2. kcpu' \in [Fields -> Int]  BY <2>1 DEF RateInv
  <2>. QED  BY <1>2, <2>2 DEF Jiffy, RateInv, DiskUtilCapped
<1>7. CASE IowaitBack
  <2>1. kcpu' \in [Fields -> Int]  BY <1>7 DEF IowaitBack, RateInv, Fields
  <2>. QED  BY <1>7, <2>1 DEF IowaitBack, RateInv, DiskUtilCapped
<1>3. CASE IoDone
  <2>1. PICK d \in Devs, dir \in {"read", "write"}, l \in Lats :
          /\ d \in DOMAIN kdisk
          /\ kdisk' = [kdisk EXCEPT ![d] = Done(@, dir, l)]
    BY <1>3 DEF IoDone
  <2>2. l \in Int  BY DEF RateAssumption
  <2>3. kdisk[d] \in [DiskFields -> Int]  BY <2>1 DEF RateInv, DiskSnap
  <2>4. Done(kdisk[d], dir, l) \in [DiskFields -> Int]  BY <2>2, <2>3, DoneType
  <2>5. DiskSnap(kdisk')  BY <2>1, <2>4 DEF RateInv, DiskSnap
  <2>. QED  BY <1>3, <2>5 DEF IoDone, RateInv, DiskUtilCapped
<1>4. CASE Unplug
  <2>1. DiskSnap(kdisk')  BY <1>4 DEF Unplug, Restrict, RateInv, DiskSnap
  <2>. QED  BY <1>4, <2>1 DEF Unplug, RateInv, DiskUtilCapped
<1>5. CASE Plug
  <2>1. FreshDisk \in [DiskFields -> Int]  BY DEF FreshDisk
  <2>2. DiskSnap(kdisk')  BY <1>5, <2>1 DEF Plug, RateInv, DiskSnap
  <2>. QED  BY <1>5, <2>2 DEF Plug, RateInv, DiskUtilCapped
<1>6. CASE UNCHANGED vars
  BY <1>6 DEF vars, RateInv, DiskUtilCapped, DiskSnap
<1>. QED  BY <1>1, <1>2, <1>3, <1>4, <1>5, <1>6, <1>7 DEF Next

(* Every row of io.csv that collect() writes has a utilisation of at most *)
(* 100 over a positive span (the min of diskstat_delta, 285), whatever the *)
(* kernel's counters did between ticks, replugs included.                  *)
THEOREM UtilCapped ==
  ASSUME RateAssumption
  PROVE  Spec => []DiskUtilCapped
<1>1. Spec => []RateInv  BY RateInit, RateStep, PTL DEF Spec
<1>. QED  BY <1>1, PTL DEF RateInv

(* A tick of collect() at which no /proc/stat column went back since the  *)
(* last tick writes a cpu.csv row of "all" whose every share is in         *)
(* [0, 100], the all-zero row of a zero total included: cpu_delta divides *)
(* by the sum of all ten column deltas, and each share sums some of them.  *)
(* The only way out of range is a column that went back, as iowait can.   *)
THEOREM CpuInRange ==
  ASSUME RateAssumption
  PROVE  Spec => CpuInRangeUnlessColumnBack
<1>1. Spec => []RateInv  BY RateInit, RateStep, PTL DEF Spec
<1>2. RateInv /\ Tick /\ NoColumnWentBack => CpuSharesInRange'
  <2> SUFFICES ASSUME RateInv, Tick, NoColumnWentBack PROVE CpuSharesInRange'
    OBVIOUS
  <2>1. cpuRow' = CpuDelta(prevCpu, kcpu)  BY DEF Tick
  <2>2. prevCpu \in [Fields -> Int] /\ kcpu \in [Fields -> Int]
    BY DEF RateInv, BaseCpu
  <2>. QED  BY <2>1, <2>2, CpuDeltaInRange DEF NoColumnWentBack, CpuSharesInRange
<1>. QED  BY <1>1, <1>2, PTL DEF CpuInRangeUnlessColumnBack

(* A tick of collect() at which no device's counters went back since the  *)
(* last tick writes only utilisations in [0, 100]: the only way below 0    *)
(* is a device that restarted its counters (the rate_util_clamp run).     *)
THEOREM UtilUnlessRestart ==
  ASSUME RateAssumption
  PROVE  Spec => UtilInRangeUnlessRestart
<1>1. Spec => []RateInv  BY RateInit, RateStep, PTL DEF Spec
<1>2. RateInv /\ Tick /\ NoCounterWentBack => DiskUtilInRange'
  <2> SUFFICES ASSUME RateInv, Tick, NoCounterWentBack PROVE DiskUtilInRange'
    OBVIOUS
  <2>1. PICK dt \in DtMs : ioRows' = DiskDelta(prevDisk, kdisk, dt)
    BY DEF Tick
  <2>2. dt \in Nat \ {0}  BY DEF RateAssumption
  <2>. QED  BY <2>1, <2>2, DiskDeltaInRange
            DEF RateInv, NoCounterWentBack, DiskUtilInRange
<1>. QED  BY <1>1, <1>2, PTL DEF UtilInRangeUnlessRestart

=============================================================================
