--------------------------- MODULE SamplerProofs ---------------------------
(***************************************************************************)
(* Proofs about the sampling loop of Sampler, for every value of the      *)
(* constants that ClockAssumption and FallibleAssumption allow.           *)
(***************************************************************************)
EXTENDS Sampler, TLAPS

(* The step names of the loop thread, used to split Next.                 *)
TickPcs == Sources \cup {"end"}

(***************************************************************************)
(* Type correctness of the loop's variables.                               *)
(***************************************************************************)
LEMMA TypeOKInit == Init => TypeOK
  BY ClockAssumption DEF Init, TypeOK, Unbound, NoRow, Row, Pcs,
                         Differenced, RateStreams

LEMMA TypeOKStep == TypeOK /\ [Next]_vars => TypeOK'
<1> SUFFICES ASSUME TypeOK, [Next]_vars PROVE TypeOK'
  OBVIOUS
<1>. USE ClockAssumption DEF TypeOK, Pcs, Sources, FastSources, SlowSources,
                             Succ, Row, Differenced, RateStreams, Unbound
<1>1. CASE Tick      BY <1>1 DEF Tick
<1>2. CASE Finish    BY <1>2 DEF Finish
<1>3. CASE CpuStep   BY <1>3 DEF CpuStep, Outcomes
<1>4. CASE DiskStep  BY <1>4 DEF DiskStep, Outcomes
<1>5. CASE MemStep   BY <1>5 DEF MemStep
<1>6. CASE IrqStep   BY <1>6 DEF IrqStep, Outcomes
<1>7. ASSUME NEW s \in {"gpu", "psi", "freq"}, GaugeStep(s) PROVE TypeOK'
  BY <1>7 DEF GaugeStep
<1>8. CASE VmstatStep  BY <1>8 DEF VmstatStep, Outcomes
<1>9. CASE ProcStep    BY <1>9 DEF ProcStep, Outcomes
<1>10. CASE EndTick    BY <1>10 DEF EndTick
<1>11. CASE Interrupt  BY <1>11 DEF Interrupt
<1>12. CASE UNCHANGED vars  BY <1>12 DEF vars
<1>13. QED
  BY <1>1, <1>2, <1>3, <1>4, <1>5, <1>6, <1>7, <1>8, <1>9, <1>10, <1>11,
     <1>12 DEF Next, Loop

(* The loop's variables keep their types.                                 *)
THEOREM TypeCorrect == Spec => []TypeOK
  BY TypeOKInit, TypeOKStep, PTL DEF Spec

(***************************************************************************)
(* The timing invariant behind Cadence.  Between ticks the clock is less  *)
(* than MinDt past the last accepted tick (it was just set, or the tick   *)
(* was dropped); inside an accepted tick it is between MinDt and          *)
(* MaxTickGap past it; and the last accepted tick is less than SlowPeriod *)
(* after the last slow tick, because a tick that reaches the slow gate     *)
(* moves last_slow to itself.                                              *)
(***************************************************************************)
TimingInv ==
    /\ TypeOK
    /\ lastSlow <= prevTime
    /\ prevTime <= now
    /\ prevTime - lastSlow < SlowPeriod
    /\ pc = "sleep" => now - prevTime < MinDt
    /\ pc \in TickPcs => now - prevTime \in MinDt .. MaxTickGap

LEMMA TimingInvInit == Init => TimingInv
  BY TypeOKInit, ClockAssumption DEF Init, TimingInv, Pcs, TickPcs, Sources,
                                     FastSources, SlowSources

LEMMA TimingInvStep == TimingInv /\ [Next]_vars => TimingInv'
<1> SUFFICES ASSUME TimingInv, [Next]_vars PROVE TimingInv'
  OBVIOUS
<1>. USE ClockAssumption DEF TimingInv, TickPcs, Pcs, Sources, FastSources,
                             SlowSources, Succ, MaxTickGap
<1>0. TypeOK'
  BY TypeOKStep
<1>1. CASE Tick
  <2>1. PICK d \in SleepMin .. SleepMax :
            /\ now' = now + d
            /\ pc' = IF now + d - prevTime < MinDt THEN "sleep" ELSE "cpu"
    BY <1>1 DEF Tick
  <2>2. pc = "sleep" /\ UNCHANGED <<prevTime, lastSlow>>
    BY <1>1 DEF Tick
  <2>3. now - prevTime < MinDt
    BY <2>2
  <2>. QED
    BY <2>1, <2>2, <2>3, <1>0 DEF TypeOK
<1>2. CASE Finish     BY <1>2, <1>0 DEF Finish, TypeOK
<1>3. CASE CpuStep    BY <1>3, <1>0 DEF CpuStep, TypeOK
<1>4. CASE DiskStep   BY <1>4, <1>0 DEF DiskStep, TypeOK
<1>5. CASE MemStep    BY <1>5, <1>0 DEF MemStep, TypeOK
<1>6. CASE IrqStep    BY <1>6, <1>0 DEF IrqStep, TypeOK
<1>7. ASSUME NEW s \in {"gpu", "psi", "freq"}, GaugeStep(s) PROVE TimingInv'
  BY <1>7, <1>0 DEF GaugeStep, TypeOK
<1>8. CASE VmstatStep BY <1>8, <1>0 DEF VmstatStep, TypeOK
<1>9. CASE ProcStep   BY <1>9, <1>0 DEF ProcStep, TypeOK
<1>10. CASE EndTick
  BY <1>10, <1>0 DEF EndTick, SlowDue, TypeOK
<1>11. CASE Interrupt BY <1>11, <1>0 DEF Interrupt, TypeOK
<1>12. CASE UNCHANGED vars  BY <1>12, <1>0 DEF vars, TypeOK
<1>13. QED
  BY <1>1, <1>2, <1>3, <1>4, <1>5, <1>6, <1>7, <1>8, <1>9, <1>10, <1>11,
     <1>12 DEF Next, Loop

(* TimingInv holds in every reachable state.                              *)
LEMMA TimingInvariant == Spec => []TimingInv
  BY TimingInvInit, TimingInvStep, PTL DEF Spec

(***************************************************************************)
(* Cadence, for every value of the constants: accepted ticks are between  *)
(* MinDt and MaxTickGap apart, slow ticks between SlowPeriod and          *)
(* SlowPeriod + MaxTickGap - 1 apart, rescans at least ScanPeriod apart.  *)
(* A step that moves prev_time or last_slow is EndTick, whose distance to *)
(* the old value TimingInv bounds; a step that moves last_proc_scan is    *)
(* ProcStep under its ScanPeriod guard.                                    *)
(***************************************************************************)
LEMMA CadenceStep ==
    TimingInv /\ [Next]_vars =>
        [ /\ prevTime' # prevTime =>
                prevTime' - prevTime \in MinDt .. MaxTickGap
          /\ lastSlow' # lastSlow =>
                lastSlow' - lastSlow \in SlowPeriod .. SlowPeriod + MaxTickGap - 1
          /\ lastProcScan' # lastProcScan =>
                lastProcScan' - lastProcScan >= ScanPeriod
        ]_vars
<1> SUFFICES ASSUME TimingInv, [Next]_vars
             PROVE  /\ prevTime' # prevTime =>
                          prevTime' - prevTime \in MinDt .. MaxTickGap
                    /\ lastSlow' # lastSlow =>
                          lastSlow' - lastSlow \in SlowPeriod .. SlowPeriod + MaxTickGap - 1
                    /\ lastProcScan' # lastProcScan =>
                          lastProcScan' - lastProcScan >= ScanPeriod
  OBVIOUS
<1>. USE ClockAssumption DEF TimingInv, TypeOK, TickPcs, Sources, FastSources,
                             SlowSources, MaxTickGap
<1>1. CASE EndTick
  <2>1. pc = "end" /\ UNCHANGED lastProcScan
    BY <1>1 DEF EndTick
  <2>2. now - prevTime \in MinDt .. MaxTickGap
    BY <2>1
  <2>. QED
    BY <1>1, <2>1, <2>2 DEF EndTick, SlowDue
<1>2. CASE ProcStep
  BY <1>2 DEF ProcStep, Outcomes
<1>3. CASE ~EndTick /\ ~ProcStep
  <2>. UNCHANGED <<prevTime, lastSlow, lastProcScan>>
    BY <1>3 DEF Next, Loop, Tick, Finish, CpuStep, DiskStep, MemStep,
                IrqStep, GaugeStep, VmstatStep, Interrupt, vars
  <2>. QED
    OBVIOUS
<1>. QED
  BY <1>1, <1>2, <1>3

THEOREM CadenceHolds == Spec => Cadence
  BY TimingInvariant, CadenceStep, PTL DEF Cadence, Spec

=============================================================================
