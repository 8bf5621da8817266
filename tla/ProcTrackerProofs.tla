------------------------- MODULE ProcTrackerProofs -------------------------
(***************************************************************************)
(* Type correctness of the per-process block (ProcTracker).  TypeOK is not *)
(* inductive: a proc.csv row names the incarnation of a live tracked PID   *)
(* as its `cur`, which is in 1 .. MaxGen only because a live process has   *)
(* been spawned at least once.  TypeInv adds that fact.                    *)
(***************************************************************************)
EXTENDS ProcTracker, TLAPS

TypeInv ==
    /\ TypeOK
    /\ \A p \in Pids : proc[p].alive => proc[p].gen \in 1 .. MaxGen

LEMMA TypeInvInit == Init => TypeInv
<1> SUFFICES ASSUME Init PROVE TypeInv
  OBVIOUS
<1>1. proc \in [Pids -> Proc]
  <2>1. [gen |-> 0, alive |-> FALSE, kind |-> "none", bad |-> "none"] \in Proc
    BY TrackerAssumption DEF Proc, Kinds
  <2>2. QED  BY <2>1 DEF Init
<1>2. sinceScan \in 0 .. ScanTicks
  BY TrackerAssumption DEF Init
<1>3. QED
  BY <1>1, <1>2, TrackerAssumption DEF Init, TypeInv, TypeOK, None, Row

(* The rows a read step writes (969-976) are rows of live tracked PIDs    *)
(* with stored stats, so both incarnations they name are real ones.       *)
LEMMA ReadRows ==
  ASSUME TypeInv, ReadStep
  PROVE  rows' \subseteq Row
<1> DEFINE live(p) == tracked[p] # None /\ StatsRead(p)
<1>1. rows' = {[pid |-> p, cur |-> proc[p].gen, base |-> prevProc[p]] :
                 p \in {q \in Pids : live(q) /\ prevProc[q] # None}}
  BY DEF ReadStep
<1>2. ASSUME NEW p \in Pids, live(p), prevProc[p] # None
      PROVE  [pid |-> p, cur |-> proc[p].gen, base |-> prevProc[p]] \in Row
  BY <1>2 DEF TypeInv, TypeOK, StatsRead, Row, None
<1>3. QED
  BY <1>1, <1>2

LEMMA TypeInvStep == TypeInv /\ [Next]_vars => TypeInv'
<1> SUFFICES ASSUME TypeInv, [Next]_vars PROVE TypeInv'
  OBVIOUS
<1>. USE TrackerAssumption DEF TypeInv, TypeOK, Proc, Kinds, None
<1>1. CASE SkipScan   BY <1>1 DEF SkipScan, Elapsed
<1>2. CASE ScanFails  BY <1>2 DEF ScanFails, Elapsed
<1>3. CASE Rescan     BY <1>3 DEF Rescan, Scanned
<1>4. CASE ReadStep
  <2>1. rows' \subseteq Row  BY <1>4, ReadRows
  <2>2. QED  BY <1>4, <2>1 DEF ReadStep, StatsRead
<1>5. ASSUME NEW p \in Pids, Exit(p) PROVE TypeInv'
  BY <1>5 DEF Exit
<1>6. ASSUME NEW p \in Pids, Spawn(p) PROVE TypeInv'
  BY <1>6 DEF Spawn
<1>7. CASE UNCHANGED vars  BY <1>7 DEF vars
<1>8. QED
  BY <1>1, <1>2, <1>3, <1>4, <1>5, <1>6, <1>7 DEF Next, Tracker, Env

(***************************************************************************)
(* The tracker's maps, its scan counter and the rows it writes keep their  *)
(* types for every PID set, incarnation bound and scan interval: every    *)
(* row of proc.csv names a process that was actually spawned.             *)
(***************************************************************************)
THEOREM TypeCorrect == Spec => []TypeOK
<1>1. Spec => []TypeInv  BY TypeInvInit, TypeInvStep, PTL DEF Spec
<1>2. QED  BY <1>1, PTL DEF TypeInv

-----------------------------------------------------------------------------
(* What the tracker keeps true of tracked_pids besides the types: a       *)
(* tracked PID names the incarnation now in its slot (a rescan names only *)
(* live processes, and the loop drops a PID as soon as its stat is gone), *)
(* and a free slot the kernel may hand out again is not tracked.  The     *)
(* second fact is what keeps the first across a Spawn.                     *)
LoopInv ==
    /\ TypeInv
    /\ \A p \in Pids : tracked[p] # None => tracked[p] = proc[p].gen
    /\ \A p \in Pids : ~proc[p].alive /\ (p \in reusable \/ proc[p].gen = 0)
                           => tracked[p] = None

LEMMA LoopInvInit == Init => LoopInv
BY TypeInvInit DEF Init, LoopInv, None

LEMMA LoopInvStep == LoopInv /\ [Next]_vars => LoopInv'
<1> SUFFICES ASSUME LoopInv, [Next]_vars PROVE LoopInv'
  OBVIOUS
<1>0. TypeInv'  BY TypeInvStep DEF LoopInv
<1>. USE DEF LoopInv
<1>1. CASE SkipScan   BY <1>0, <1>1 DEF SkipScan
<1>2. CASE ScanFails  BY <1>0, <1>2 DEF ScanFails
<1>3. CASE Rescan     BY <1>0, <1>3 DEF Rescan, Scanned
<1>4. CASE ReadStep   BY <1>0, <1>4 DEF ReadStep, StatsRead
<1>5. ASSUME NEW p \in Pids, Exit(p) PROVE LoopInv'
  BY <1>0, <1>5 DEF Exit, TypeInv, TypeOK, Proc
<1>6. ASSUME NEW p \in Pids, Spawn(p) PROVE LoopInv'
  BY <1>0, <1>6 DEF Spawn, TypeInv, TypeOK, Proc
<1>7. CASE UNCHANGED vars  BY <1>0, <1>7 DEF vars
<1>8. QED
  BY <1>1, <1>2, <1>3, <1>4, <1>5, <1>6, <1>7 DEF Next, Tracker, Env

(* One per-process pass from agreeing maps: the row of a live tracked PID *)
(* with stored stats is its current incarnation against the stats of that *)
(* same incarnation, and what the pass stores agrees with what it keeps.  *)
LEMMA LoopStep ==
  ASSUME LoopInv, ReadStep, StatsMatchTracked
  PROVE  DeltaSameIncarnation' /\ StatsMatchTracked'
<1> DEFINE live(p) == tracked[p] # None /\ StatsRead(p)
<1>1. rows' = {[pid |-> p, cur |-> proc[p].gen, base |-> prevProc[p]] :
                 p \in {q \in Pids : live(q) /\ prevProc[q] # None}}
  BY DEF ReadStep
<1>2. ASSUME NEW p \in Pids, live(p), prevProc[p] # None
      PROVE  proc[p].gen = prevProc[p]
  BY <1>2 DEF LoopInv, StatsMatchTracked
<1>3. DeltaSameIncarnation'  BY <1>1, <1>2 DEF DeltaSameIncarnation
<1>4. StatsMatchTracked'
  BY DEF ReadStep, StatsMatchTracked, LoopInv, StatsRead
<1>. QED  BY <1>3, <1>4

(***************************************************************************)
(* The per-process loop is sound on its own, for every PID set, number of *)
(* reuses and scan interval: a tick that starts with prev_proc agreeing   *)
(* with tracked_pids writes only deltas of one process and leaves them    *)
(* agreeing.  Only the rescan at 957 makes them disagree (proc_stale_prev).*)
(***************************************************************************)
THEOREM LoopSound == Spec => LoopDeltaSound
<1>1. Spec => []LoopInv  BY LoopInvInit, LoopInvStep, PTL DEF Spec
<1>2. LoopInv /\ [Next]_vars =>
        [ReadStep /\ StatsMatchTracked =>
            DeltaSameIncarnation' /\ StatsMatchTracked']_vars
  BY LoopStep
<1>. QED  BY <1>1, <1>2, PTL DEF Spec, LoopDeltaSound

=============================================================================
