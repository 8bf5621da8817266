---------------------------- MODULE ProcTracker ----------------------------
(***************************************************************************)
(* The per-process block of collect() (sysmon.py lines 955-990) with      *)
(* find_tracked_procs (515-545) and read_proc_stats (547-584), on a       *)
(* process table the environment changes between and inside slow ticks.  *)
(*                                                                         *)
(* A PID slot holds at most one process at a time; a process is an        *)
(* incarnation number of its slot (gen), how it matches the patterns      *)
(* (by comm, by cmdline, or not at all), and which of its name files, if  *)
(* any, holds bytes that are not UTF-8 (read_file, 125-127, decodes in  *)
(* text mode).  Counters are abstracted to the incarnation they were read *)
(* from: prev_proc[pid] is the incarnation whose stats it holds.           *)
(* /proc is assumed listable: the os.listdir failure path (519-523) is    *)
(* left out.                                                               *)
(***************************************************************************)
EXTENDS Naturals

CONSTANTS
    Pids,         \* PID slots of /proc
    MaxGen,       \* incarnations per slot (PID reuse)
    ScanTicks,    \* PROC_SCAN_INTERVAL in slow ticks (5 s / 1 s)
    Undecodable   \* which name files may hold non-UTF-8 bytes

ASSUME TrackerAssumption ==
    /\ MaxGen \in Nat \ {0}
    /\ ScanTicks \in Nat \ {0}
    /\ Undecodable \subseteq {"comm", "cmdline"}

Kinds == {"comm", "cmdline", "none"}   \* which file matches a pattern
None == 0                              \* no incarnation

Proc == [gen : 0 .. MaxGen, alive : BOOLEAN, kind : Kinds,
         bad : Undecodable \cup {"none"}]

VARIABLES
    proc,        \* the process table
    tracked,     \* tracked_pids: the incarnation the last scan named, or None
    prevProc,    \* prev_proc: the incarnation of the stored stats, or None
    sinceScan,   \* slow ticks since last_proc_scan (capped at ScanTicks)
    pc,          \* "scan" before the block's rescan, "read" before its loop
    rows,        \* history: proc.csv rows of the current tick
    reusable     \* environment: the PIDs the kernel may hand out again

vars == <<proc, tracked, prevProc, sinceScan, pc, rows, reusable>>

Row == [pid : Pids, cur : 1 .. MaxGen, base : 1 .. MaxGen]

TypeOK ==
    /\ proc \in [Pids -> Proc]
    /\ tracked \in [Pids -> 0 .. MaxGen]
    /\ prevProc \in [Pids -> 0 .. MaxGen]
    /\ sinceScan \in 0 .. ScanTicks
    /\ pc \in {"scan", "read"}
    /\ rows \subseteq Row
    /\ reusable \subseteq Pids

(* collect() starts with empty tracked_pids and prev_proc (750-751) and    *)
(* last_proc_scan = 0, so the first slow tick rescans.                     *)
Init ==
    /\ proc \in [Pids -> {[gen |-> 0, alive |-> FALSE, kind |-> "none",
                           bad |-> "none"]}]
    /\ tracked = [p \in Pids |-> None]
    /\ prevProc = [p \in Pids |-> None]
    /\ sinceScan = ScanTicks
    /\ pc = "scan"
    /\ rows = {}
    /\ reusable = {}

(* find_tracked_procs reads comm of every live PID (529) and, unless comm *)
(* matched, its cmdline (537); it catches only FileNotFoundError,          *)
(* PermissionError and ProcessLookupError (543), so a UnicodeDecodeError  *)
(* from either read leaves the function.                                   *)
ScanRaises ==
    \E p \in Pids :
        /\ proc[p].alive
        /\ \/ proc[p].bad = "comm"
           \/ proc[p].bad = "cmdline" /\ proc[p].kind # "comm"

(* Mutant: the cmdline fallback (536-542) is dropped.                      *)
ScannedCommOnly == [p \in Pids |-> IF proc[p].alive /\ proc[p].kind = "comm"
                                   THEN proc[p].gen ELSE None]

(* The dict a completed scan returns: every live matching PID.            *)
Scanned == [p \in Pids |-> IF proc[p].alive /\ proc[p].kind # "none"
                           THEN proc[p].gen ELSE None]

(* Slow ticks since last_proc_scan, counting this one.                   *)
Elapsed == IF sinceScan + 1 < ScanTicks THEN sinceScan + 1 ELSE ScanTicks

(* The rescan test of line 956: PROC_SCAN_INTERVAL has passed.             *)
ScanDue == Elapsed = ScanTicks

(* Line 956, test false: the tracked set is kept.                          *)
SkipScan ==
    /\ pc = "scan"
    /\ ~ScanDue
    /\ sinceScan' = Elapsed
    /\ pc' = "read"
    /\ rows' = {}
    /\ UNCHANGED <<proc, tracked, prevProc, reusable>>

(* Lines 957 and 989: find_tracked_procs raises; the rest of the block is *)
(* skipped, so neither last_proc_scan nor tracked_pids moves and no PID   *)
(* is read this tick.                                                      *)
ScanFails ==
    /\ pc = "scan"
    /\ ScanDue
    /\ ScanRaises
    /\ sinceScan' = Elapsed
    /\ pc' = "scan"
    /\ rows' = {}
    /\ UNCHANGED <<proc, tracked, prevProc, reusable>>

(* Lines 957-958: the scan's dict replaces tracked_pids; last_proc_scan   *)
(* := now.  prev_proc is left as it is.                                    *)
Rescan ==
    /\ pc = "scan"
    /\ ScanDue
    /\ ~ScanRaises
    /\ tracked' = Scanned
    /\ sinceScan' = 0
    /\ pc' = "read"
    /\ rows' = {}
    /\ UNCHANGED <<proc, prevProc, reusable>>

(* read_proc_stats (547-584) returns None exactly when /proc/<pid>/stat   *)
(* cannot be read, that is when the process is gone; io and status read   *)
(* failures only zero their fields.                                        *)
StatsRead(p) == proc[p].alive

(* Mutant: a row is written without stored stats (`if pid in prev_proc`   *)
(* of line 969 dropped).                                                   *)
ReadStepUnguarded ==
    /\ pc = "read"
    /\ LET live(p) == tracked[p] # None /\ StatsRead(p)
           gone(p) == tracked[p] # None /\ ~StatsRead(p)
       IN  /\ tracked' = [p \in Pids |-> IF gone(p) THEN None ELSE tracked[p]]
           /\ prevProc' = [p \in Pids |->
                             IF gone(p) THEN None
                             ELSE IF live(p) THEN proc[p].gen
                             ELSE prevProc[p]]
           /\ rows' = {[pid |-> p, cur |-> proc[p].gen, base |-> prevProc[p]] :
                         p \in {q \in Pids : live(q)}}
    /\ pc' = "scan"
    /\ reusable' = reusable \cup {p \in Pids : ~proc[p].alive}
    /\ UNCHANGED <<proc, sinceScan>>

(* Mutant: a PID whose stat cannot be read is dropped from prev_proc but  *)
(* left in tracked_pids (the `tracked_pids.pop(pid, None)` of 963        *)
(* missing).                                                               *)
ReadStepKeepGone ==
    /\ pc = "read"
    /\ LET live(p) == tracked[p] # None /\ StatsRead(p)
           gone(p) == tracked[p] # None /\ ~StatsRead(p)
       IN  /\ tracked' = tracked
           /\ prevProc' = [p \in Pids |->
                             IF gone(p) THEN None
                             ELSE IF live(p) THEN proc[p].gen
                             ELSE prevProc[p]]
           /\ rows' = {[pid |-> p, cur |-> proc[p].gen, base |-> prevProc[p]] :
                         p \in {q \in Pids : live(q) /\ prevProc[q] # None}}
    /\ pc' = "scan"
    /\ reusable' = reusable \cup {p \in Pids : ~proc[p].alive}
    /\ UNCHANGED <<proc, sinceScan>>

(* Lines 960-987: for every tracked PID, read_proc_stats; a PID whose     *)
(* stat cannot be read is dropped from tracked_pids and prev_proc; a PID  *)
(* with stored stats gets a row of deltas against them; its stats are     *)
(* stored for the next tick.  PIDs no longer in tracked_pids are not      *)
(* visited.                                                                *)
ReadStep ==
    /\ pc = "read"
    /\ LET live(p) == tracked[p] # None /\ StatsRead(p)
           gone(p) == tracked[p] # None /\ ~StatsRead(p)
       IN  /\ tracked' = [p \in Pids |-> IF gone(p) THEN None ELSE tracked[p]]
           /\ prevProc' = [p \in Pids |->
                             IF gone(p) THEN None
                             ELSE IF live(p) THEN proc[p].gen
                             ELSE prevProc[p]]
           /\ rows' = {[pid |-> p, cur |-> proc[p].gen, base |-> prevProc[p]] :
                         p \in {q \in Pids : live(q) /\ prevProc[q] # None}}
    /\ pc' = "scan"
    /\ reusable' = reusable \cup {p \in Pids : ~proc[p].alive}
    /\ UNCHANGED <<proc, sinceScan>>

(* The environment: a process exits, or a free slot gets a new process.  *)
(* The kernel hands out PIDs cyclically, so a freed PID comes back only    *)
(* after far longer than a slow tick: not before the loop's next          *)
(* per-process read (ReadStep marks it reusable).                          *)
Exit(p) ==
    /\ proc[p].alive
    /\ proc' = [proc EXCEPT ![p].alive = FALSE]
    /\ reusable' = reusable \ {p}
    /\ UNCHANGED <<tracked, prevProc, sinceScan, pc, rows>>

Spawn(p) ==
    /\ ~proc[p].alive
    /\ proc[p].gen = 0 \/ p \in reusable
    /\ proc[p].gen < MaxGen
    /\ \E k \in Kinds, b \in Undecodable \cup {"none"} :
          proc' = [proc EXCEPT ![p] = [gen |-> proc[p].gen + 1, alive |-> TRUE,
                                       kind |-> k, bad |-> b]]
    /\ UNCHANGED <<tracked, prevProc, sinceScan, pc, rows, reusable>>

Tracker == SkipScan \/ ScanFails \/ Rescan \/ ReadStep

Env == \E p \in Pids : Exit(p) \/ Spawn(p)

Next == Tracker \/ Env

(* The sampling loop runs a slow tick every second for as long as the run *)
(* lasts; the process table changes at will.                               *)
Spec == Init /\ [][Next]_vars /\ WF_vars(Tracker)

-----------------------------------------------------------------------------
(* A live process that matches a pattern.                                  *)
Matching(p) == proc[p].alive /\ proc[p].kind # "none"

(***************************************************************************)
(* Spec 4.4: a process that matches, by comm or by cmdline, and stays     *)
(* alive is tracked from some rescan on, whatever other processes come    *)
(* and go, once no live process has a name the scan cannot decode.  The   *)
(* rescan retries every tick until it completes (last_proc_scan moves     *)
(* only then), and a completed rescan names every live match.  The        *)
(* hypothesis is needed: a UnicodeDecodeError at 543 aborts every rescan  *)
(* for as long as the undecodable process lives.                           *)
(***************************************************************************)
EventuallyTrackedOnceDecodable ==
    \A p \in Pids : <>[](Matching(p) /\ ~ScanRaises) =>
                        <>[](tracked[p] = proc[p].gen)

(***************************************************************************)
(* Spec 3 and 8: snapshots are comparable only if the counter identity    *)
(* matches, and a tracked process that disappears "is never re-derived    *)
(* from its stale last reading".  Every proc.csv row is a delta of two    *)
(* readings of one process.  A rescan (957) drops a PID that exited from  *)
(* tracked_pids but leaves its prev_proc entry, and a later process with  *)
(* the same PID that matches is differenced against it (969-976).          *)
(***************************************************************************)
DeltaSameIncarnation == \A r \in rows : r.cur = r.base

(* Every tracked PID whose stats are stored has them from the incarnation  *)
(* tracked_pids names: prev_proc agrees with tracked_pids.                 *)
StatsMatchTracked ==
    \A p \in Pids : tracked[p] # None /\ prevProc[p] # None =>
                        prevProc[p] = tracked[p]

(***************************************************************************)
(* Spec 3: a delta is taken only between two readings of one process.     *)
(* The per-process loop (960-987) keeps that on its own: a tick that       *)
(* starts with prev_proc agreeing with tracked_pids writes only rows of    *)
(* one incarnation and ends with them agreeing again.  The stale deltas   *)
(* of proc_stale_prev come from the rescan (957), which replaces          *)
(* tracked_pids without pruning prev_proc.                                 *)
(***************************************************************************)
LoopDeltaSound ==
    [][ReadStep /\ StatsMatchTracked =>
           DeltaSameIncarnation' /\ StatsMatchTracked']_vars

=============================================================================
