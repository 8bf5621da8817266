----------------------------- MODULE CgWatcher -----------------------------
(***************************************************************************)
(* The scan loop of src/monitoring/cgroups/cgwatcher.py: run_loop (278-   *)
(* 299) calls scan_and_classify (222-265) every INTERVAL seconds, which   *)
(* lists /proc, skips processes of other users, classifies the rest with  *)
(* match_process (197-219) and moves a process into its class's slice     *)
(* (CFS) or renices it (PDS/BMQ) unless it already has the setting.       *)
(*                                                                         *)
(* A process of this user is abstracted to the class of the first rule    *)
(* its names match (rules are tried in the config's order), whether comm  *)
(* or, failing that, cmdline gave the match, which of its name files holds *)
(* bytes that are not UTF-8 (Path.read_text decodes them), and its         *)
(* priority: its slice under CFS, its nice value under PDS/BMQ, inherited *)
(* from whoever started it.  A process of another user, and a PID slot    *)
(* with no process, carry nothing the daemon reads.  The environment      *)
(* starts, ends and exec()s processes at any point of the scan.  The      *)
(* sleep between passes is left implicit.                                  *)
(***************************************************************************)
EXTENDS Naturals

CONSTANTS
    Pids,          \* PID slots of /proc
    Undecodable,   \* which name files may hold non-UTF-8 bytes
    CapSysNice     \* python3 has CAP_SYS_NICE (the warning at 188-190)

ASSUME WatcherAssumption ==
    /\ Undecodable \subseteq {"comm", "cmdline"}
    /\ CapSysNice \in BOOLEAN

(* CLASSES (36-40) and their nice values.                                  *)
Classes == {"simulator", "streamer", "tools"}
NiceOf == [simulator |-> 0, streamer |-> 5, tools |-> 10]

NoClass == "none"

(* The priorities a process can have under each scheduler; "app" is a     *)
(* slice of none of the classes.                                           *)
Prios(sched) == IF sched = "cfs" THEN Classes \cup {"app"} ELSE {0, 5, 10}

(* The class a priority setting stands for (252 for CFS, 260 for PDS/BMQ;*)
(* no class name is a substring of another's slice name).                  *)
Setting(sched, c) == IF sched = "cfs" THEN c ELSE NiceOf[c]

Gone == [alive |-> FALSE, own |-> FALSE, cls |-> NoClass, via |-> "cmdline",
         bad |-> "none", prio |-> "app"]

VARIABLES
    proc,        \* the process table
    scheduler,   \* detect_scheduler() (58-78), fixed at startup; "pds" stands
                 \* for both nice-value schedulers, PDS and BMQ
    pc,          \* "list", "scan" (visiting todo), "enforce", or "dead"
    todo,        \* the /proc entries of this pass not visited yet
    matched      \* the PID and class match_process returned

vars == <<proc, scheduler, pc, todo, matched>>

OwnProc(sched) ==
    [alive : {TRUE}, own : {TRUE}, cls : Classes \cup {NoClass},
     via : {"comm", "cmdline"}, bad : Undecodable \cup {"none"},
     prio : Prios(sched)]

(* A process of another user: the daemon reads nothing of it but its      *)
(* priority, which the PID reuse of Permitted can let it change.           *)
ForeignProc(sched) ==
    {[Gone EXCEPT !.alive = TRUE, !.prio = v] :
        v \in IF sched = "cfs" THEN {"app"} ELSE Prios(sched)}

NoMatch == [pid |-> 0, cls |-> NoClass]

TypeOK ==
    /\ scheduler \in {"cfs", "pds"}
    /\ proc \in [Pids -> OwnProc(scheduler) \cup ForeignProc(scheduler) \cup {Gone}]
    /\ pc \in {"list", "scan", "enforce", "dead"}
    /\ todo \subseteq Pids
    /\ matched \in [pid : Pids \cup {0}, cls : Classes \cup {NoClass}]

Init ==
    /\ proc = [p \in Pids |-> Gone]
    /\ scheduler \in {"cfs", "pds"}
    /\ pc = "list"
    /\ todo = {}
    /\ matched = NoMatch

(* The priority class c asks for is in place (251-253, 258-259 compare    *)
(* the PID's current slice or nice value, whoever owns it; a PID with no   *)
(* process reads as "" or None).                                           *)
HasSetting(p, c) == proc[p].alive /\ proc[p].prio = Setting(scheduler, c)

(* Mutant: the cmdline fallback (208-217) is dropped.                     *)
MatchesCommOnly(p) == IF proc[p].via = "comm" THEN proc[p].cls ELSE NoClass

(* match_process (197-219): the first rule comm matches, else the first   *)
(* rule cmdline matches, else None.                                        *)
Matches(p) == proc[p].cls

(* Reading comm (200), or cmdline when comm matched no rule (210), raises *)
(* UnicodeDecodeError on non-UTF-8 bytes; only FileNotFoundError and      *)
(* PermissionError are caught.                                             *)
Raises(p) ==
    \/ proc[p].bad = "comm"
    \/ proc[p].bad = "cmdline" /\ ~(proc[p].via = "comm" /\ proc[p].cls # NoClass)

-----------------------------------------------------------------------------
(* Lines 226-231: os.listdir("/proc") at the start of a pass.             *)
ListProc ==
    /\ pc = "list"
    /\ todo' = {p \in Pids : proc[p].alive}
    /\ pc' = "scan"
    /\ UNCHANGED <<proc, scheduler, matched>>

(* Lines 231-244: the next entry.  A PID that is gone (239) or belongs to  *)
(* another user (237) is skipped, and so is one no rule matches (243).     *)
Skip(p) ==
    /\ pc = "scan"
    /\ p \in todo
    /\ \/ ~(proc[p].alive /\ proc[p].own)
       \/ ~Raises(p) /\ Matches(p) = NoClass
    /\ todo' = todo \ {p}
    /\ UNCHANGED <<proc, scheduler, pc, matched>>

(* Lines 242-247: match_process returns the class of the first rule.      *)
Match(p) ==
    /\ pc = "scan"
    /\ p \in todo
    /\ proc[p].alive /\ proc[p].own
    /\ ~Raises(p)
    /\ Matches(p) # NoClass
    /\ todo' = todo \ {p}
    /\ matched' = [pid |-> p, cls |-> Matches(p)]
    /\ pc' = "enforce"
    /\ UNCHANGED <<proc, scheduler>>

(* Lines 200 and 210: a UnicodeDecodeError leaves match_process,          *)
(* scan_and_classify and run_once; run_loop catches only                  *)
(* KeyboardInterrupt (298), so the daemon ends.                            *)
Crash(p) ==
    /\ pc = "scan"
    /\ p \in todo
    /\ proc[p].alive /\ proc[p].own
    /\ Raises(p)
    /\ pc' = "dead"
    /\ UNCHANGED <<proc, scheduler, todo, matched>>

(* Lines 199-200, 209-212 and 123-126: the process is reaped between the  *)
(* open of its comm, cmdline or (CFS) cgroup file and the read, which then *)
(* raises ProcessLookupError (ESRCH); only FileNotFoundError and          *)
(* PermissionError are caught, so the daemon ends as in Crash.  The exit  *)
(* is the environment's, the crash its consequence.                        *)
ExitMidRead(p) ==
    /\ \/ pc = "scan" /\ p \in todo /\ proc[p].alive /\ proc[p].own
       \/ pc = "enforce" /\ p = matched.pid /\ scheduler = "cfs" /\ proc[p].alive
    /\ proc' = [proc EXCEPT ![p] = Gone]
    /\ pc' = "dead"
    /\ UNCHANGED <<scheduler, todo, matched>>

(* What the kernel lets the write of 150 or the setpriority of 179 do.    *)
(* The PID may have been reused by another user's process since the uid   *)
(* check of 236.  Writing cgroup.procs moves only a process from the     *)
(* user's own cgroups.  setpriority (set_one_prio_perm) lets              *)
(* CAP_SYS_NICE renice any process; without it, only a process of the     *)
(* same uid, and only to a nice value no lower than its own, and the      *)
(* renice fallback (181-190) has the same rights.                         *)
Permitted(p, c) ==
    \/ scheduler = "cfs" /\ proc[p].own
    \/ scheduler = "pds" /\ CapSysNice
    \/ scheduler = "pds" /\ proc[p].own /\ NiceOf[c] >= proc[p].prio

(* Mutant: the class's CPU weight is used as its nice value.              *)
EnforceWrongKey ==
    /\ pc = "enforce"
    /\ LET p == matched.pid
           c == matched.cls
           WeightOf == [simulator |-> 1000, streamer |-> 300, tools |-> 100]
       IN  IF proc[p].alive /\ ~HasSetting(p, c) /\ Permitted(p, c)
           THEN proc' = [proc EXCEPT ![p].prio =
                           IF scheduler = "cfs" THEN c ELSE WeightOf[c]]
           ELSE UNCHANGED proc
    /\ matched' = NoMatch
    /\ pc' = "scan"
    /\ UNCHANGED <<scheduler, todo>>

(* Lines 249-263: read the current slice or nice value; if it differs,    *)
(* move_pid_to_slice (141-164) or set_pid_nice (176-193).  A process that *)
(* ended meanwhile reads as "" or None and the write fails with an         *)
(* OSError that is logged.                                                 *)
Enforce ==
    /\ pc = "enforce"
    /\ LET p == matched.pid
           c == matched.cls
       IN  IF proc[p].alive /\ ~HasSetting(p, c) /\ Permitted(p, c)
           THEN proc' = [proc EXCEPT ![p].prio = Setting(scheduler, c)]
           ELSE UNCHANGED proc
    /\ matched' = NoMatch
    /\ pc' = "scan"
    /\ UNCHANGED <<scheduler, todo>>

(* Line 265 and 296-297: the pass is over; sleep, then the next pass.     *)
EndPass ==
    /\ pc = "scan"
    /\ todo = {}
    /\ pc' = "list"
    /\ UNCHANGED <<proc, scheduler, todo, matched>>

-----------------------------------------------------------------------------
(* The environment.  A new process inherits its priority from its parent; *)
(* exec() changes its names and keeps the priority.                        *)
Start(p) ==
    /\ ~proc[p].alive
    /\ \E r \in OwnProc(scheduler) \cup ForeignProc(scheduler) : proc' = [proc EXCEPT ![p] = r]
    /\ UNCHANGED <<scheduler, pc, todo, matched>>

End(p) ==
    /\ proc[p].alive
    /\ proc' = [proc EXCEPT ![p] = Gone]
    /\ UNCHANGED <<scheduler, pc, todo, matched>>

Exec(p) ==
    /\ proc[p].alive /\ proc[p].own
    /\ \E r \in OwnProc(scheduler) :
          /\ r.prio = proc[p].prio
          /\ proc' = [proc EXCEPT ![p] = r]
    /\ UNCHANGED <<scheduler, pc, todo, matched>>

Watcher ==
    \/ ListProc \/ EndPass \/ Enforce
    \/ \E p \in Pids : Skip(p) \/ Match(p) \/ Crash(p)

Env == \E p \in Pids : Start(p) \/ End(p) \/ Exec(p) \/ ExitMidRead(p)

Next == Watcher \/ Env

(* The daemon loops for as long as it runs; processes come and go at will.*)
Spec == Init /\ [][Next]_vars /\ WF_vars(Watcher)

-----------------------------------------------------------------------------
(* A live process of this user whose comm or cmdline matches class c.     *)
Settled(p, c) == proc[p].alive /\ proc[p].own /\ proc[p].cls = c

(***************************************************************************)
(* The daemon's purpose (spec 2: it classifies processes by name pattern  *)
(* and applies the scheduler's enforcement): a process of this user that *)
(* stays alive and keeps matching class c is given c's slice or nice      *)
(* value from some scan on, whatever other processes come, go or exec.     *)
(* It needs every pass to complete and the daemon to keep running.         *)
(***************************************************************************)
EventuallyEnforced ==
    \A p \in Pids, c \in Classes :
        <>[]Settled(p, c) => <>[]HasSetting(p, c)

(***************************************************************************)
(* With names that may not decode, the UnicodeDecodeError of match_process *)
(* (200, 210) is the only thing that stops enforcement: as long as the     *)
(* daemon survives, a process of this user that stays alive and keeps     *)
(* matching class c, by comm or by cmdline, gets c's setting.  A process  *)
(* whose comm matches is classified without its cmdline being read.        *)
(***************************************************************************)
EnforcedWhileAlive ==
    \A p \in Pids, c \in Classes :
        <>[](Settled(p, c) /\ pc # "dead") => <>[]HasSetting(p, c)

=============================================================================
