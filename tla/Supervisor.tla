----------------------------- MODULE Supervisor -----------------------------
(***************************************************************************)
(* main() of sysmon.py (lines 1451-1558) as the supervisor of its two     *)
(* background activities: the journalctl GPU event monitor started by a  *)
(* daemon thread (_start_gpu_event_monitor, 1371-1393) and the X-Plane    *)
(* telemetry recorder subprocess (1490-1511, xplane_telemetry.py main).   *)
(* SIGTERM to sysmon raises KeyboardInterrupt wherever main is (1469-     *)
(* 1472); only collect() catches it (1002).                                *)
(*                                                                         *)
(* The telemetry child is modelled by what its main loop does with a      *)
(* SIGTERM (xplane_telemetry.py 194-257): before its handler is installed *)
(* (while it first subscribes) the signal kills it; in the recording      *)
(* loop the handler clears `running`, which the loop sees within one       *)
(* socket timeout; inside resubscribe(wait=True) (108-113) it is ignored   *)
(* until X-Plane answers.  Its CSV is block-buffered, flushed every 10 s,  *)
(* before a resubscribe, and on close.  Time passes only in main's         *)
(* bounded wait, in seconds.                                               *)
(***************************************************************************)
EXTENDS Naturals

CONSTANTS
    Grace,        \* xplane_telem_proc.wait(timeout=5), line 1533
    RecvTimeout   \* the telemetry socket timeout, settimeout(3.0), line 60

ASSUME SupervisorAssumption == Grace \in Nat /\ RecvTimeout \in Nat

MainPcs == {"start", "dmesgPre", "monSpawn", "monWait", "collect",
            "stopTelem", "waitTelem", "stopMon", "dmesgPost", "report", "exit"}

TelemStates == {"none", "subscribing", "recording", "resubscribing", "exited"}

JournalStates == {"none", "pending", "running", "exited"}

VARIABLES
    pc,          \* where main is
    withTelem,   \* --xplane given and the script found
    withDmesg,   \* --no-dmesg not given
    telem,       \* the telemetry child
    telemTerm,   \* the child has been sent SIGTERM
    telemDirty,  \* the child's CSV buffer holds rows not yet written
    journal,     \* the journalctl child: pending until the thread's Popen
    monHandle,   \* gpu_mon_proc is not None
    waited,      \* seconds main has waited for the telemetry child
    crashed,     \* history: main left by an uncaught KeyboardInterrupt
    telemLost    \* history: the child was killed with rows in its buffer

vars == <<pc, withTelem, withDmesg, telem, telemTerm, telemDirty, journal,
          monHandle, waited, crashed, telemLost>>

TypeOK ==
    /\ pc \in MainPcs
    /\ withTelem \in BOOLEAN /\ withDmesg \in BOOLEAN
    /\ telem \in TelemStates
    /\ telemTerm \in BOOLEAN /\ telemDirty \in BOOLEAN
    /\ journal \in JournalStates
    /\ monHandle \in BOOLEAN
    /\ waited \in 0 .. Grace
    /\ crashed \in BOOLEAN /\ telemLost \in BOOLEAN

Init ==
    /\ pc = "start"
    /\ withTelem \in BOOLEAN
    /\ withDmesg \in BOOLEAN
    /\ telem = "none"
    /\ telemTerm = FALSE
    /\ telemDirty = FALSE
    /\ journal = "none"
    /\ monHandle = FALSE
    /\ waited = 0
    /\ crashed = FALSE
    /\ telemLost = FALSE

Running(s) == s \notin {"none", "exited"}

-----------------------------------------------------------------------------
(* Lines 1490-1515: Popen of the telemetry recorder, then the crash       *)
(* diagnostics unless --no-dmesg.                                          *)
Start ==
    /\ pc = "start"
    /\ telem' = IF withTelem THEN "subscribing" ELSE "none"
    /\ pc' = IF withDmesg THEN "dmesgPre" ELSE "collect"
    /\ UNCHANGED <<withTelem, withDmesg, telemTerm, telemDirty, journal,
                   monHandle, waited, crashed, telemLost>>

(* Line 1517: _capture_dmesg(OUTDIR, "pre"); a failure only warns.         *)
DmesgPre ==
    /\ pc = "dmesgPre"
    /\ pc' = "monSpawn"
    /\ UNCHANGED <<withTelem, withDmesg, telem, telemTerm, telemDirty,
                   journal, monHandle, waited, crashed, telemLost>>

(* Lines 1389-1390: the monitor thread is started.                        *)
MonSpawn ==
    /\ pc = "monSpawn"
    /\ journal' = "pending"
    /\ pc' = "monWait"
    /\ UNCHANGED <<withTelem, withDmesg, telem, telemTerm, telemDirty,
                   monHandle, waited, crashed, telemLost>>

(* Lines 1392-1393: after time.sleep(0.3) main returns `proc` as the      *)
(* thread has set it so far: None if its Popen has not run yet.            *)
MonReturn ==
    /\ pc = "monWait"
    /\ monHandle' = (journal = "running")
    /\ pc' = "collect"
    /\ UNCHANGED <<withTelem, withDmesg, telem, telemTerm, telemDirty,
                   journal, waited, crashed, telemLost>>

(* Lines 1524-1526: collect() returns, at the end of its duration or      *)
(* after catching the KeyboardInterrupt of a signal.                       *)
CollectDone ==
    /\ pc = "collect"
    /\ pc' = "stopTelem"
    /\ UNCHANGED <<withTelem, withDmesg, telem, telemTerm, telemDirty,
                   journal, monHandle, waited, crashed, telemLost>>

(* Mutant: the terminate() call is dropped before the wait.               *)
StopTelemNoTerminate ==
    /\ pc = "stopTelem"
    /\ IF Running(telem)
       THEN /\ waited' = 0
            /\ pc' = "waitTelem"
            /\ UNCHANGED <<telemTerm, telem>>
       ELSE /\ pc' = "stopMon"
            /\ UNCHANGED <<telemTerm, telem, waited>>
    /\ UNCHANGED <<withTelem, withDmesg, telemDirty, journal, monHandle,
                   crashed, telemLost>>

(* Lines 1529-1531: if the child still runs, terminate() it.  A child     *)
(* still in its first subscribe has no handler yet and dies.               *)
StopTelem ==
    /\ pc = "stopTelem"
    /\ IF Running(telem)
       THEN /\ telemTerm' = TRUE
            /\ telem' = IF telem = "subscribing" THEN "exited" ELSE telem
            /\ waited' = 0
            /\ pc' = "waitTelem"
       ELSE /\ pc' = "stopMon"
            /\ UNCHANGED <<telemTerm, telem, waited>>
    /\ UNCHANGED <<withTelem, withDmesg, telemDirty, journal, monHandle,
                   crashed, telemLost>>

(* Mutant: wait() without its timeout.                                     *)
WaitTelemUnbounded ==
    /\ pc = "waitTelem"
    /\ Running(telem)
    /\ ~(telem = "recording" /\ waited >= RecvTimeout)
    /\ waited' = waited + 1
    /\ UNCHANGED <<pc, withTelem, withDmesg, telem, telemTerm, telemDirty,
                   journal, monHandle, crashed, telemLost>>

(* Line 1533: wait(timeout=5) while the child runs; a child in its        *)
(* recording loop leaves it within one socket timeout of the signal.      *)
WaitTelem ==
    /\ pc = "waitTelem"
    /\ Running(telem)
    /\ waited < Grace
    /\ ~(telem = "recording" /\ waited >= RecvTimeout)
    /\ waited' = waited + 1
    /\ UNCHANGED <<pc, withTelem, withDmesg, telem, telemTerm, telemDirty,
                   journal, monHandle, crashed, telemLost>>

(* Lines 1533 and 1536-1539: wait() returns; the CSV's lines are counted. *)
TelemGone ==
    /\ pc = "waitTelem"
    /\ ~Running(telem)
    /\ pc' = "stopMon"
    /\ UNCHANGED <<withTelem, withDmesg, telem, telemTerm, telemDirty,
                   journal, monHandle, waited, crashed, telemLost>>

(* Mutant: kill() at once, without the grace period.                       *)
KillTelemNoWait ==
    /\ pc = "waitTelem"
    /\ Running(telem)
    /\ telem' = "exited"
    /\ telemLost' = (telemLost \/ telemDirty)
    /\ telemDirty' = FALSE
    /\ pc' = "stopMon"
    /\ UNCHANGED <<withTelem, withDmesg, telemTerm, journal, monHandle,
                   waited, crashed>>

(* Mutant: no kill() after the timeout.                                    *)
KillTelemNever ==
    /\ pc = "waitTelem"
    /\ Running(telem)
    /\ waited > Grace
    /\ telem' = "exited"
    /\ telemLost' = (telemLost \/ telemDirty)
    /\ telemDirty' = FALSE
    /\ pc' = "stopMon"
    /\ UNCHANGED <<withTelem, withDmesg, telemTerm, journal, monHandle,
                   waited, crashed>>

(* Lines 1534-1539: TimeoutExpired, kill(), the CSV's lines are counted;  *)
(* the rows in the child's buffer are gone.                                *)
KillTelem ==
    /\ pc = "waitTelem"
    /\ Running(telem)
    /\ waited = Grace
    /\ telem' = "exited"
    /\ telemLost' = (telemLost \/ telemDirty)
    /\ telemDirty' = FALSE
    /\ pc' = "stopMon"
    /\ UNCHANGED <<withTelem, withDmesg, telemTerm, journal, monHandle,
                   waited, crashed>>

(* Lines 1542-1547: terminate the monitor if main holds its handle;       *)
(* journalctl exits on SIGTERM, well inside wait(timeout=3).               *)
StopMon ==
    /\ pc = "stopMon"
    /\ journal' = IF monHandle /\ journal = "running" THEN "exited" ELSE journal
    /\ pc' = IF withDmesg THEN "dmesgPost" ELSE "report"
    /\ UNCHANGED <<withTelem, withDmesg, telem, telemTerm, telemDirty,
                   monHandle, waited, crashed, telemLost>>

(* Lines 1548-1549: _capture_dmesg(OUTDIR, "post").                        *)
DmesgPost ==
    /\ pc = "dmesgPost"
    /\ pc' = "report"
    /\ UNCHANGED <<withTelem, withDmesg, telem, telemTerm, telemDirty,
                   journal, monHandle, waited, crashed, telemLost>>

(* Lines 1551-1558: summary and correlation; main returns.                 *)
Report ==
    /\ pc = "report"
    /\ pc' = "exit"
    /\ UNCHANGED <<withTelem, withDmesg, telem, telemTerm, telemDirty,
                   journal, monHandle, waited, crashed, telemLost>>

(* SIGTERM to sysmon (1469-1472): inside collect() the loop catches the   *)
(* KeyboardInterrupt and returns; anywhere else it leaves main, and the    *)
(* process exits with its children as they are.                            *)
SigTerm ==
    /\ pc \notin {"exit"}
    /\ IF pc = "collect"
       THEN /\ pc' = "stopTelem" /\ UNCHANGED crashed
       ELSE /\ pc' = "exit" /\ crashed' = TRUE
    /\ UNCHANGED <<withTelem, withDmesg, telem, telemTerm, telemDirty,
                   journal, monHandle, waited, telemLost>>

-----------------------------------------------------------------------------
(* The monitor thread (1377-1387): open gpu_events.log, Popen journalctl. *)
MonPopen ==
    /\ journal = "pending"
    /\ journal' = "running"
    /\ UNCHANGED <<pc, withTelem, withDmesg, telem, telemTerm, telemDirty,
                   monHandle, waited, crashed, telemLost>>

(* The telemetry child.  subscribe(wait=True) returns once X-Plane         *)
(* answers (xplane_telemetry.py 196).                                      *)
TelemConnect ==
    /\ telem = "subscribing"
    /\ telem' = "recording"
    /\ UNCHANGED <<pc, withTelem, withDmesg, telemTerm, telemDirty, journal,
                   monHandle, waited, crashed, telemLost>>

(* A row is written to the buffered CSV (225-233).  After a SIGTERM the    *)
(* loop writes at most the row of the recv in progress and then ends,     *)
(* which TelemEnd covers.                                                  *)
TelemRow ==
    /\ telem = "recording"
    /\ ~telemTerm
    /\ telemDirty' = TRUE
    /\ UNCHANGED <<pc, withTelem, withDmesg, telem, telemTerm, journal,
                   monHandle, waited, crashed, telemLost>>

(* The flush every 10 s (235-238).                                         *)
TelemFlush ==
    /\ telem = "recording"
    /\ telemDirty
    /\ telemDirty' = FALSE
    /\ UNCHANGED <<pc, withTelem, withDmesg, telem, telemTerm, journal,
                   monHandle, waited, crashed, telemLost>>

(* RESUBSCRIBE_AFTER consecutive timeouts (244-251): flush, then           *)
(* resubscribe(), which blocks until X-Plane answers whatever `running`.   *)
TelemResubscribe ==
    /\ telem = "recording"
    /\ telem' = "resubscribing"
    /\ telemDirty' = FALSE
    /\ UNCHANGED <<pc, withTelem, withDmesg, telemTerm, journal, monHandle,
                   waited, crashed, telemLost>>

(* resubscribe() returns once X-Plane answers; back at `while running`   *)
(* (219) a loop whose `running` was cleared meanwhile ends, closing and   *)
(* flushing the CSV.                                                       *)
TelemReconnect ==
    /\ telem = "resubscribing"
    /\ telem' = IF telemTerm THEN "exited" ELSE "recording"
    /\ telemDirty' = (telemDirty /\ ~telemTerm)
    /\ UNCHANGED <<pc, withTelem, withDmesg, telemTerm, journal,
                   monHandle, waited, crashed, telemLost>>

(* The loop ends, on `running` cleared or on its duration (219-223); the  *)
(* `with` block closes, and flushes, the CSV (215).                        *)
TelemEnd ==
    /\ telem = "recording"
    /\ telem' = "exited"
    /\ telemDirty' = FALSE
    /\ UNCHANGED <<pc, withTelem, withDmesg, telemTerm, journal, monHandle,
                   waited, crashed, telemLost>>

Main ==
    \/ Start \/ DmesgPre \/ MonSpawn \/ MonReturn \/ CollectDone
    \/ StopTelem \/ WaitTelem \/ TelemGone \/ KillTelem
    \/ StopMon \/ DmesgPost \/ Report

Telemetry ==
    TelemConnect \/ TelemRow \/ TelemFlush \/ TelemResubscribe
    \/ TelemReconnect \/ TelemEnd

Next == Main \/ MonPopen \/ Telemetry \/ SigTerm

(* Main and the monitor thread are always runnable.  The recording loop   *)
(* ends by itself at its duration, so TelemEnd is weakly fair; whether     *)
(* X-Plane answers, and a signal, are the environment's choice.            *)
Spec == Init /\ [][Next]_vars
        /\ WF_vars(Main) /\ WF_vars(MonPopen) /\ WF_vars(TelemEnd)

-----------------------------------------------------------------------------
(***************************************************************************)
(* Spec 5: the telemetry child is asked to stop gracefully and forced     *)
(* only if unresponsive.  No row it has written is lost: a SIGTERM that   *)
(* reaches its recording loop ends it, with the CSV closed and flushed,   *)
(* within one socket timeout (3 s), well inside main's 5 s wait; the only *)
(* state it can be killed in is resubscribe(), and the loop flushes the   *)
(* CSV before entering it (249).                                           *)
(***************************************************************************)
TelemetryRowsKept == ~telemLost

(***************************************************************************)
(* main reaches its end whatever the telemetry child does: its wait is    *)
(* bounded and followed by kill() (1533-1535), so a child stuck in        *)
(* resubscribe() waiting for X-Plane, which ignores SIGTERM, does not      *)
(* hold up the teardown.                                                   *)
(***************************************************************************)
Termination == <>(pc = "exit")

(***************************************************************************)
(* Spec 5: after collect() returns, both background activities are        *)
(* terminated before reporting.  _start_gpu_event_monitor returns the     *)
(* journalctl handle as its thread has set it after time.sleep(0.3)       *)
(* (1392-1393); if the thread's Popen comes later, main holds None, skips *)
(* the terminate (1542), and journalctl -f outlives sysmon (a daemon      *)
(* thread that has not reached its Popen dies with the interpreter).      *)
(***************************************************************************)
JournalStoppedAtTeardown ==
    (pc = "exit" /\ ~crashed) => journal # "running"

(***************************************************************************)
(* Spec 5: an external stop signal leads to teardown, which terminates    *)
(* the background activities.  The SIGTERM handler (1469-1472) raises     *)
(* KeyboardInterrupt, which only collect() catches (1002): a signal while *)
(* main is starting up, in the 0.3 s sleep, or in the teardown itself     *)
(* leaves main, and the telemetry child outlives sysmon.                   *)
(***************************************************************************)
SignalStopsTelemetry ==
    (pc = "exit" /\ crashed) => ~Running(telem)

-----------------------------------------------------------------------------
(* The telemetry child as a supervised process (SupervisedProcess): one    *)
(* that has had its SIGTERM is stopping, except in its first subscribe,    *)
(* where the signal kills it.                                              *)
TelemChild ==
    IF telem = "none" THEN "absent"
    ELSE IF telem = "exited" THEN "stopped"
    ELSE IF telem = "subscribing" THEN "starting"
    ELSE IF telemTerm THEN "stopping"
    ELSE "running"

(* main's side: its own work up to the terminate() (1529-1531), the       *)
(* bounded wait (1532-1535), then the CSV count and the rest of the       *)
(* teardown; a KeyboardInterrupt outside collect() abandons the child.     *)
TelemPhase ==
    IF pc \in {"start", "dmesgPre", "monSpawn", "monWait", "collect",
              "stopTelem"} THEN "before"
    ELSE IF pc = "waitTelem" THEN "stopping"
    ELSE IF pc = "exit" /\ crashed THEN "abandoned"
    ELSE "after"

Child == INSTANCE SupervisedProcess WITH child <- TelemChild, sup <- TelemPhase

(***************************************************************************)
(* Spec 9's supervised-process lifecycle and spec 5's teardown order: main *)
(* and the telemetry recorder implement SupervisedProcess.  The child is   *)
(* launched once (1490-1503), asked to stop only by main's terminate()    *)
(* (1531), stopped for good once it exits or is killed (1535), and main    *)
(* reads its output only after that.                                       *)
(***************************************************************************)
SupervisedChildSpec == Child!Spec

=============================================================================
