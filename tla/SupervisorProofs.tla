-------------------------- MODULE SupervisorProofs --------------------------
(***************************************************************************)
(* Proofs about main()'s teardown of the telemetry child (Supervisor).     *)
(*                                                                         *)
(* TelemetryRowsKept is not inductive: it says nothing of the state in     *)
(* which main sends kill().  The strengthening TeardownInv records why a  *)
(* kill never meets unwritten rows: main waits only after terminate(), so *)
(* the child has its SIGTERM; a child in its recording loop ends within   *)
(* one socket timeout, so it is still recording only while main has       *)
(* waited at most RecvTimeout seconds; and a child blocked in             *)
(* resubscribe() flushed its CSV before entering it.  With RecvTimeout <  *)
(* Grace (3 s and 5 s in the code) the kill after Grace seconds can only  *)
(* find a child in resubscribe(), with an empty buffer.                    *)
(***************************************************************************)
EXTENDS Supervisor, TLAPS

(* What main's wait knows of the child, and the child's buffer while it    *)
(* is blocked in resubscribe().                                            *)
WaitFacts ==
    /\ pc = "waitTelem" => /\ telemTerm
                           /\ telem # "subscribing"
                           /\ telem = "recording" => waited <= RecvTimeout
    /\ telem = "resubscribing" => ~telemDirty

(* main counts the CSV's lines (1536-1539) only after wait() returned or  *)
(* kill() was sent, so past that point the child no longer runs.          *)
ChildGoneWhenRead ==
    pc \in {"stopMon", "dmesgPost", "report"} => ~Running(telem)

TeardownInv ==
    /\ TypeOK
    /\ ChildGoneWhenRead
    /\ TelemetryRowsKept
    /\ WaitFacts

-----------------------------------------------------------------------------
(***************************************************************************)
(* Type correctness: every variable of main, the monitor thread and the    *)
(* telemetry child stays in its range; main's wait counter never passes   *)
(* the 5 s of wait(timeout=5).                                             *)
(***************************************************************************)
LEMMA TypeOKInit == Init => TypeOK
<1> SUFFICES ASSUME Init PROVE TypeOK
  OBVIOUS
<1>1. waited \in 0 .. Grace
  BY SupervisorAssumption DEF Init
<1>2. QED
  BY <1>1, Zenon DEF Init, TypeOK, MainPcs, TelemStates, JournalStates

LEMMA TypeOKStep == TypeOK /\ [Next]_vars => TypeOK'
<1> SUFFICES ASSUME TypeOK, [Next]_vars PROVE TypeOK'
  OBVIOUS
<1>. USE SupervisorAssumption DEF TypeOK, MainPcs, TelemStates, JournalStates,
                                 Running
<1>1. CASE Start        BY <1>1 DEF Start
<1>2. CASE DmesgPre     BY <1>2 DEF DmesgPre
<1>3. CASE MonSpawn     BY <1>3 DEF MonSpawn
<1>4. CASE MonReturn    BY <1>4 DEF MonReturn
<1>5. CASE CollectDone  BY <1>5 DEF CollectDone
<1>6. CASE StopTelem
  <2>1. CASE Running(telem)
    <3>1. waited' \in 0 .. Grace  BY <1>6, <2>1 DEF StopTelem
    <3>2. QED  BY <1>6, <2>1, <3>1, Zenon DEF StopTelem
  <2>2. CASE ~Running(telem)  BY <1>6, <2>2, Zenon DEF StopTelem
  <2>3. QED  BY <2>1, <2>2
<1>7. CASE WaitTelem    BY <1>7 DEF WaitTelem
<1>8. CASE TelemGone    BY <1>8 DEF TelemGone
<1>9. CASE KillTelem    BY <1>9 DEF KillTelem
<1>10. CASE StopMon     BY <1>10 DEF StopMon
<1>11. CASE DmesgPost   BY <1>11 DEF DmesgPost
<1>12. CASE Report      BY <1>12 DEF Report
<1>13. CASE MonPopen    BY <1>13 DEF MonPopen
<1>14. CASE TelemConnect     BY <1>14 DEF TelemConnect
<1>15. CASE TelemRow         BY <1>15 DEF TelemRow
<1>16. CASE TelemFlush       BY <1>16 DEF TelemFlush
<1>17. CASE TelemResubscribe BY <1>17 DEF TelemResubscribe
<1>18. CASE TelemReconnect   BY <1>18 DEF TelemReconnect
<1>19. CASE TelemEnd         BY <1>19 DEF TelemEnd
<1>20. CASE SigTerm
  <2>1. CASE pc = "collect"   BY <1>20, <2>1 DEF SigTerm
  <2>2. CASE pc # "collect"   BY <1>20, <2>2 DEF SigTerm
  <2>3. QED  BY <2>1, <2>2
<1>21. CASE UNCHANGED vars   BY <1>21 DEF vars
<1>22. QED
  BY <1>1, <1>2, <1>3, <1>4, <1>5, <1>6, <1>7, <1>8, <1>9, <1>10, <1>11,
     <1>12, <1>13, <1>14, <1>15, <1>16, <1>17, <1>18, <1>19, <1>20, <1>21
  DEF Next, Main, Telemetry

THEOREM TypeCorrect == Spec => []TypeOK
  BY TypeOKInit, TypeOKStep, PTL DEF Spec

-----------------------------------------------------------------------------
(***************************************************************************)
(* TeardownInv holds initially and is kept by every step of main, of the   *)
(* monitor thread, of the telemetry child and of a SIGTERM, whenever the  *)
(* child's socket timeout is shorter than main's grace period.            *)
(***************************************************************************)
LEMMA InvInit == Init => TeardownInv
<1> SUFFICES ASSUME Init PROVE TeardownInv
  OBVIOUS
<1>1. TypeOK  BY TypeOKInit
<1>2. QED
  BY <1>1 DEF Init, TeardownInv, ChildGoneWhenRead, TelemetryRowsKept,
              WaitFacts, Running

LEMMA InvStep ==
  ASSUME RecvTimeout < Grace
  PROVE  TeardownInv /\ [Next]_vars => TeardownInv'
<1> SUFFICES ASSUME TeardownInv, [Next]_vars PROVE TeardownInv'
  OBVIOUS
<1>1. TypeOK'  BY TypeOKStep DEF TeardownInv
<1>. USE SupervisorAssumption, <1>1
     DEF TeardownInv, ChildGoneWhenRead, TelemetryRowsKept, WaitFacts,
         Running, TypeOK, TelemStates, MainPcs
<1>2. CASE Start        BY <1>2 DEF Start
<1>3. CASE DmesgPre     BY <1>3 DEF DmesgPre
<1>4. CASE MonSpawn     BY <1>4 DEF MonSpawn
<1>5. CASE MonReturn    BY <1>5 DEF MonReturn
<1>6. CASE CollectDone  BY <1>6 DEF CollectDone
<1>7. CASE StopTelem    BY <1>7 DEF StopTelem
<1>8. CASE WaitTelem    BY <1>8 DEF WaitTelem
<1>9. CASE TelemGone    BY <1>9 DEF TelemGone
<1>10. CASE KillTelem   BY <1>10 DEF KillTelem
<1>11. CASE StopMon     BY <1>11 DEF StopMon
<1>12. CASE DmesgPost   BY <1>12 DEF DmesgPost
<1>13. CASE Report      BY <1>13 DEF Report
<1>14. CASE MonPopen    BY <1>14 DEF MonPopen
<1>15. CASE TelemConnect     BY <1>15 DEF TelemConnect
<1>16. CASE TelemRow         BY <1>16 DEF TelemRow
<1>17. CASE TelemFlush       BY <1>17 DEF TelemFlush
<1>18. CASE TelemResubscribe BY <1>18 DEF TelemResubscribe
<1>19. CASE TelemReconnect   BY <1>19 DEF TelemReconnect
<1>20. CASE TelemEnd         BY <1>20 DEF TelemEnd
<1>21. CASE SigTerm          BY <1>21 DEF SigTerm
<1>22. CASE UNCHANGED vars   BY <1>22 DEF vars
<1>23. QED
  BY <1>2, <1>3, <1>4, <1>5, <1>6, <1>7, <1>8, <1>9, <1>10, <1>11, <1>12,
     <1>13, <1>14, <1>15, <1>16, <1>17, <1>18, <1>19, <1>20, <1>21, <1>22
  DEF Next, Main, Telemetry

(***************************************************************************)
(* The kill after wait(timeout=5) (1534-1535) never discards telemetry    *)
(* rows, for every grace period longer than the child's socket timeout:   *)
(* the child still buffering rows has left its loop by then, and the one  *)
(* blocked in resubscribe() flushed before it blocked.                    *)
(***************************************************************************)
THEOREM RowsKept ==
  ASSUME RecvTimeout < Grace
  PROVE  Spec => []TelemetryRowsKept
<1>1. Spec => []TeardownInv  BY InvInit, InvStep, PTL DEF Spec
<1>2. QED  BY <1>1, PTL DEF TeardownInv

-----------------------------------------------------------------------------
(***************************************************************************)
(* The refinement of SupervisedProcess.  A step maps to a step of the      *)
(* lifecycle only if main's terminate() (1531) is the first SIGTERM the    *)
(* child gets, a child in its first subscribe has not had one, main's     *)
(* Popen (1502) meets no child yet, and a KeyboardInterrupt outside       *)
(* collect() is the last thing main does.  LifecycleInv records these.    *)
(***************************************************************************)
LifecycleInv ==
    /\ TypeOK
    /\ pc = "start" => telem = "none"
    /\ pc \in {"start", "dmesgPre", "monSpawn", "monWait", "collect",
               "stopTelem"} => ~telemTerm
    /\ telem = "subscribing" => ~telemTerm
    /\ crashed => pc = "exit"

LEMMA LifecycleInit == Init => LifecycleInv
BY TypeOKInit DEF Init, LifecycleInv

LEMMA LifecycleStep == LifecycleInv /\ [Next]_vars => LifecycleInv'
<1> SUFFICES ASSUME LifecycleInv, [Next]_vars PROVE LifecycleInv'
  OBVIOUS
<1>1. TypeOK'  BY TypeOKStep DEF LifecycleInv
<1>. USE <1>1 DEF LifecycleInv, TypeOK, MainPcs, TelemStates, Running
<1>2. CASE Start        BY <1>2 DEF Start
<1>3. CASE DmesgPre     BY <1>3 DEF DmesgPre
<1>4. CASE MonSpawn     BY <1>4 DEF MonSpawn
<1>5. CASE MonReturn    BY <1>5 DEF MonReturn
<1>6. CASE CollectDone  BY <1>6 DEF CollectDone
<1>7. CASE StopTelem    BY <1>7 DEF StopTelem
<1>8. CASE WaitTelem    BY <1>8 DEF WaitTelem
<1>9. CASE TelemGone    BY <1>9 DEF TelemGone
<1>10. CASE KillTelem   BY <1>10 DEF KillTelem
<1>11. CASE StopMon     BY <1>11 DEF StopMon
<1>12. CASE DmesgPost   BY <1>12 DEF DmesgPost
<1>13. CASE Report      BY <1>13 DEF Report
<1>14. CASE MonPopen    BY <1>14 DEF MonPopen
<1>15. CASE TelemConnect     BY <1>15 DEF TelemConnect
<1>16. CASE TelemRow         BY <1>16 DEF TelemRow
<1>17. CASE TelemFlush       BY <1>17 DEF TelemFlush
<1>18. CASE TelemResubscribe BY <1>18 DEF TelemResubscribe
<1>19. CASE TelemReconnect   BY <1>19 DEF TelemReconnect
<1>20. CASE TelemEnd         BY <1>20 DEF TelemEnd
<1>21. CASE SigTerm          BY <1>21 DEF SigTerm
<1>22. CASE UNCHANGED vars   BY <1>22 DEF vars
<1>23. QED
  BY <1>2, <1>3, <1>4, <1>5, <1>6, <1>7, <1>8, <1>9, <1>10, <1>11, <1>12,
     <1>13, <1>14, <1>15, <1>16, <1>17, <1>18, <1>19, <1>20, <1>21, <1>22
  DEF Next, Main, Telemetry

LEMMA ChildInit == Init => Child!Init
BY DEF Init, Child!Init, TelemChild, TelemPhase

(* Every step of main, of the monitor thread, of the telemetry child and   *)
(* of a SIGTERM is a step of the child's lifecycle or leaves it alone.     *)
LEMMA ChildStep == LifecycleInv /\ [Next]_vars => [Child!Next]_Child!absVars
<1> SUFFICES ASSUME LifecycleInv, [Next]_vars PROVE [Child!Next]_Child!absVars
  OBVIOUS
<1>. USE DEF LifecycleInv, TypeOK, MainPcs, TelemStates, Running, TelemChild,
             TelemPhase, Child!absVars, Child!Next
<1>1. CASE Start
  <2>1. CASE withTelem  BY <1>1, <2>1 DEF Start, Child!Launch
  <2>2. CASE ~withTelem  BY <1>1, <2>2 DEF Start
  <2>. QED  BY <2>1, <2>2
<1>2. CASE DmesgPre \/ MonSpawn \/ MonReturn \/ CollectDone \/ MonPopen
  BY <1>2 DEF DmesgPre, MonSpawn, MonReturn, CollectDone, MonPopen
<1>3. CASE StopTelem
  <2>1. CASE telem = "subscribing"
    BY <1>3, <2>1 DEF StopTelem, Child!Request
  <2>2. CASE telem \in {"recording", "resubscribing"}
    BY <1>3, <2>2 DEF StopTelem, Child!Request
  <2>3. CASE telem \in {"none", "exited"}
    BY <1>3, <2>3 DEF StopTelem, Child!Collect
  <2>. QED  BY <2>1, <2>2, <2>3
<1>4. CASE WaitTelem    BY <1>4 DEF WaitTelem
<1>5. CASE TelemGone
  <2>1. TelemPhase = "stopping" /\ TelemPhase' = "after"
    BY <1>5 DEF TelemGone
  <2>2. telem \in {"none", "exited"} /\ telem' = telem
    BY <1>5 DEF TelemGone
  <2>3. TelemChild \in {"absent", "stopped"} /\ TelemChild' = TelemChild
    BY <2>2
  <2>. QED  BY <2>1, <2>3 DEF Child!Collect
<1>6. CASE KillTelem
  <2>1. TelemPhase = "stopping" /\ TelemPhase' = "after"
    BY <1>6 DEF KillTelem
  <2>2. telem \notin {"none", "exited"} /\ telem' = "exited"
    BY <1>6 DEF KillTelem
  <2>3. TelemChild \in {"starting", "running", "stopping"} /\ TelemChild' = "stopped"
    BY <2>2
  <2>. QED  BY <2>1, <2>3 DEF Child!Kill
<1>7. CASE StopMon \/ DmesgPost \/ Report
  BY <1>7 DEF StopMon, DmesgPost, Report
<1>8. CASE TelemConnect  BY <1>8 DEF TelemConnect, Child!Ready
<1>9. CASE TelemRow \/ TelemFlush \/ TelemResubscribe
  BY <1>9 DEF TelemRow, TelemFlush, TelemResubscribe
<1>10. CASE TelemReconnect
  <2>1. CASE telemTerm  BY <1>10, <2>1 DEF TelemReconnect, Child!Exit
  <2>2. CASE ~telemTerm  BY <1>10, <2>2 DEF TelemReconnect
  <2>. QED  BY <2>1, <2>2
<1>11. CASE TelemEnd  BY <1>11 DEF TelemEnd, Child!Exit
<1>12. CASE SigTerm
  <2>1. CASE pc = "collect"  BY <1>12, <2>1 DEF SigTerm
  <2>2. CASE pc # "collect"  BY <1>12, <2>2 DEF SigTerm, Child!Abandon
  <2>. QED  BY <2>1, <2>2
<1>13. CASE UNCHANGED vars  BY <1>13 DEF vars
<1>14. QED
  BY <1>1, <1>2, <1>3, <1>4, <1>5, <1>6, <1>7, <1>8, <1>9, <1>10, <1>11,
     <1>12, <1>13
  DEF Next, Main, Telemetry

(***************************************************************************)
(* main and the telemetry recorder implement the supervised-process        *)
(* lifecycle of spec 9 (SupervisedChildSpec), for every grace period and   *)
(* socket timeout: the child is launched once, asked to stop only by       *)
(* main's terminate(), stopped for good once it exits or is killed, and    *)
(* its output read only then.                                               *)
(***************************************************************************)
THEOREM ChildRefinement == Spec => SupervisedChildSpec
<1>1. Spec => []LifecycleInv
  BY LifecycleInit, LifecycleStep, PTL DEF Spec
<1>2. QED
  BY <1>1, ChildInit, ChildStep, PTL DEF Spec, SupervisedChildSpec, Child!Spec

=============================================================================
