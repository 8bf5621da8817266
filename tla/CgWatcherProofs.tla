-------------------------- MODULE CgWatcherProofs --------------------------
(***************************************************************************)
(* Type correctness of the cgwatcher scan loop (CgWatcher).  TypeOK is not *)
(* inductive: the enforcement step writes the setting of matched.cls into *)
(* proc[matched.pid], which stays a process record of the scheduler's     *)
(* kind only because match_process returned a real PID and class.          *)
(* TypeInv adds that fact.                                                  *)
(***************************************************************************)
EXTENDS CgWatcher, TLAPS

TypeInv ==
    /\ TypeOK
    /\ pc = "enforce" => matched.pid \in Pids /\ matched.cls \in Classes

(* The setting a class asks for is a priority the scheduler knows.        *)
LEMMA SettingType ==
  ASSUME NEW sched \in {"cfs", "pds"}, NEW c \in Classes
  PROVE  Setting(sched, c) \in Prios(sched)
  BY DEF Setting, Prios, Classes, NiceOf

(* Changing the priority of a process of this user keeps it one.          *)
LEMMA ReprioType ==
  ASSUME NEW sched \in {"cfs", "pds"}, NEW r \in OwnProc(sched),
         NEW v \in Prios(sched)
  PROVE  [r EXCEPT !.prio = v] \in OwnProc(sched)
  BY DEF OwnProc

(* The daemon never takes another user's process for one of this user's. *)
LEMMA ForeignNotOwn ==
  ASSUME NEW sched, NEW r \in ForeignProc(sched)
  PROVE  ~r.own
  BY DEF ForeignProc, Gone

LEMMA TypeInvInit == Init => TypeInv
<1> SUFFICES ASSUME Init PROVE TypeInv
  OBVIOUS
<1>1. Gone \in {Gone}  OBVIOUS
<1>2. QED
  BY <1>1 DEF Init, TypeInv, TypeOK, NoMatch, NoClass

LEMMA TypeInvStep == TypeInv /\ [Next]_vars => TypeInv'
<1> SUFFICES ASSUME TypeInv, [Next]_vars PROVE TypeInv'
  OBVIOUS
<1>. USE DEF TypeInv, TypeOK
<1>1. CASE ListProc  BY <1>1 DEF ListProc
<1>2. CASE EndPass   BY <1>2 DEF EndPass
<1>3. CASE Enforce
  <2> DEFINE p == matched.pid
             c == matched.cls
  <2>1. p \in Pids /\ c \in Classes  BY <1>3 DEF Enforce
  <2>2. CASE proc[p].alive /\ ~HasSetting(p, c) /\ Permitted(p, c)
    <3>1. Setting(scheduler, c) \in Prios(scheduler)
      BY <2>1, SettingType
    <3>2. proc' = [proc EXCEPT ![p].prio = Setting(scheduler, c)]
      BY <1>3, <2>2 DEF Enforce
    <3>3. proc[p] \in OwnProc(scheduler) \cup ForeignProc(scheduler)
      BY <2>1, <2>2 DEF Gone
    <3>4. [proc[p] EXCEPT !.prio = Setting(scheduler, c)]
            \in OwnProc(scheduler) \cup ForeignProc(scheduler)
      <4>1. CASE proc[p] \in OwnProc(scheduler)
        BY <3>1, <4>1, ReprioType
      <4>2. CASE proc[p] \in ForeignProc(scheduler)
        \* only PDS/BMQ lets another user's process be reniced
        <5>1. PICK v \in IF scheduler = "cfs" THEN {"app"} ELSE Prios(scheduler) :
                proc[p] = [Gone EXCEPT !.alive = TRUE, !.prio = v]
          BY <4>2 DEF ForeignProc
        <5>2. ~proc[p].own  BY <5>1 DEF Gone
        <5>3. scheduler = "pds"  BY <2>2, <5>2 DEF Permitted
        <5>4. [proc[p] EXCEPT !.prio = Setting(scheduler, c)]
                = [Gone EXCEPT !.alive = TRUE, !.prio = Setting(scheduler, c)]
          BY <5>1 DEF Gone
        <5>. QED  BY <5>3, <5>4, <3>1 DEF ForeignProc
      <4>3. QED  BY <3>3, <4>1, <4>2
    <3>5. proc' \in [Pids -> OwnProc(scheduler) \cup ForeignProc(scheduler) \cup {Gone}]
      BY <3>2, <3>4, <2>1
    <3>6. QED  BY <3>5, <1>3 DEF Enforce, NoMatch, NoClass
  <2>3. CASE ~(proc[p].alive /\ ~HasSetting(p, c) /\ Permitted(p, c))
    BY <1>3, <2>3 DEF Enforce, NoMatch, NoClass
  <2>4. QED  BY <2>2, <2>3
<1>4. ASSUME NEW p \in Pids, Skip(p) PROVE TypeInv'
  BY <1>4 DEF Skip
<1>5. ASSUME NEW p \in Pids, Match(p) PROVE TypeInv'
  <2>1. proc[p] \in OwnProc(scheduler)
    <3>1. proc[p] \notin ForeignProc(scheduler)
      BY <1>5, ForeignNotOwn DEF Match
    <3>. QED  BY <3>1, <1>5 DEF Match, Gone
  <2>2. Matches(p) \in Classes
    BY <1>5, <2>1 DEF Match, Matches, OwnProc
  <2>3. QED  BY <1>5, <2>2 DEF Match, Classes, NoClass
<1>6. ASSUME NEW p \in Pids, Crash(p) PROVE TypeInv'
  BY <1>6 DEF Crash
<1>7. ASSUME NEW p \in Pids, Start(p) PROVE TypeInv'
  BY <1>7 DEF Start
<1>8. ASSUME NEW p \in Pids, End(p) PROVE TypeInv'
  BY <1>8 DEF End
<1>9. ASSUME NEW p \in Pids, Exec(p) PROVE TypeInv'
  BY <1>9 DEF Exec
<1>12. ASSUME NEW p \in Pids, ExitMidRead(p) PROVE TypeInv'
  BY <1>12 DEF ExitMidRead
<1>10. CASE UNCHANGED vars  BY <1>10 DEF vars
<1>11. QED
  BY <1>1, <1>2, <1>3, <1>4, <1>5, <1>6, <1>7, <1>8, <1>9, <1>10, <1>12
  DEF Next, Watcher, Env

(***************************************************************************)
(* Every process record stays a record of its kind for every PID set: the *)
(* daemon only ever writes a slice or a nice value its scheduler has, and  *)
(* the only other user's processes it changes are ones a reused PID hands *)
(* to setpriority under PDS/BMQ, which it gives a nice value of a class;  *)
(* under CFS another user's process keeps its own cgroup.                  *)
(***************************************************************************)
THEOREM TypeCorrect == Spec => []TypeOK
<1>1. Spec => []TypeInv  BY TypeInvInit, TypeInvStep, PTL DEF Spec
<1>2. QED  BY <1>1, PTL DEF TypeInv

=============================================================================
