------------------------- MODULE SupervisedProcess -------------------------
(***************************************************************************)
(* What supervising a background subprocess promises (spec 5 and the      *)
(* supervised-process abstraction of spec 9), with no detail of how the   *)
(* child works.  The child is absent until launched, then starting,       *)
(* running, stopping once asked to stop, and stopped for good.  The       *)
(* supervisor runs its own work, asks the child to stop, and then either  *)
(* sees it exit or, still in its bounded wait, forces it down; only then  *)
(* does it read the child's output.  A supervisor that is itself killed   *)
(* abandons the child in whatever state it is.                             *)
(***************************************************************************)

ChildStates == {"absent", "starting", "running", "stopping", "stopped"}

(* before: the supervisor's own work; stopping: its bounded wait after the *)
(* stop request; after: the child's output may be read.                    *)
SupPhases == {"before", "stopping", "after", "abandoned"}

VARIABLES child, sup

absVars == <<child, sup>>

Init ==
    /\ child = "absent"
    /\ sup = "before"

(* The supervisor launches the child, at most once.                        *)
Launch ==
    /\ sup = "before" /\ child = "absent"
    /\ child' = "starting"
    /\ UNCHANGED sup

(* The child is up.                                                        *)
Ready ==
    /\ child = "starting"
    /\ child' = "running"
    /\ UNCHANGED sup

(* The child ends by itself, or after the request, and stays stopped.     *)
Exit ==
    /\ child \in {"starting", "running", "stopping"}
    /\ child' = "stopped"
    /\ UNCHANGED sup

(* The graceful stop request; a child that cannot handle it yet dies.      *)
Request ==
    /\ sup = "before"
    /\ child \in {"starting", "running"}
    /\ child' \in {"stopping", "stopped"}
    /\ sup' = "stopping"

(* The supervisor stops waiting for a child that has not exited: it       *)
(* forces it down and goes on.                                              *)
Kill ==
    /\ sup = "stopping"
    /\ child \in {"starting", "running", "stopping"}
    /\ child' = "stopped"
    /\ sup' = "after"

(* The supervisor goes on once no child runs; from here on it may read    *)
(* the child's output.                                                      *)
Collect ==
    /\ sup \in {"before", "stopping"}
    /\ child \in {"absent", "stopped"}
    /\ sup' = "after"
    /\ UNCHANGED child

(* The supervisor dies and leaves the child as it is.                      *)
Abandon ==
    /\ sup # "abandoned"
    /\ sup' = "abandoned"
    /\ UNCHANGED child

Next == Launch \/ Ready \/ Exit \/ Request \/ Kill \/ Collect \/ Abandon

Spec == Init /\ [][Next]_absVars

=============================================================================
