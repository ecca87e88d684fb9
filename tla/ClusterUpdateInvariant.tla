------------------------ MODULE ClusterUpdateInvariant ------------------------
(***************************************************************************)
(* The inductive invariant behind the safety properties of ClusterUpdate:  *)
(* what the copies of the object know of the upgrade task and of the       *)
(* version that is wanted, and what checkAndUpdate knows at each call.     *)
(* It is inductive together with IInv, the invariant of ClusterLifecycle.  *)
(***************************************************************************)
EXTENDS ClusterUpdate, LifecycleInvariant

(* A copy of the stored version has its task. *)
CopiesOK ==
    /\ cacheCurrent => cacheMore.task = more.task
    /\ workCurrent => workMore.task = more.task

PlanOK ==
    /\ step # "cluster" => pc = "checkAndUpdate"
    /\ step = "task" => workMore.task # NoTask
    /\ step = "write" =>
         \/ plan.task = workMore.task
         \/ plan.task = NoTask /\ workMore.task \in Tasks /\ tasks[workMore.task] # "running"
    /\ step = "save" =>
         plan.task \in Tasks /\ \A t \in Tasks : tasks[t] = "running" => t = plan.task

UInv == UpdateTypeOK /\ CopiesOK /\ PlanOK /\ NoTaskForgotten

(* A copy of the stored version wants what the object wants, or has had an   *)
(* unset version filled in.                                                  *)
WantedOK ==
    /\ cacheCurrent => more.wanted \in {NoVersion, cacheMore.wanted}
    /\ workCurrent => more.wanted \in {NoVersion, workMore.wanted}

(* Past the task nothing is under way, unless its state was not told; past   *)
(* the comparison of the versions the cluster was seen to run what is wanted.*)
NoTaskHeld == mishaps = 0 => workMore.task = NoTask

PassOK ==
    /\ step \in {"nodePools", "pools", "upgrade"} => NoTaskHeld
    /\ step = "pools" => workMore.wanted = seen.version
    /\ step = "write" /\ plan.phase = Active /\ work.phase = Updating =>
         NoTaskHeld /\ workMore.wanted = seen.version

PassInv == WantedOK /\ PassOK

(* The inductive invariant: the safety properties and the reasons for them.  *)
UpdateInv == IInv /\ UInv /\ PassInv

=============================================================================
