---------------------------- MODULE ConfigPromise ----------------------------
(***************************************************************************)
(* What the controller promises of one AliClusterConfig, without the API   *)
(* server, the cache, the work queue or the calls it takes: the id of the  *)
(* cluster is recorded once, before the first phase is left; the phase     *)
(* goes from creation or import to active and then to updating and back;   *)
(* and once the object is guarded by the finalizer it is released only     *)
(* when its cluster has been dealt with.                                   *)
(***************************************************************************)
EXTENDS AliConfig

VARIABLES imported,    \* Spec.Imported, which nobody changes
          id, phase,
          guarded,     \* the finalizer is on the object
          deleting,    \* its deletion was asked for
          released,    \* it is gone from the API server
          requested,   \* ACK has taken on the deletion of its cluster
          gone         \* its cluster does not exist any more

vars == <<imported, id, phase, guarded, deleting, released, requested, gone>>

Init ==
    /\ imported \in BOOLEAN /\ id \in Clusters \cup {NoID}
    /\ phase = NotCreated
    /\ guarded = FALSE /\ deleting = FALSE /\ released = FALSE
    /\ requested = FALSE /\ gone = FALSE

(* create; the write of the finalizer carries the id too if create's failed. *)
RecordID ==
    /\ ~released /\ ~imported /\ phase = NotCreated /\ id = NoID
    /\ id' \in Clusters
    /\ gone' \in BOOLEAN /\ guarded' \in {guarded, TRUE}
    /\ UNCHANGED <<imported, phase, deleting, released, requested>>

SetPhase(from, to) ==
    /\ ~released /\ phase \in from /\ phase' = to
    /\ UNCHANGED <<imported, id, guarded, deleting, released, requested, gone>>

Begin ==
    /\ id # NoID
    /\ SetPhase({NotCreated}, IF imported THEN Importing ELSE Creating)

(* importCluster and waitForCreationComplete *)
Settle == SetPhase({IF imported THEN Importing ELSE Creating}, Active)

(* checkAndUpdate *)
StartUpdate  == SetPhase({Active}, Updating)
FinishUpdate == SetPhase({Updating}, Active)

Guard ==
    /\ ~released /\ guarded' = TRUE
    /\ UNCHANGED <<imported, id, phase, deleting, released, requested, gone>>

AskDeletion ==
    /\ ~released /\ guarded /\ deleting' = TRUE
    /\ UNCHANGED <<imported, id, phase, guarded, released, requested, gone>>

(* OnAliConfigRemoved; a reconcile that does not know the object is released *)
(* may ask again.                                                            *)
RequestDeletion ==
    /\ deleting /\ ~imported /\ phase # NotCreated
    /\ requested' = TRUE
    /\ UNCHANGED <<imported, id, phase, guarded, deleting, released, gone>>

ClusterGoes ==
    /\ id # NoID /\ gone' = TRUE
    /\ UNCHANGED <<imported, id, phase, guarded, deleting, released, requested>>

Release ==
    /\ guarded => deleting /\ (imported \/ phase = NotCreated \/ requested \/ gone)
    /\ released' = TRUE
    /\ UNCHANGED <<imported, id, phase, guarded, deleting, requested, gone>>

Next ==
    \/ RecordID \/ Begin \/ Settle \/ StartUpdate \/ FinishUpdate
    \/ Guard \/ AskDeletion \/ RequestDeletion \/ ClusterGoes \/ Release

Spec == Init /\ [][Next]_vars

=============================================================================
