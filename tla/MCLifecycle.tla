------------------------------ MODULE MCLifecycle ------------------------------
(* Instances of ClusterLifecycle for TLC. *)
EXTENDS LifecycleInvariant, FiniteSets, TLC

(* The ids of clusters are interchangeable; used by the safety runs only. *)
Symmetry == Permutations(Clusters)

(* The configuration of a cluster that is yet to be created. *)
NewCluster == Spec /\ obj.id = NoID

(* A conflict costs nothing: recordError passes over it because the next     *)
(* reconcile is to do what this one did not.  So as long as no call fails in *)
(* another way, one configuration never makes two clusters.                  *)
OneClusterWithoutFaults ==
    faults = 0 => Cardinality({id \in Clusters : cloud[id] # "absent"}) <= 1

(* OnAliConfigRemoved leaves a configuration in the first phase alone since  *)
(* its cluster was never created: so no object the finalizer has let go      *)
(* leaves behind a cluster it records.                                       *)
NoRecordedClusterLeft ==
    ~obj.exists /\ obj.finalizer /\ obj.id # NoID
        => obj.id \in deletions \/ cloud[obj.id] = "gone"

=============================================================================
