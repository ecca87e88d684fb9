-------------------------------- MODULE MCUpdate --------------------------------
(* Instances of ClusterUpdate for TLC. *)
EXTENDS ClusterUpdateInvariant

(* The configuration of a cluster that runs already, in the oldest version,  *)
(* and has the node pools it asks for.                                       *)
ImportedInit ==
    /\ UpdateInit
    /\ obj.imported /\ cloud[obj.id] = "running"
    /\ version = 1
    /\ pools = 1

ImportedCluster == ImportedInit /\ [][UpdateNext]_updateVars /\ UpdateFairness

=============================================================================
