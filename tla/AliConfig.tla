------------------------------ MODULE AliConfig ------------------------------
(***************************************************************************)
(* The AliClusterConfig object as the controller sees it, and the states   *)
(* of the ACK cluster it describes.                                        *)
(*                                                                         *)
(* Of the specification only the fields the control flow of the handler    *)
(* branches on are kept (ClusterID and Imported); of the status, Phase and *)
(* FailureMessage.  Names, networks, addons and the message texts are data *)
(* no property tells apart.                                                *)
(***************************************************************************)

CONSTANTS Clusters,      \* the ids ACK can give to the clusters of this account
          NoID           \* Spec.ClusterID = ""

ASSUME ClustersAssumption == NoID \notin Clusters

-----------------------------------------------------------------------------
(* Status.Phase *)
NotCreated == ""
Creating   == "creating"
Importing  == "importing"
Active     == "active"
Updating   == "updating"

Phases  == {NotCreated, Creating, Importing, Active, Updating}
Settled == {Active, Updating}    \* the phases checkAndUpdate works in

(* An error is the message recordError would write; "" is the nil error and *)
(* "conflict" the optimistic-locking error it never writes.                 *)
NoError  == ""
Failures == {NoError, "cloud", "kube", "state"}
Errors   == Failures \cup {"conflict"}

(* The object.  `exists' is FALSE once the API server has dropped it; the   *)
(* other fields then keep their last stored value.                          *)
Config == [exists    : BOOLEAN,
           deleting  : BOOLEAN,          \* DeletionTimestamp != nil
           finalizer : BOOLEAN,          \* of the handler registered by OnRemove
           imported  : BOOLEAN,          \* Spec.Imported
           id        : Clusters \cup {NoID},
           phase     : Phases,
           failure   : Failures]

NoConfig == [exists |-> FALSE, deleting |-> FALSE, finalizer |-> FALSE,
             imported |-> FALSE, id |-> NoID, phase |-> NotCreated,
             failure |-> NoError]

WithID(c, id) == [c EXCEPT !.id = id]
WithStatus(c, phase, failure) == [c EXCEPT !.phase = phase, !.failure = failure]
WithFinalizer(c) == [c EXCEPT !.finalizer = TRUE]
Deleting(c) == [c EXCEPT !.deleting = TRUE]
Removed(c) == [c EXCEPT !.exists = FALSE]

(* How far the life of a configuration has come; it never goes back. *)
Rank(phase) == IF phase = NotCreated THEN 0
               ELSE IF phase \in Settled THEN 2 ELSE 1

(* What ACK says of a cluster; "absent" is an id not handed out yet and      *)
(* "gone" one that DescribeClusterDetail answers with ErrorClusterNotFound.  *)
CloudStates == {"absent", "creating", "running", "failed", "deleting", "gone"}

=============================================================================
