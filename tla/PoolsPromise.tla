----------------------------- MODULE PoolsPromise -----------------------------
(***************************************************************************)
(* What the controller promises of the node pools of one cluster, without  *)
(* the object's copies, the work queue, the settings of a pool or the      *)
(* calls that read and change them: no name has two pools; pools are taken *)
(* down one by one, and nothing is created meanwhile; only a pool that was *)
(* not asked for all the time is taken down, and it is deleted only when   *)
(* no node runs in it.                                                     *)
(*                                                                         *)
(* What others do to the pools is not restricted.                          *)
(***************************************************************************)
EXTENDS Naturals

CONSTANTS Names, PoolIDs

VARIABLES pools,    \* the pools of the cluster
          kept      \* the names the object asked for all the time

vars == <<pools, kept>>

Stages == {"none", "up", "removing", "deleting", "gone"}

Live == {i \in PoolIDs : pools[i].stage \notin {"none", "gone"}}

(* Nothing is being taken down. *)
Calm == \A i \in PoolIDs : pools[i].stage \notin {"removing", "deleting"}

Init ==
    /\ pools \in [PoolIDs -> [name : Names, stage : {"none", "up"}, nodes : Nat]]
    /\ \A i, j \in Live : pools[i].name = pools[j].name => i = j
    /\ kept \subseteq Names

Becomes(i, stage, nodes) ==
    /\ pools' = [pools EXCEPT
         ![i] = [name |-> pools[i].name, stage |-> stage, nodes |-> nodes]]
    /\ UNCHANGED kept

(* handleCreateNodePools *)
Create(i, name) ==
    /\ pools[i].stage = "none" /\ Calm
    /\ \A j \in Live : pools[j].name # name
    /\ pools' = [pools EXCEPT ![i] = [name |-> name, stage |-> "up", nodes |-> 0]]
    /\ UNCHANGED kept

(* ACK and the autoscaler, after a call or on their own. *)
Scale(i) ==
    /\ pools[i].stage = "up" /\ pools'[i].nodes \in Nat
    /\ Becomes(i, "up", pools'[i].nodes)

Unwanted(i) == i \in Live /\ pools[i].name \notin kept

(* handleDeleteNodePools *)
RemoveNodes(i) == Unwanted(i) /\ Calm /\ Becomes(i, "removing", pools[i].nodes)

NodesRemoved(i) == pools[i].stage = "removing" /\ Becomes(i, "up", 0)

Delete(i) == Unwanted(i) /\ Calm /\ pools[i].nodes = 0 /\ Becomes(i, "deleting", 0)

Deleted(i) == pools[i].stage = "deleting" /\ Becomes(i, "gone", 0)

(* Somebody else deletes it. *)
Lost(i) == i \in Live /\ Becomes(i, "gone", 0)

(* The user asks for something else. *)
Wish == kept' \subseteq kept /\ UNCHANGED pools

Next ==
    \/ \E i \in PoolIDs, name \in Names : Create(i, name)
    \/ \E i \in PoolIDs :
         \/ Scale(i) \/ RemoveNodes(i) \/ NodesRemoved(i)
         \/ Delete(i) \/ Deleted(i) \/ Lost(i)
    \/ Wish

Spec == Init /\ [][Next]_vars

=============================================================================
