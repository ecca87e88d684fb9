-------------------------- MODULE NodePoolsRefinement --------------------------
(***************************************************************************)
(* NodePools implements PoolsPromise.                                      *)
(***************************************************************************)
EXTENDS NodePoolsProofs

PromiseStep == Promise!Next \/ UNCHANGED Promise!vars

(* A pool as PoolsPromise sees it. *)
Promised(p) == [name |-> p.name, stage |-> Stage(p.state), nodes |-> p.nodes]

LEMMA StageOf ==
  /\ Stage("initial") = "up" /\ Stage("scaling") = "up" /\ Stage("active") = "up"
  /\ Stage("removing_nodes") = "removing" /\ Stage("deleting") = "deleting"
  /\ Stage("none") = "none" /\ Stage("gone") = "gone"
  BY DEF Stage

LEMMA Sized ==
  ASSUME NEW n \in Sizes
  PROVE  n \in Nat
  BY PoolsAssumption DEF Sizes

(* What it sees of all of them. *)
LEMMA PromisedAre ==
  /\ \A i \in PoolIDs : PromisedPools[i] = Promised(pools[i])
  /\ \A i \in PoolIDs : PromisedPools'[i] = Promised(pools'[i])
  BY DEF PromisedPools, Promised

LEMMA PromisedFields ==
  ASSUME NEW i \in PoolIDs
  PROVE  /\ PromisedPools[i].name = pools[i].name
         /\ PromisedPools[i].stage = Stage(pools[i].state)
         /\ PromisedPools[i].nodes = pools[i].nodes
  BY DEF PromisedPools

LEMMA PromisedLive ==
  ASSUME PoolsTypeOK
  PROVE  Promise!Live = Live
<1>1. ASSUME NEW i \in PoolIDs
      PROVE  Stage(pools[i].state) \in {"none", "gone"} <=> pools[i].state \in {"none", "gone"}
  <2>1. pools[i].state \in States
    BY DEF PoolsTypeOK, Pools
  <2>. QED  BY <2>1, StageOf DEF States, Changing
<1>. QED  BY <1>1, PromisedFields DEF Promise!Live, Live

LEMMA PromisedCalm ==
  ASSUME PoolsTypeOK, \A i \in Live : pools[i].state \notin TakenDown
  PROVE  Promise!Calm
<1>1. ASSUME NEW i \in PoolIDs
      PROVE  Stage(pools[i].state) \notin {"removing", "deleting"}
  <2>1. pools[i].state \in States \ TakenDown
    BY DEF PoolsTypeOK, Pools, Live, TakenDown
  <2>. QED  BY <2>1, StageOf DEF States, Changing, TakenDown
<1>. QED  BY <1>1, PromisedFields DEF Promise!Calm

(* One pool changes. *)
LEMMA PromisedOne ==
  ASSUME pools \in [PoolIDs -> Pools], NEW i \in PoolIDs, NEW p,
         pools' = [pools EXCEPT ![i] = p]
  PROVE  PromisedPools' = [PromisedPools EXCEPT ![i] = Promised(p)]
<1>1. pools'[i] = p /\ \A j \in PoolIDs \ {i} : pools'[j] = pools[j]
  OBVIOUS
<1>. QED  BY <1>1 DEF PromisedPools, Promised

LEMMA Stutters ==
  ASSUME UNCHANGED <<pools, kept>>
  PROVE  PromiseStep
  BY DEF PromiseStep, Promise!vars, PromisedPools

(* A pool keeps its name, and is at another stage or has other nodes. *)
LEMMA PromisedBecomes ==
  ASSUME pools \in [PoolIDs -> Pools], NEW i \in PoolIDs, NEW p \in Pools,
         pools' = [pools EXCEPT ![i] = p], p.name = pools[i].name, kept' = kept
  PROVE  Promise!Becomes(i, Stage(p.state), p.nodes)
<1>1. PromisedPools' = [PromisedPools EXCEPT ![i] = Promised(p)]
  BY PromisedOne
<1>2. Promised(p) = [name |-> PromisedPools[i].name, stage |-> Stage(p.state), nodes |-> p.nodes]
  BY PromisedFields DEF Promised
<1>. QED  BY <1>1, <1>2 DEF Promise!Becomes

LEMMA PoolSteps ==
  ASSUME NEW i \in PoolIDs,
         \/ Promise!Scale(i) \/ Promise!RemoveNodes(i) \/ Promise!NodesRemoved(i)
         \/ Promise!Delete(i) \/ Promise!Deleted(i) \/ Promise!Lost(i)
  PROVE  PromiseStep
  BY DEF PromiseStep, Promise!Next

-----------------------------------------------------------------------------
(* The calls. *)

(* Nodes come and go, and settings and states change, in a pool that is up.  *)
LEMMA ScaleStep ==
  ASSUME PoolsTypeOK, NEW i \in PoolIDs, NEW p \in Pools,
         pools' = [pools EXCEPT ![i] = p], p.name = pools[i].name, kept' = kept,
         Stage(pools[i].state) = "up", Stage(p.state) = "up"
  PROVE  PromiseStep
<1>1. Promise!Becomes(i, "up", p.nodes)
  BY PromisedBecomes DEF PoolsTypeOK
<1>2. PromisedPools'[i].nodes = p.nodes
  <2>1. pools'[i] = p
    BY DEF PoolsTypeOK
  <2>2. PromisedPools'[i] = Promised(p)
    BY <2>1, PromisedAre
  <2>3. Promised(p).nodes = p.nodes
    BY DEF Promised
  <2>. QED  BY <2>2, <2>3
<1>3. p.nodes \in Nat
  BY Sized DEF Pools
<1>4. Promise!Scale(i)
  BY <1>1, <1>2, <1>3, PromisedFields DEF Promise!Scale
<1>. QED  BY <1>4, PoolSteps

LEMMA CreateStep ==
  ASSUME PoolsInv, pc = "create", NEW e \in todo, NEW id \in PoolIDs, NewPool(e, id),
         kept' = kept
  PROVE  PromiseStep
<1>. DEFINE p == [name |-> e.name, set |-> e.set, state |-> "initial", nodes |-> 0]
<1>1. pools' = [pools EXCEPT ![id] = p] /\ pools[id].state = "none"
  BY DEF NewPool
<1>2. Promised(p) = [name |-> e.name, stage |-> "up", nodes |-> 0]
  BY StageOf DEF Promised
<1>. HIDE DEF p
<1>3. PromisedPools' = [PromisedPools EXCEPT ![id] = Promised(p)]
  BY <1>1, PromisedOne DEF PoolsInv, PoolsTypeOK
<1>4. Promise!Calm
  BY PromisedCalm DEF PoolsInv, QuietOK
<1>5. \A j \in Promise!Live : PromisedPools[j].name # e.name
  BY PromisedLive, PromisedFields DEF PoolsInv, CreatingOK, Live
<1>6. PromisedPools[id].stage = "none"
  BY <1>1, PromisedFields, StageOf
<1>7. Promise!Create(id, e.name)
  BY <1>2, <1>3, <1>4, <1>5, <1>6 DEF Promise!Create
<1>8. e.name \in Names
  BY DEF PoolsInv, PoolsTypeOK, Entries
<1>. QED  BY <1>7, <1>8 DEF PromiseStep, Promise!Next

LEMMA ModifyStep ==
  ASSUME PoolsInv, pc = "modify", NEW e \in todo, Modify(e), kept' = kept
  PROVE  PromiseStep
<1>. DEFINE i == e.id
            s == Modified(e.set, pools[i].set)
            p == [pools[i] EXCEPT !.set = s, !.state = "scaling"]
<1>1. pools \in [PoolIDs -> Pools] /\ i \in PoolIDs /\ i \in Live
  BY DEF Modify, Live, PoolsInv, PoolsTypeOK
<1>2. s \in Settings
  <2>1. e.set \in Settings
    BY DEF PoolsInv, PoolsTypeOK, Entries
  <2>2. pools[i].set \in Settings
    BY <1>1 DEF Pools
  <2>. QED  BY <2>1, <2>2, ModifiedType
<1>. HIDE DEF s
<1>3. p \in Pools /\ p.name = pools[i].name /\ p.state = "scaling"
  BY <1>1, <1>2 DEF Pools, States, Changing
<1>4. pools' = [pools EXCEPT ![i] = p]
  BY <1>1 DEF Modify, Pools, s
<1>. HIDE DEF p
<1>5. Stage(pools[i].state) = "up"
  <2>1. pools[i].state \in States \ {"none", "gone", "removing_nodes", "deleting"}
    BY <1>1 DEF PoolsInv, QuietOK, TakenDown, Live, Pools
  <2>. QED  BY <2>1, StageOf DEF States, Changing
<1>. QED  BY <1>1, <1>3, <1>4, <1>5, StageOf, ScaleStep DEF PoolsInv

(* The victim is up, nobody asks for it, and nothing else is taken down.     *)
LEMMA DrainStepPromised ==
  ASSUME PoolsInv, DrainCall, kept' = kept
  PROVE  PromiseStep
<1>. DEFINE i == victim
            p == AfterCall(pools[i])
<1>1. /\ pools \in [PoolIDs -> Pools] /\ i \in PoolIDs /\ i \in Live /\ pools[i] \in Pools
      /\ pc \in {"size", "limits", "removeNodes", "delete"} /\ pc \in Deleting
      /\ pools' = [pools EXCEPT ![i] = p]
  BY DEF DrainCall, Live, PoolsInv, PoolsTypeOK, Deleting
<1>2. Drained(pools[i].set) \in Settings
  BY <1>1, DrainedType DEF Pools
<1>3. /\ p \in Pools /\ p.name = pools[i].name /\ p.nodes = pools[i].nodes
      /\ p.state = IF pc = "removeNodes" THEN "removing_nodes"
                   ELSE IF pc = "delete" THEN "deleting" ELSE "scaling"
  BY <1>1, <1>2 DEF AfterCall, Pools, States, Changing
<1>. HIDE DEF p
<1>4. pools[i].state = "active" /\ pools[i].name \notin kept
  BY <1>1 DEF PoolsInv, QuietOK, VictimOK, CopiesOK, Deleting
<1>5. Promise!Calm
  BY <1>1, PromisedCalm DEF PoolsInv, QuietOK, TakenDown
<1>6. Promise!Unwanted(i)
  BY <1>1, <1>4, PromisedLive, PromisedFields DEF PoolsInv, Promise!Unwanted
<1>7. Promise!Becomes(i, Stage(p.state), pools[i].nodes)
  BY <1>1, <1>3, PromisedBecomes
<1>8. CASE pc = "removeNodes"
  <2>1. Promise!RemoveNodes(i)
    BY <1>1, <1>3, <1>5, <1>6, <1>7, <1>8, StageOf, PromisedFields DEF Promise!RemoveNodes
  <2>. QED  BY <1>1, <2>1, PoolSteps
<1>9. CASE pc = "delete"
  <2>1. pools[i].nodes = 0
    BY <1>1, <1>9 DEF PoolsInv, VictimOK
  <2>2. Promise!Delete(i)
    BY <1>1, <1>3, <1>5, <1>6, <1>7, <1>9, <2>1, StageOf, PromisedFields DEF Promise!Delete
  <2>. QED  BY <1>1, <2>2, PoolSteps
<1>10. CASE pc \in {"size", "limits"}
  BY <1>1, <1>3, <1>4, <1>10, StageOf, ScaleStep DEF PoolsInv
<1>. QED  BY <1>1, <1>8, <1>9, <1>10

LEMMA WorkerStep ==
  ASSUME PoolsInv, Worker
  PROVE  PromiseStep
<1>1. kept' = kept
  BY DEF Worker, Start, Wait, Classify, CreateNodePool, CreateNodePoolFails, ModifyNodePool,
         ModifyNodePoolFails, CallsMade, DescribeClusterNodes, DeleteNodePool, CallFails,
         SetPhase, SetPhaseFails
<1>2. CASE CreateNodePool \/ CreateNodePoolFails
  BY <1>1, <1>2, CreateStep, Stutters DEF CreateNodePool, CreateNodePoolFails
<1>3. CASE ModifyNodePool \/ ModifyNodePoolFails
  BY <1>1, <1>3, ModifyStep, Stutters DEF ModifyNodePool, ModifyNodePoolFails
<1>4. CASE DeleteNodePool \/ CallFails
  BY <1>1, <1>4, DrainStepPromised, Stutters DEF DeleteNodePool, CallFails
<1>5. CASE \/ Start \/ Wait \/ Classify \/ CallsMade
           \/ DescribeClusterNodes \/ SetPhase \/ SetPhaseFails
  BY <1>1, <1>5, Stutters
     DEF Start, Wait, Classify, CallsMade, DescribeClusterNodes, SetPhase, SetPhaseFails
<1>. QED  BY <1>2, <1>3, <1>4, <1>5 DEF Worker

-----------------------------------------------------------------------------
(* Everybody else. *)

LEMMA WishStep ==
  ASSUME UserEdit
  PROVE  PromiseStep
<1>1. kept' \subseteq kept /\ pools' = pools
  BY DEF UserEdit
<1>2. Promise!Wish
  BY <1>1 DEF Promise!Wish, PromisedPools
<1>. QED  BY <1>2 DEF PromiseStep, Promise!Next

LEMMA SetPoolPromised ==
  ASSUME PoolsInv, NEW i \in PoolIDs, NEW state \in {"active", "gone"}, NEW n \in Sizes,
         SetPool(i, state, n)
  PROVE  \E p \in Pools : /\ pools' = [pools EXCEPT ![i] = p] /\ p.name = pools[i].name
                          /\ p.state = state /\ p.nodes = n
                          /\ kept' = kept
                          /\ Promise!Becomes(i, Stage(state), n)
<1>. DEFINE p == [pools[i] EXCEPT !.state = state, !.nodes = n]
<1>1. pools \in [PoolIDs -> Pools] /\ pools[i] \in Pools
  BY DEF PoolsInv, PoolsTypeOK
<1>2. p \in Pools /\ p.name = pools[i].name /\ p.state = state /\ p.nodes = n
  BY <1>1 DEF Pools, States
<1>3. pools' = [pools EXCEPT ![i] = p] /\ kept' = kept
  BY <1>1 DEF SetPool
<1>. HIDE DEF p
<1>. QED  BY <1>1, <1>2, <1>3, PromisedBecomes

LEMMA SettleStep ==
  ASSUME PoolsInv, NEW i \in PoolIDs, Settle(i)
  PROVE  PromiseStep
<1>. DEFINE u == pools[i]
<1>1. /\ u.set.auto \in BOOLEAN /\ u.set.size \in Sizes \cup {Nil} /\ u.nodes \in Sizes
      /\ u.set.min \in Sizes \cup {Nil} /\ u.set.max \in Sizes \cup {Nil}
  BY SettingsFields DEF PoolsInv, PoolsTypeOK, Pools
<1>2. /\ Val(u.set.min) \in Sizes /\ Val(u.set.max) \in Sizes /\ Val(u.set.size) \in Sizes
      /\ 0 \in Sizes
  <2>1. 0 \in Sizes
    BY PoolsAssumption DEF Sizes
  <2>. QED  BY <1>1, <2>1, ValType
<1>3. CASE u.state = "initial"
  <2>1. SetPool(i, "active", Val(IF u.set.auto THEN u.set.min ELSE u.set.size))
    BY <1>3 DEF Settle
  <2>2. Val(IF u.set.auto THEN u.set.min ELSE u.set.size) \in Sizes
    BY <1>2
  <2>. QED  BY <1>3, <2>1, <2>2, SetPoolPromised, StageOf, ScaleStep DEF PoolsInv
<1>4. CASE u.state = "scaling"
  <2>1. SetPool(i, "active", IF u.set.auto \/ u.set.size = Nil THEN u.nodes ELSE u.set.size)
    BY <1>4 DEF Settle
  <2>2. (IF u.set.auto \/ u.set.size = Nil THEN u.nodes ELSE u.set.size) \in Sizes
    BY <1>1
  <2>. QED  BY <1>4, <2>1, <2>2, SetPoolPromised, StageOf, ScaleStep DEF PoolsInv
<1>5. CASE u.state = "removing_nodes"
  <2>1. Promise!Becomes(i, "up", 0)
    BY <1>2, <1>5, SetPoolPromised, StageOf DEF Settle
  <2>2. Promise!NodesRemoved(i)
    BY <1>5, <2>1, PromisedFields, StageOf DEF Promise!NodesRemoved
  <2>. QED  BY <2>2, PoolSteps
<1>6. CASE u.state = "deleting"
  <2>1. Promise!Becomes(i, "gone", 0)
    BY <1>2, <1>6, SetPoolPromised, StageOf DEF Settle
  <2>2. Promise!Deleted(i)
    BY <1>6, <2>1, PromisedFields, StageOf DEF Promise!Deleted
  <2>. QED  BY <2>2, PoolSteps
<1>. QED  BY <1>3, <1>4, <1>5, <1>6 DEF Settle

LEMMA AutoscaleStep ==
  ASSUME PoolsInv, NEW i \in PoolIDs, Autoscale(i)
  PROVE  PromiseStep
<1>. DEFINE u == pools[i].set
<1>1. PICK n \in Val(u.min)..Val(u.max) : SetPool(i, "active", n)
  BY DEF Autoscale
<1>2. u.min \in Sizes \cup {Nil} /\ u.max \in Sizes \cup {Nil}
  BY SettingsFields DEF PoolsInv, PoolsTypeOK, Pools
<1>3. Val(u.min) \in Sizes /\ Val(u.max) \in Sizes
  BY <1>2, ValType
<1>4. n \in Sizes
  BY <1>1, <1>3, PoolsAssumption DEF Sizes
<1>5. pools[i].state = "active"
  BY DEF Autoscale
<1>. QED  BY <1>1, <1>4, <1>5, SetPoolPromised, StageOf, ScaleStep DEF PoolsInv

LEMMA LostStep ==
  ASSUME PoolsInv, NEW i \in PoolIDs, RemovedByOthers(i)
  PROVE  PromiseStep
<1>1. SetPool(i, "gone", 0) /\ i \in Live /\ 0 \in Sizes
  BY PoolsAssumption DEF RemovedByOthers, Sizes
<1>2. Promise!Becomes(i, "gone", 0)
  BY <1>1, SetPoolPromised, StageOf
<1>3. Promise!Lost(i)
  BY <1>1, <1>2, PromisedLive DEF PoolsInv, Promise!Lost
<1>. QED  BY <1>3, PoolSteps

-----------------------------------------------------------------------------
(* The refinement. *)

LEMMA PromiseInit ==
  ASSUME Init
  PROVE  Promise!Init
<1>1. PoolsInv /\ \A i \in PoolIDs : pools[i] \in Pools /\ pools[i].state \in {"none", "active"}
  BY InitPoolsInv, PoolsAtFirstAssumption DEF Init
<1>2. PromisedPools \in [PoolIDs -> [name : Names, stage : {"none", "up"}, nodes : Nat]]
  <2>1. ASSUME NEW i \in PoolIDs
        PROVE  Promised(pools[i]) \in [name : Names, stage : {"none", "up"}, nodes : Nat]
    <3>1. /\ pools[i].name \in Names /\ pools[i].nodes \in Nat
          /\ Stage(pools[i].state) \in {"none", "up"}
      BY <1>1, Sized, StageOf DEF Pools
    <3>. QED  BY <3>1 DEF Promised
  <2>. QED  BY <2>1 DEF PromisedPools, Promised
<1>3. \A i, j \in Promise!Live : PromisedPools[i].name = PromisedPools[j].name => i = j
  BY <1>1, PromisedLive, PromisedFields DEF PoolsInv, NoneCreatedTwice, Live
<1>4. kept \subseteq Names
  BY <1>1 DEF PoolsInv, PoolsTypeOK
<1>. QED  BY <1>2, <1>3, <1>4 DEF Promise!Init

LEMMA PromiseNext ==
  ASSUME PoolsInv, [Next]_vars
  PROVE  [Promise!Next]_Promise!vars
<1>1. CASE Worker
  BY <1>1, WorkerStep DEF PromiseStep
<1>2. CASE Sync \/ Crash \/ UNCHANGED vars
  <2>1. UNCHANGED <<pools, kept>>
    BY <1>2 DEF Sync, Crash, vars
  <2>. QED  BY <2>1, Stutters DEF PromiseStep
<1>3. CASE UserEdit
  BY <1>3, WishStep DEF PromiseStep
<1>4. CASE ACK
  BY <1>4, SettleStep, AutoscaleStep DEF ACK, PromiseStep
<1>5. CASE \E i \in PoolIDs : RemovedByOthers(i)
  BY <1>5, LostStep DEF PromiseStep
<1>. QED  BY <1>1, <1>2, <1>3, <1>4, <1>5 DEF Next

(* What becomes of the node pools is what PoolsPromise allows: the calls of  *)
(* all reconciles together never create a pool while another is taken down,  *)
(* never take down two at a time, and none that is asked for all the time.   *)
THEOREM PoolsRefinement == Spec => KeepsPoolsPromise
<1>1. Init => Promise!Init
  BY PromiseInit
<1>2. PoolsInv /\ [Next]_vars => [Promise!Next]_Promise!vars
  BY PromiseNext
<1>. QED  BY <1>1, <1>2, PoolsInvariance, PTL DEF Spec, KeepsPoolsPromise, Promise!Spec

=============================================================================
