------------------------------- MODULE NodePools -------------------------------
(***************************************************************************)
(* updateNodePools: how the node pools of a running cluster become what    *)
(* the object asks for, one reconcile after the other.                     *)
(*                                                                         *)
(* Every reconcile reads the pools twice, once to wait until none of them  *)
(* is changing and once to compare them with the object, and then makes    *)
(* calls of one kind: it creates every missing pool, or modifies every     *)
(* pool that differs, or takes one step towards the deletion of one pool.  *)
(* A step of the worker is one call together with the code up to the next  *)
(* one.  Meanwhile the user edits the object, the pools settle, the auto-  *)
(* scaler moves nodes, calls fail or lose their answer, and the operator   *)
(* crashes.                                                                *)
(*                                                                         *)
(* The object is that of a cluster that runs and has its version; the rest *)
(* of its life is ClusterLifecycle and ClusterUpdate.                      *)
(***************************************************************************)
EXTENDS PoolConfig, FiniteSets

CONSTANTS Asked,         \* what the user can ask for
          AtFirst,       \* the pools the cluster can have at first
          SharedCache,   \* {TRUE}: a handler is given the cache's own object
          MaxFaults,     \* bound on failed calls, lost answers and crashes
          MaxEdits,      \* bound on the edits of the user
          MaxRemovals    \* bound on the pools deleted by others

Active   == "active"
Updating == "updating"

(* NodePools = nil is not managed: it asks for nothing and nothing is done. *)
Wishes  == [managed : BOOLEAN, pools : SUBSET Entries]
Objects == [managed : BOOLEAN, pools : SUBSET Entries, phase : {Active, Updating}]
Nothing == [managed |-> FALSE, pools |-> {}, phase |-> Active]

(* "none" is an id not given yet, "gone" one that was. *)
Changing == {"initial", "scaling", "removing_nodes", "deleting"}
States   == Changing \cup {"none", "active", "gone"}
Pools    == [name : Names, set : Settings, state : States, nodes : Sizes]

ASSUME WishesAssumption ==
    /\ Asked \subseteq Wishes
    /\ \A w \in Asked : \A e, f \in w.pools : e.name = f.name => e = f
    /\ \A w \in Asked : ~w.managed => w.pools = {}

ASSUME PoolsAtFirstAssumption ==
    /\ AtFirst \subseteq [PoolIDs -> Pools]
    /\ \A ps \in AtFirst : \A i, j \in PoolIDs :
         /\ ps[i].state \in {"none", "active"}
         /\ ps[i].state = "active" /\ ps[j].state = "active" /\ ps[i].name = ps[j].name => i = j

ASSUME PoolBoundsAssumption ==
    /\ SharedCache \subseteq BOOLEAN /\ SharedCache # {}
    /\ MaxFaults \in Nat /\ MaxEdits \in Nat /\ MaxRemovals \in Nat

VARIABLES
    obj,            \* the stored object
    cache,          \* the informer's copy
    cacheCurrent,   \* its resourceVersion is the stored one
    queued,         \* the key is in the work queue (at once or after a delay)
    pc,             \* the next call of the worker
    work,           \* the object in the worker's hands
    workCurrent,    \* its resourceVersion is the stored one
    given,          \* it is still the object in the cache
    todo,           \* the entries of the calls to make yet
    failed,         \* one of these calls failed
    victim,         \* the pool to be deleted
    pools,          \* ACK: the node pools
    kept,           \* history: the names the object asked for all the time
    misled,         \* history: an id in the object was or may become a wrong one
    faults, edits, removals

objVars    == <<obj, cache, cacheCurrent>>
callVars   == <<todo, failed, victim>>
workerVars == <<pc, work, workCurrent, given, callVars>>
othersVars == <<edits, removals, misled>>     \* what users and other clients did
vars == <<objVars, queued, workerVars, pools, kept, faults, othersVars>>

Labels == {"idle", "wait", "classify", "create", "modify", "size", "limits", "nodes",
           "removeNodes", "delete", "setActive", "setUpdating"}

PoolsTypeOK ==
    /\ obj \in Objects /\ cache \in Objects /\ work \in Objects
    /\ cacheCurrent \in BOOLEAN /\ workCurrent \in BOOLEAN
    /\ given \in BOOLEAN /\ queued \in BOOLEAN /\ failed \in BOOLEAN
    /\ pc \in Labels
    /\ todo \subseteq Entries /\ victim \in PoolIDs \cup {NoPool}
    /\ pools \in [PoolIDs -> Pools]
    /\ kept \subseteq Names /\ misled \in BOOLEAN
    /\ faults \in 0..MaxFaults /\ edits \in 0..MaxEdits /\ removals \in 0..MaxRemovals

Live   == {i \in PoolIDs : pools[i].state \notin {"none", "gone"}}
Listed == {[name |-> pools[i].name, id |-> i, set |-> pools[i].set] : i \in Live}

(* BuildUpstreamClusterState: the object that asks for what there is. *)
UpstreamSpec == [managed |-> Live # {}, pools |-> Listed]

(* The names of the pools that have to stay: without management, all.        *)
Wanted(o) == IF o.managed THEN {e.name : e \in o.pools} ELSE Names

(* The entry has no id, or that of the pool of its name. *)
Found(e) ==
    e.id = NoPool \/ /\ e.id \in Live /\ pools[e.id].name = e.name
                     /\ pools[e.id].state # "deleting"

Init ==
    /\ \E w \in Asked, phase \in {Active, Updating} :
         obj = [managed |-> w.managed, pools |-> w.pools, phase |-> phase]
    /\ cache = obj /\ cacheCurrent = TRUE /\ queued = TRUE
    /\ pc = "idle" /\ work = Nothing /\ workCurrent = FALSE /\ given = FALSE
    /\ todo = {} /\ failed = FALSE /\ victim = NoPool
    /\ pools \in AtFirst
    /\ kept = Wanted(obj) /\ misled = (\E e \in obj.pools : ~Found(e))
    /\ faults = 0 /\ edits = 0 /\ removals = 0

Fault == faults < MaxFaults /\ faults' = faults + 1

-----------------------------------------------------------------------------
(* The reconcile *)

Start ==
    /\ pc = "idle" /\ queued
    /\ queued' = FALSE
    /\ work' = cache /\ workCurrent' = cacheCurrent
    /\ given' \in SharedCache
    /\ pc' = "wait"
    /\ UNCHANGED <<objVars, callVars, pools, kept, faults, othersVars>>

GoTo(label) ==
    /\ pc' = label
    /\ UNCHANGED <<obj, cacheCurrent, queued, work, workCurrent, given>>

Idle ==
    /\ pc' = "idle" /\ work' = Nothing /\ workCurrent' = FALSE /\ given' = FALSE
    /\ todo' = {} /\ failed' = FALSE /\ victim' = NoPool

(* Faulty variant: the key is left to the watch. *)
RequeueByWatch ==
    /\ Idle /\ queued' = queued
    /\ obj' = obj /\ cacheCurrent' \in {cacheCurrent, FALSE}

(* enqueueUpdate in the updating phase, the only one calls are made in: the  *)
(* key comes back after a while, with a new message in the status or not.    *)
Requeue ==
    /\ Idle /\ queued' = TRUE
    /\ obj' = obj /\ cacheCurrent' \in {cacheCurrent, FALSE}

(* enqueueUpdate: the updating phase has to be written first. *)
EnqueueUpdate ==
    \/ work.phase = Updating /\ Requeue
    \/ work.phase # Updating /\ GoTo("setUpdating") /\ UNCHANGED callVars

(* An error puts the key back, and recordError takes one of an active        *)
(* cluster for a failing update, unless its write fails.                     *)
ReturnError ==
    /\ Idle /\ queued' = TRUE
    /\ \/ obj' = obj /\ cacheCurrent' \in {cacheCurrent, FALSE}
       \/ workCurrent /\ obj' = [obj EXCEPT !.phase = Updating] /\ cacheCurrent' = FALSE

(* Faulty variant: a pool that is being deleted is not waited for. *)
WaitButForDeletion(state) == state \in Changing \ {"deleting"}

(* Faulty variant: a pool that loses its nodes is not waited for. *)
WaitButForRemoval(state) == state \in Changing \ {"removing_nodes"}

WaitForNodePool(state) == state \in Changing

(* checkAndUpdate reads the pools and waits ... *)
Wait ==
    /\ pc = "wait"
    /\ IF \E i \in Live : WaitForNodePool(pools[i].state) THEN EnqueueUpdate
       ELSE GoTo("classify") /\ UNCHANGED callVars
    /\ UNCHANGED <<cache, pools, kept, faults, othersVars>>

(* updateUpstreamClusterState, when there is nothing to do; recordError may  *)
(* still have an old failure message to erase.                               *)
Finish ==
    \/ /\ work.phase = Active
       /\ Idle /\ queued' = queued
       /\ obj' = obj /\ cacheCurrent' \in {cacheCurrent, FALSE}
    \/ work.phase # Active /\ GoTo("setActive") /\ UNCHANGED callVars

(* The calls of this reconcile, when there is something to do. *)
Calls(label, entries) == GoTo(label) /\ todo' = entries /\ UNCHANGED <<failed, victim>>

(* Faulty variant: the name of a pool is passed for its id. *)
MakeCallsByName(fixed) ==
    IF ToCreate(fixed) # {} THEN Calls("create", ToCreate(fixed))
    ELSE IF UpdateNeeded(fixed, Listed) /\ ToModify(fixed, Listed) # {}
    THEN Calls("modify", ToModify(fixed, Listed))
    ELSE \/ \E l \in ToDelete(fixed, Listed) :
              GoTo(DrainStep(l.set)) /\ victim' = l.name /\ UNCHANGED <<todo, failed>>
         \/ ToDelete(fixed, Listed) = {} /\ Finish

MakeCalls(fixed) ==
    IF ToCreate(fixed) # {} THEN Calls("create", ToCreate(fixed))
    ELSE IF UpdateNeeded(fixed, Listed) /\ ToModify(fixed, Listed) # {}
    THEN Calls("modify", ToModify(fixed, Listed))
    ELSE \/ \E l \in ToDelete(fixed, Listed) :
              GoTo(DrainStep(l.set)) /\ victim' = l.id /\ UNCHANGED <<todo, failed>>
         \/ ToDelete(fixed, Listed) = {} /\ Finish

Needed(fixed) ==
    ToCreate(fixed) # {} \/ UpdateNeeded(fixed, Listed) \/ ToDelete(fixed, Listed) # {}

(* Faulty variant: an object without node pools asks for none. *)
ClassifyAll ==
    /\ pc = "classify"
    /\ LET fixed == FixIDs(work.pools, Listed)
       IN  /\ cache' = IF given THEN [cache EXCEPT !.pools = fixed] ELSE cache
           /\ IF ~Needed(fixed) THEN Finish
              ELSE IF work.phase = Updating THEN MakeCalls(fixed) ELSE EnqueueUpdate
    /\ UNCHANGED <<pools, kept, faults, othersVars>>

(* ... and updateNodePools reads them again.  The ids it finds are put into  *)
(* the worker's object, and with a shared cache into the cached one.         *)
Classify ==
    /\ pc = "classify"
    /\ LET fixed == FixIDs(work.pools, Listed)
       IN  /\ cache' = IF given THEN [cache EXCEPT !.pools = fixed] ELSE cache
           /\ IF ~work.managed \/ ~Needed(fixed) THEN Finish
              ELSE IF work.phase = Updating THEN MakeCalls(fixed) ELSE EnqueueUpdate
    /\ UNCHANGED <<pools, kept, faults, othersVars>>

-----------------------------------------------------------------------------
(* The calls that create and modify pools; one that fails does not keep the  *)
(* others from being made.                                                   *)

Tick(e) == todo' = todo \ {e}

NewPool(e, id) ==
    /\ pools[id].state = "none"
    /\ pools' = [pools EXCEPT
         ![id] = [name |-> e.name, set |-> e.set, state |-> "initial", nodes |-> 0]]

CreateNodePool ==
    /\ pc = "create"
    /\ \E e \in todo, id \in PoolIDs : NewPool(e, id) /\ Tick(e)
    /\ GoTo(pc)
    /\ UNCHANGED <<cache, failed, victim, kept, faults, othersVars>>

(* The answer to a call that fails may be all that is lost. *)
CreateNodePoolFails ==
    /\ pc = "create"
    /\ \E e \in todo :
         /\ Tick(e)
         /\ \/ Fault /\ UNCHANGED pools
            \/ Fault /\ \E id \in PoolIDs : NewPool(e, id)
            \/ /\ \A id \in PoolIDs : pools[id].state # "none"
               /\ UNCHANGED <<pools, faults>>
    /\ failed' = TRUE
    /\ GoTo(pc)
    /\ UNCHANGED <<cache, victim, kept, othersVars>>

Modify(e) ==
    /\ e.id \in Live
    /\ pools' = [pools EXCEPT ![e.id].set = Modified(e.set, pools[e.id].set),
                              ![e.id].state = "scaling"]

ModifyNodePool ==
    /\ pc = "modify"
    /\ \E e \in todo : Modify(e) /\ Tick(e)
    /\ GoTo(pc)
    /\ UNCHANGED <<cache, failed, victim, kept, faults, othersVars>>

ModifyNodePoolFails ==
    /\ pc = "modify"
    /\ \E e \in todo :
         /\ Tick(e)
         /\ \/ Fault /\ UNCHANGED pools
            \/ Fault /\ Modify(e)
            \/ e.id \notin Live /\ UNCHANGED <<pools, faults>>
    /\ failed' = TRUE
    /\ GoTo(pc)
    /\ UNCHANGED <<cache, victim, kept, othersVars>>

CallsMade ==
    /\ pc \in {"create", "modify"} /\ todo = {}
    /\ IF failed THEN ReturnError ELSE Requeue
    /\ UNCHANGED <<cache, pools, kept, faults, othersVars>>

-----------------------------------------------------------------------------
(* The calls of DeleteNodePool, of which a reconcile makes one *)

DescribeClusterNodes ==
    /\ pc = "nodes" /\ victim \in Live
    /\ IF pools[victim].nodes = 0 THEN GoTo("delete") /\ UNCHANGED callVars
       ELSE IF pools[victim].set.auto THEN Requeue
       ELSE GoTo("removeNodes") /\ UNCHANGED callVars
    /\ UNCHANGED <<cache, pools, kept, faults, othersVars>>

(* What each call makes of the pool. *)
AfterCall(p) ==
    IF pc = "removeNodes" THEN [p EXCEPT !.state = "removing_nodes"]
    ELSE IF pc = "delete" THEN [p EXCEPT !.state = "deleting"]
    ELSE [p EXCEPT !.set = Drained(p.set), !.state = "scaling"]

DrainCall ==
    /\ pc \in {"size", "limits", "removeNodes", "delete"} /\ victim \in Live
    /\ pools' = [pools EXCEPT ![victim] = AfterCall(pools[victim])]

DeleteNodePool ==
    /\ DrainCall
    /\ Requeue
    /\ UNCHANGED <<cache, kept, faults, othersVars>>

(* GetNodePools, too, may fail. *)
CallFails ==
    /\ \/ pc \in {"wait", "classify", "nodes", "size", "limits", "removeNodes", "delete"}
          /\ Fault /\ UNCHANGED pools
       \/ Fault /\ DrainCall
       \/ /\ pc \in {"nodes", "size", "limits", "removeNodes", "delete"}
          /\ victim \notin Live
          /\ UNCHANGED <<pools, faults>>
    /\ ReturnError
    /\ UNCHANGED <<cache, kept, othersVars>>

-----------------------------------------------------------------------------
(* updateConfigStatus *)

PhaseToSet == IF pc = "setActive" THEN Active ELSE Updating

(* Faulty variant: the phase is put over whatever is stored. *)
SetPhaseOver ==
    /\ pc \in {"setActive", "setUpdating"}
    /\ obj' = [obj EXCEPT !.phase = PhaseToSet] /\ cacheCurrent' = FALSE
    /\ Idle
    /\ UNCHANGED <<cache, queued, pools, kept, faults, othersVars>>

SetPhase ==
    /\ pc \in {"setActive", "setUpdating"}
    /\ workCurrent
    /\ obj' = [obj EXCEPT !.phase = PhaseToSet] /\ cacheCurrent' = FALSE
    /\ Idle
    /\ UNCHANGED <<cache, queued, pools, kept, faults, othersVars>>

SetPhaseFails ==
    /\ pc \in {"setActive", "setUpdating"}
    /\ \/ ~workCurrent /\ UNCHANGED <<obj, cacheCurrent, faults>>
       \/ Fault /\ UNCHANGED <<obj, cacheCurrent>>
       \/ /\ Fault /\ workCurrent
          /\ obj' = [obj EXCEPT !.phase = PhaseToSet] /\ cacheCurrent' = FALSE
    /\ Idle /\ queued' = TRUE
    /\ UNCHANGED <<cache, pools, kept, othersVars>>

Worker ==
    \/ Start \/ Wait \/ Classify
    \/ CreateNodePool \/ CreateNodePoolFails \/ ModifyNodePool \/ ModifyNodePoolFails
    \/ CallsMade
    \/ DescribeClusterNodes \/ DeleteNodePool \/ CallFails
    \/ SetPhase \/ SetPhaseFails

-----------------------------------------------------------------------------
(* Everybody else *)

Sync ==
    /\ ~cacheCurrent
    /\ cache' = obj /\ cacheCurrent' = TRUE /\ queued' = TRUE /\ given' = FALSE
    /\ UNCHANGED <<obj, pc, work, workCurrent, callVars, pools, kept, faults, othersVars>>

(* The id an entry has is that of a pool the operator goes on keeping: of    *)
(* one asked for, too, in the copies it works on.                            *)
Acknowledged(e) ==
    /\ Found(e)
    /\ e.id # NoPool => /\ e.name \in Wanted(cache)
                        /\ pc # "idle" => e.name \in Wanted(work)

UserEdit ==
    /\ edits < MaxEdits /\ edits' = edits + 1
    /\ \E w \in Asked : obj' = [obj EXCEPT !.managed = w.managed, !.pools = w.pools]
    /\ cacheCurrent' = FALSE /\ workCurrent' = FALSE
    /\ kept' = kept \cap Wanted(obj')
    /\ misled' = (misled \/ \E e \in obj'.pools : ~Acknowledged(e))
    /\ UNCHANGED <<cache, queued, pc, work, given, callVars, pools, faults, removals>>

Crash ==
    /\ Fault
    /\ Idle
    /\ cache' = obj /\ cacheCurrent' = TRUE /\ queued' = TRUE
    /\ UNCHANGED <<obj, pools, kept, othersVars>>

SetPool(i, state, nodes) ==
    /\ pools' = [pools EXCEPT ![i].state = state, ![i].nodes = nodes]
    /\ UNCHANGED <<objVars, queued, workerVars, kept, faults, edits>>

(* ACK finishes what it has begun: a fixed pool gets its size, nodes are     *)
(* removed, a pool is deleted.                                               *)
Settle(i) ==
    /\ LET p == pools[i]
       IN  CASE p.state = "initial" ->
                  SetPool(i, "active", Val(IF p.set.auto THEN p.set.min ELSE p.set.size))
             [] p.state = "scaling" ->
                  SetPool(i, "active", IF p.set.auto \/ p.set.size = Nil THEN p.nodes
                                       ELSE p.set.size)
             [] p.state = "removing_nodes" -> SetPool(i, "active", 0)
             [] p.state = "deleting" -> SetPool(i, "gone", 0)
             [] OTHER -> FALSE
    /\ UNCHANGED <<removals, misled>>

(* The autoscaler moves the nodes of a pool within its limits. *)
Autoscale(i) ==
    /\ pools[i].state = "active" /\ pools[i].set.auto
    /\ \E n \in Val(pools[i].set.min)..Val(pools[i].set.max) : SetPool(i, "active", n)
    /\ UNCHANGED <<removals, misled>>

ScaleDown(i) == pools[i].nodes > Val(pools[i].set.max) /\ Autoscale(i)

(* Another client of the account deletes a pool. *)
RemovedByOthers(i) ==
    /\ i \in Live
    /\ removals < MaxRemovals /\ removals' = removals + 1
    /\ misled' = TRUE
    /\ SetPool(i, "gone", 0)

ACK == \E i \in PoolIDs : Settle(i) \/ Autoscale(i)

Next ==
    \/ Worker \/ Sync \/ UserEdit \/ Crash \/ ACK
    \/ \E i \in PoolIDs : RemovedByOthers(i)

Spec == Init /\ [][Next]_vars

(* The worker goes on, the watch delivers, ACK finishes what it has begun,   *)
(* and the autoscaler removes the nodes a pool may not have any more.        *)
FairSpec ==
    /\ Spec
    /\ WF_vars(Worker) /\ WF_vars(Sync)
    /\ WF_vars(\E i \in PoolIDs : Settle(i)) /\ WF_vars(\E i \in PoolIDs : ScaleDown(i))

-----------------------------------------------------------------------------
(* Properties *)

(* ACK does not refuse a second pool of one name: only the ids the handler   *)
(* finds by name keep it from creating a pool twice, when an answer was lost *)
(* or the operator crashed in the middle of a queue.                         *)
NoneCreatedTwice ==
    \A i, j \in Live : pools[i].name = pools[j].name => i = j

(* "deletion needs to be done one by one", says handleDeleteNodePools: while *)
(* a pool loses its nodes or is deleted, no other changes in any way, also   *)
(* over several reconciles, whose calls fail or whose worker crashes.        *)
TakenDown == {"removing_nodes", "deleting"}

OneDeletionAtATime ==
    \A i, j \in Live : pools[i].state \in TakenDown => i = j \/ pools[j].state = "active"

(* A pool is deleted only when it runs no node any more, whatever scales it. *)
DeletedEmpty == \A i \in PoolIDs : pools[i].state = "deleting" => pools[i].nodes = 0

(* A pool the object has asked for all the time is not deleted, however old  *)
(* the object in the worker's hands is, and none at all of an object that    *)
(* does not manage its pools.                                                *)
KeepsWanted == \A i \in PoolIDs : pools[i].state = "deleting" => pools[i].name \notin kept

(* What types.go says of the fields: the limits are for autoscaling, and     *)
(* "DesiredSize is the desired number of nodes in case of auto scaling       *)
(* disabled".                                                                *)
Fits(s, u) ==
    /\ s.auto = u.auto
    /\ IF s.auto THEN ~LimitsDiffer(s, u) ELSE ~SizeDiffers(s, u)

(* What the object asks for is what ACK has. *)
InSync(o) ==
    o.managed =>
      /\ \A e \in o.pools : \E i \in Live : pools[i].name = e.name /\ Fits(e.set, pools[i].set)
      /\ \A i \in Live : \E e \in o.pools : e.name = pools[i].name

(* updateUpstreamClusterState "sync config to upstream cluster": it calls an *)
(* object active only when the pools are what its copy of it asks for.       *)
NothingOverlooked == [][pc = "classify" /\ Classify /\ Finish => InSync(work)]_vars

(* An object becomes active only when the pools are what it asks for at that *)
(* moment, not what some older version of it asked for.  That is so until a  *)
(* user gives an entry the id of a pool that is not there or is not asked    *)
(* for any more, or others delete a pool.                                    *)
ActiveInSync ==
    [][obj.phase = Updating /\ obj'.phase = Active /\ ~misled => InSync(obj)]_vars

(* What becomes of the pools is what PoolsPromise allows, whatever copy of   *)
(* the object a reconcile works on, and however many reconciles, failures    *)
(* and crashes the calls are spread over.                                    *)
Stage(state) ==
    CASE state \in {"initial", "scaling", "active"} -> "up"
      [] state = "removing_nodes" -> "removing"
      [] OTHER -> state

PromisedPools ==
    [i \in PoolIDs |->
       [name |-> pools[i].name, stage |-> Stage(pools[i].state), nodes |-> pools[i].nodes]]

Promise == INSTANCE PoolsPromise WITH pools <- PromisedPools
KeepsPoolsPromise == Promise!Spec

(* In the end the pools are what the object asks for, and it is active, as   *)
(* long as nobody else deletes one and no id misleads the operator.          *)
Converges ==
    [](~misled) =>
        <>[](obj.phase = Active /\ InSync(obj) /\ \A i \in Live : pools[i].state = "active")

=============================================================================
