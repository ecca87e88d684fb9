# A verification project for ali-operator

ali-operator is a Kubernetes controller: for every `AliClusterConfig` object it
creates (or imports), upgrades, resizes and deletes a cluster of Alibaba's
Container Service (ACK). These TLA+ modules model the parts of it whose
correctness depends on the order of steps: of the controller's workers, the API
server, the informer cache, the users, ACK and crashes. TLC checks them on small
instances, TLAPS proves the safety properties for all of them.

## The system

| Part | State | Operations | Hard |
|---|---|---|---|
| **Lifecycle** `controller/ali-cluster-config-handler.go` 51-282, 403-459; `pkg/alibaba/cluster.go` | the stored object, its cached copy, the worker's copy, the cluster in ACK, the CA secret, the finalizer | `OnAliConfigChanged`, `recordError`, `create`, `importCluster`, `waitForCreationComplete`, `createCASecret`, `OnAliConfigRemoved` | stale copies, conflicts, lost replies, crash between two calls, deletion at any moment |
| **Shared client** `Handler.alibabaClients` (48, 403-419), `main.go` 69 | one field for all workers | set at the start of every reconcile, read before every call | interleaving of two workers |
| **Update** 284-399, 461-499; `upgrade.go`, `task.go`, `common.go` | phase, message, failure message, `UpgradeTaskID`, desired version | `checkAndUpdate`, `enqueueUpdate`, `updateStatus` | crash after `UpgradeCluster`, a status written over a newer one, failed tasks, busy loops |
| **Node pools** 502-763; `nodepool.go` | desired pools, pools in ACK, their nodes | `updateNodePools` and its three queues, `DeleteNodePool` with its drain | partial failure, two reads of the pools in one reconcile, convergence |
| **Upstream spec** `external.go` | none | `BuildUpstreamClusterState`, `GetUserConfig` | what it makes of a cluster's pools must ask for no change of them |
| **Credentials, ACK client** `client.go`, `services/` | none | a secret lookup; one method per request | an error of each call |
| **Types, generated clients, code generation, charts, test helpers** | none | | none |

Interaction: `Register` puts two handlers on the same key of one work queue,
first `recordError(OnAliConfigChanged)`, then wrangler's adapter around
`OnAliConfigRemoved`, which looks after the finalizer. The queue hands a key to
one worker at a time; `main` starts two workers. The handlers read objects from
the informer cache and write them with `Update` and `UpdateStatus`, which the API
server refuses unless the writer's `resourceVersion` is the stored one. Every
write, the user's and their own, comes back through the watch and enqueues the
key; an error enqueues it, too.

### What makes each part correct

* Lifecycle: the id of a cluster is recorded once and never replaced; the phase
  never goes back; an active object has its CA secret; only the object's own,
  not imported cluster is deleted; the finalizer goes only when ACK has taken on
  the deletion; a cluster gets lost only through a failed call; deletion and
  creation come to an end.
* Shared client: each call goes to the region and account of the object it is
  made for.
* Update: the id of a running upgrade task is not lost to somebody else's write;
  an object is called active only when its version is reached; an edit, a failed
  call or a crash delays this but does not prevent it; a failure that is over is
  not reported any more.
* Node pools: none is created twice; only pools that nobody asks for are deleted,
  one by one and empty; `needsUpdate` and `handleUpdateNodePools` agree on what
  has to be changed; the pools become what the object asks for.

## Modules

| Module | Role |
|---|---|
| `AliConfig` | the object, its phases and the states of a cluster |
| `ClusterLifecycle` | one object and everybody who works on it, call by call |
| `ConfigPromise` | what the controller promises of one object: eight variables, no copies, no queue |
| `LifecycleInvariant` | the inductive invariants: `IInv`, and `AloneInv` of an object that is left alone |
| `MCLifecycle` | instances for TLC, and the two expectations the code does not meet |
| `LifecycleProofs` | type correctness, lemmas on the fields of an object |
| `LifecycleSafetyProofs` | `IInv` and `AloneInv` are invariant, and the safety properties |
| `LifecycleRefinement` | `ClusterLifecycle` implements `ConfigPromise` |
| `ClusterUpdate` | `checkAndUpdate` call by call, composed with `ClusterLifecycle`, which it refines |
| `ClusterUpdateInvariant` | the inductive invariant `UpdateInv` |
| `MCUpdate` | its instance for TLC: an imported cluster that runs |
| `ClusterUpdateProofs` | type correctness, task safety, when active means done, the refinement |
| `PoolConfig` | the pools as asked for and as listed, and what the handler computes from the two |
| `NodePools` | `updateNodePools`, one object and the pools of its cluster, call by call |
| `PoolsPromise` | what the controller promises of the pools: two variables, no copies, no settings |
| `NodePoolsInvariant` | the inductive invariants `PoolsInv` and `SyncInv` |
| `MCNodePools` | what users ask for and what clusters have, for TLC |
| `NodePoolsProofs` | `PoolsInv` is invariant; what the comparisons of `PoolConfig` guarantee |
| `NodePoolsSyncProofs` | `SyncInv` is invariant: an active object has its pools |
| `NodePoolsRefinement` | `NodePools` implements `PoolsPromise` |
| `SharedClients` | any number of objects and workers around the one client field |
| `MCSharedClients` | instances for TLC |
| `SharedClientsProofs` | only a client another reconcile puts in meanwhile does harm |

### ClusterLifecycle and the code

`obj` is the stored object, `cache` the informer's copy, `work` the copy in the
worker's hands. Versions are only ever compared with the stored one, so a copy
has one bit for it: `cacheCurrent`, `workCurrent`, and `startCurrent` for the
object the reconcile was given, which lasso passes to the next handler after a
failed write (the answer to it has no UID). `pc` names the worker's next call:

    createCluster -> updateSpec -> status         create
    describe -> secret -> status                  waitForCreationComplete, importCluster
    checkAndUpdate                                checkAndUpdate, as its outcomes
    record -> finalizer                           recordError, then the OnRemove adapter
    remove -> deleteCluster -> removeFinalizer    OnAliConfigRemoved, then the adapter

A step is one call and the local code up to the next one. Each call has an
action for its success and one for its failures: refused as a conflict or
because the object is gone, failed, or done with the answer lost. `Return` is
the return into `recordError`, `Finish` the end of the reconcile with or without
a requeue. `deletions` are the ids ACK agreed to delete, `dropped` is a history
variable: the ids whose telling or recording failed.

Two facts about the libraries are left open or fixed where `src/` does not say:

* whether a handler is given the cached object itself or a copy is the constant
  `SharedCache`; the safety and liveness runs check both. It matters because
  `create` sets `config.Spec.ClusterID` in place (226).
* the adapter of `OnRemove`, the work queue, the informer and the API server are
  modelled from how the handlers use them and are marked external in the map.

Deliberate abstractions: `Sync` brings the cache straight to the stored object,
so of several missed versions the cache shows only the last (what is lost is two
reconciles in a row on two different stale versions; one on any stale version is
there, because `Sync` may be delayed at will). `UserEdit` changes neither the id
nor `imported`. An object created again under the same name is a new instance.
The phase is one of the five the operator writes, so the `default` case of
`OnAliConfigChanged` does not occur. Messages are one value per kind of error.
The two `Settled` phases are written by `checkAndUpdate` in any order: this
module allows every status it can write (`CheckedStatus`, and `RetriedStatus` for
the write that `updateStatus` repeats); `ClusterUpdate` says which and why.

### ClusterUpdate and the code

The module EXTENDS `ClusterLifecycle` and adds the fields of the object that
`checkAndUpdate` reads and writes: `more` beside `obj`, `cacheMore` beside
`cache`, `workMore` beside `work`. Every action conjoins one of `ClusterLifecycle`
with what it does to the new variables, or leaves all of that module's variables
alone. `OtherWork` carries the new fields through the other handlers: a write of
the spec writes the wanted version and pools of the worker's copy, a write of the
status its task and message. In `checkAndUpdate`, `step` names the next call:

    cluster      GetCluster, SyncConfigSpecClusterFieldsWithUpstream   284-316
    task         DescribeTaskInfo, handleUpgradeTaskStatus             317-343
    nodePools    GetNodePools, and the decision to upgrade             345-382
    pools        updateUpstreamClusterState                            501-519
    upgrade      UpgradeCluster                                        384-392
    save         updateStatus, read again and repeated on a conflict   480-499
    write        UpdateStatus of enqueueUpdate and updateConfigStatus  461-483

`given` says that the worker still holds the cache's own object, into which the
upstream version is then written (`common.go` 49-51): a user who unsets the
version meets it there. At ACK, `tasks` are the upgrade tasks and `version` what
the cluster runs; a task succeeds, or fails as one of the `mishaps`, of which the
others are an answer without a state and an upgrade made by somebody else. `lost`
is a history variable, the tasks a failed call or a crash kept from the status.
The node pools are one value here, which a pass of `updateNodePools` changes.

### NodePools and the code

`PoolConfig` has the pure part. `FixIDs` is the loop that writes the ids of the
listed pools into the entries of the object, `ToCreate`, `ToModify` and `ToDelete`
are the three queues, `NeedsUpdate` and `ShouldModify` the two comparisons,
`Modified` is the request of `UpdateNodePoolConfig` and its effect, `DrainStep` and
`Drained` are the branches of `DeleteNodePool`. A pool has the four fields these
look at; a number that is left out is `Nil`.

In `NodePools`, `pc` names the worker's next call:

    wait                     GetNodePools of checkAndUpdate, WaitForNodePool
    classify                 GetNodePools of updateNodePools, the three queues
    create, modify           one call for each entry of `todo`; errors are joined
    size, limits, nodes, removeNodes, delete     DeleteNodePool, for one `victim`
    setActive, setUpdating   updateConfigStatus, enqueueUpdate

A reconcile makes calls of one kind and ends. ACK brings a changing pool to rest
(`Settle`), its autoscaler moves nodes within the limits at any moment, another
client deletes pools. Ids are given once; ACK accepts two pools of one name.
Two variables are history. `kept` are the names the object has asked for all the
time. `misled` says that an id in the object is a wrong one or may become one:
others have deleted a pool, or the user has given an entry an id (`Acknowledged`)
that is not that of the pool of this name, or that of a pool the operator, in one
of its copies, is not going to keep. Wishes are not restricted otherwise: a user
may stop asking for any pool, one with an id (of an imported object) included.
ACK is assumed to tell name and state of every pool it lists: `checkAndUpdate`
passes over one without them, with a warning (358-365), and would take it for
settled.
`recordError` appears as what it may do: turn an active object to updating after
an error, or write a message, which makes the cached copy stale.

### SharedClients and the code

A client is the endpoint of a region with the credentials of an account; it finds
the clusters of that account in that region and answers NotFound for others.
`SetClients` is `getAlibabaClients`; every later call reads the field `client`
again. The request for a new cluster names the region of its own object
(`cluster.go` 65), the account is the client's. `crossed` is a history variable:
the objects in whose reconcile another one has put in a different client while
requests of theirs were still to come. The data race of the Go program is reduced
to its harmless outcomes: a reader sees one of the clients that were written, for
all of them have the same type.

## Runs

| Run | Bounds | Shows |
|---|---|---|
| `LifecycleSafety` | 2 ids, 2 faults, 1 edit, cache shared or not; symmetric ids | `TypeOK`, `IInv`, `DeletesOnlyItsOwn`, `SecretBeforeActive`, `NoSilentLeak`, `AloneInv`, `OneClusterIfLeftAlone`, `KeepsPromise` hold (281,167 states) |
| `LifecycleLiveness` | 2 ids, 1 fault, 1 edit | `DeletionCompletes`, `CreationCompletes` hold (176,428 states) |
| `LifecycleConflict` | no fault, 1 edit | **violated**: `OneClusterWithoutFaults` |
| `LifecycleOrphan` | 1 fault, no edit | **violated**: `NoRecordedClusterLeft` |
| `Update` | 1 cluster, 2 versions, 2 tasks, 1 fault, 1 edit, 1 mishap | `UpdateTypeOK`, `NoTaskForgotten`, `UpdateInv`, `ActiveMeansDone`, `UpdateCompletes` hold (564,376 states) |
| `StaleFailure` | the same | **violated**: `FailureIsCleared` |
| `Pools` | 2 names, 4 ids, sizes to 2, 4 wishes, 2 sets of pools at first, 1 fault, 1 edit, 1 removal by others | `PoolsTypeOK`, `PoolsInv`, `NoneCreatedTwice`, `OneDeletionAtATime`, `DeletedEmpty`, `KeepsWanted`, `SyncInv`, `ActiveInSync`, `KeepsPoolsPromise`, `Converges` hold (255,694 states) |
| `PoolsFlapping` | an autoscaled pool with a desired size, no removal | **violated**: `Converges` |
| `PoolsLost` | an imported cluster of two pools, 1 removal | **violated**: `NothingOverlooked` |
| `ClientsTwoWorkers` | 3 objects of 2 regions and 2 accounts, 2 workers | `IInv`, `CreatedAtHome`, `ReleasedWhenGone` hold (1,953,587 states) |
| `ClientsAccount` | 2 objects of 2 accounts, 2 workers | **violated**: `MadeAtHome` |
| `ClientsRemoved` | 2 objects of 2 regions, 2 workers | **violated**: `RemovedIsGone` |

Why the bounds suffice: two ids let a second cluster be made and mistaken for
the first; one edit makes every copy stale at any point of a reconcile; two
faults make a retry fail again, or a crash follow a lost reply. A conflict, a
refused deletion and the exhausted quota of ids cost no fault. In `Update`, two
versions let one upgrade be wanted, asked for, lost and asked for again, and
another be made from outside; the cluster is imported, because what precedes the
settled phases is the other runs' matter. In `Pools`, the wishes and the pools at
first make each queue non-empty, alone and one after the other: a pool to shrink,
one to create, one to drain with nodes in it and one to leave alone, an object
that stops managing its pools or asks for none; four ids let every pool be made
a second time if the handler tried. One of the pools at first has a maximum and no
minimum and is not autoscaled, the case in which `DeleteNodePool` takes the
autoscaling branch (156). In `ClientsTwoWorkers` there is a pair of objects that
differ in the region, one that differs in the account, and one that differs in
both. The proofs have no such bounds. Deadlock is not checked: when the object is settled or gone and
nothing fails, the system rests.

Fairness (`FairSpec`): a worker takes a queued key and goes on to the end of the
reconcile, the watch delivers, ACK finishes what it started. Nobody has to fail,
edit or delete. The work queue, the informer and a running process justify the
first two; the third is ACK's part, without which no cluster ever runs.
`CreationCompletes` starts from a cluster that runs and gives up if it stops
running; `DeletionCompletes` has no such way out.

`FairUpdate` assumes the same of the worker, the watch and ACK, and that a task
ends, one way or the other, and changing pools come to rest (`Completion`).
`UpdateCompletes` is about a cluster that in the end goes on running while the user
leaves the object alone, asks for a version that can be had, and has no failed
task in the status. The `FairSpec` of `NodePools` assumes of ACK that a changing
pool settles and that the autoscaler takes away nodes above a pool's maximum: the
operator itself waits for exactly this when it drains an autoscaled pool
(`DescribeClusterNodes` with nodes left returns for another reconcile).

Every property of a passing run has a faulty variant of one definition, kept
just before it (`StartRemoveAny` before `StartRemove`, and so on), under which TLC
finds the property violated.

### Where the code does not do what it says

* **A conflict costs a cluster** (`LifecycleConflict`). `recordError` ignores a
  conflict because the next reconcile is to do what is left (104-106). But
  `create` knows the new id only in memory until `Update` (229): after a conflict
  the next reconcile finds no id in the refreshed cache and calls `CreateCluster`
  again; the first cluster is never deleted. One edit of the object is enough.
  `AloneIsSafe` proves that something of the kind is needed: an object that is left
  alone gets one cluster, however stale the copies are that its reconciles work on.
* **An empty phase is no proof** (`LifecycleOrphan`). `OnAliConfigRemoved` leaves
  the cluster alone in the first phase, since it "never advanced" (160). The id
  is stored by one call and the phase by a later one; in between, the cluster
  exists and is recorded. The run has the object deleted there. Past the first phase
  it does not happen: `Refinement` proves of every object that is let go what
  `ConfigPromise` asks for, a deletion ACK took on or a cluster that is gone.
* **A client for everybody** (`ClientsAccount`, `ClientsRemoved`). Two workers set
  and read one field (414). A cluster is made in another object's account, or a
  running one is reported "already removed" (166) and its finalizer dropped.
  `ClientMadeAtHome` and `ClientRemovedIsGone` prove what it takes: that another
  object's client is put in during that very reconcile.
* **A failure outlives its cause** (`StaleFailure`). When the reconcile went well
  but `recordError`'s own write of the empty failure message fails, it only logs
  the error (125-131) and returns nil: nothing puts the key back, and an active
  object keeps the message of a failure that is over.
* **A pool that is never right** (`PoolsFlapping`). `needsUpdate` compares the
  desired size of an autoscaled pool (743), `handleUpdateNodePools` does not
  (653-667): one reconcile sets updating, the next one finds nothing to send and
  sets active, and so on, although the desired size is for pools without
  autoscaling (`types.go` 100). `UpdateAgrees` proves that this is the only case.
* **A pool that is not missed** (`PoolsLost`). An entry whose id no pool has is not
  created (559 asks for an empty id) and is skipped by both comparisons (649): the
  object is set active without it. Every entry of an imported object has an id.
  `NothingToDoIsInSync` proves that this is the only way to overlook a pool, and
  `NoneIsOverlooked` that it takes a misleading id: one whose pool others deleted, or
  one the user gave an entry although its pool is not there or on its way out.

## Proofs

All are for arbitrary sets of ids, objects, workers, clients, pools and wishes and
for all bounds, from the named assumptions on the constants. Two of these say
something about data. `WishesAssumption`: no wish has two pools of one name, and an
object that does not manage its pools lists none. `PoolsAtFirstAssumption`: the
pools the cluster has at first differ in their names and are at rest. No theorem
about the behaviours of a specification has a hypothesis of its own.

* `TypeCorrect`: `Spec => []TypeOK`.
* `Invariance`: `Spec => []IInv`. The properties are not inductive by themselves:
  they depend on what a worker's copy may differ in from the stored object, and
  on what it found out before the call it is about to make. `IInv` says it:
  `OlderThan` (a copy is no further in its life than the object, and names the
  same cluster once past the first phase), `SameBut` (a current copy differs at
  most by an id the object does not have yet), `LabelOK` (what holds at each
  `pc`, e.g. before the finalizer is removed: imported, or never created, or
  deletion accepted, or gone). The proof has one step per action; writes are
  handled once, by the lemma that what is written is a later version of the
  object (`GoodWrite`, `Evolves`).
* `DeletionIsOwn`, `SecretIsThere`, `LeaksAreKnown` follow from it.
* `Refinement`: `Spec => KeepsPromise`. Each action maps to an action of
  `ConfigPromise` or to a stutter, under `IInv`.
* `AloneInvariance`, `AloneIsSafe`: `Spec => []OneClusterIfLeftAlone`. A stale copy
  alone does not make a second cluster, although `create` decides on one. The reason
  is in `AloneOK`: until the watch has brought the recorded id nothing puts the key
  back (`CacheKnowsID`), so a reconcile that finds no id works on the stored object,
  its `Update` is not refused, and the id is in the cache of the next one or, with a
  shared cache, was put there by `create`. The hypothesis `LeftAlone` (no failed
  call or crash, no edit, no deletion) is in the property.
* `ClientSafe`, `ClientMadeAtHome`, `ClientRemovedIsGone`: `Spec => []IInv` of
  `SharedClients`, and from it `Spec => CreatedAtHome` and `Spec => ReleasedWhenGone`,
  for any number of workers, objects, regions and accounts. The invariant: from
  `getAlibabaClients` to the end of a reconcile that nobody crosses, the client is
  its object's, and before the finalizer is removed the cluster is known to be
  gone or on its way. That crossings do harm are the two findings; that nothing
  else does, a failed `getAlibabaClients` or one of an object with the same region
  and credentials included, are these theorems.
* `UpdateIsLifecycle`: `UpdateSpecification => Spec`. Each action of `ClusterUpdate`
  is matched with one of `ClusterLifecycle`: the calls that only read are stutters
  or `CheckOnly`, the writes `UpdateStatus` and `UpdateStatusWithRetry` with a
  status that module allows. `UpdateKeepsPromise` adds `Refinement` to it: the
  detailed update, too, implements `ConfigPromise`, and `IInv` and the properties
  proved from it carry over. `UpdateTypeCorrect`: `UpdateSpecification => []UpdateTypeOK`.
* `TasksRemembered`: `UpdateSpecification => []NoTaskForgotten`. The invariant added
  (`CopiesOK`, `PlanOK`): a copy with the current version has the task of the stored
  status; the status about to be written keeps the task of the worker's copy or
  clears one that is not running; while an accepted upgrade waits to be saved, no
  other task runs.
* `PassInvariance`: `UpdateSpecification => []UpdateInv`, and from it `ActiveIsDone`,
  `UpdateSpecification => ActiveMeansDone`. What the write of the phase relies on was
  read several calls before. `WantedOK`: a copy with the current version wants what
  the object wants, or has an unset version filled in; `PassOK`: past the task
  nothing is under way unless its state was not told, and past the comparison of
  the versions the cluster was seen to run the wanted one. A write that was based on
  an older version is refused, so what was wanted then is wanted still.
* `PoolsInvariance`: `Spec => []PoolsInv`. The safety properties of the pools are
  not inductive: a call is made in a later step than the comparison that asks for
  it. `PoolsInv` says that what was learnt is still true then: what is about to be
  created is missing (`CreatingOK`), no pool changes between the wait and the first
  call (`QuietOK`), the victim is a pool nobody asked for, and once its nodes are
  counted nothing brings any back (`VictimOK`), and every copy of the object, however
  old, asks for what has been asked for all the time (`CopiesOK`).
  `PoolsTypeCorrect`, `PoolsUnique`, `DeletionsEmpty` and `DeletionsWanted` follow from
  it, and `DeletionsOneByOne`: while ACK takes nodes off a pool or deletes it, no
  other pool is changing in any way.
* `PoolsRefinement`: `Spec => KeepsPoolsPromise`. A pool's state maps to its stage
  (`Stage`): a pool that scales is still up. Each action of `NodePools` maps to an
  action of `PoolsPromise` or to a stutter, under `PoolsInv`; that no pool is created
  while another is taken down is the second half of `QuietOK`.
* `SyncInvariance`, `ActiveIsInSync`, `NoneIsOverlooked`: `Spec => []SyncInv`, and from it
  `Spec => ActiveInSync` and that updateUpstreamClusterState, unless `misled`, takes an
  object for done only when the pools are what its copy asks for. `SyncInv` says
  which copies are the same but for the ids (`AlikeOK`), that the ids in them are
  those of the pools of these names (`FoundOK`), that a pool whose id one copy has is
  asked for in the copies that come after it, so that no copy has the id of the pool
  that is being deleted (`KeepsOK`), and that the pools still are what the worker's
  copy asks for when it is about to set the phase (`ActivateOK`), the last three
  until an id is misleading. The condition cannot be dropped: with a pool deleted by
  others, or with an id that is asked for again after its pool was deleted, the code
  has the case of `PoolsLost`.
* Of the pure part: `UpdateAgrees` (the two comparisons disagree about a pool only
  when both sides autoscale and the desired sizes differ), `ModifiedIsUpToDate` (one
  request makes a pool need no second one), `NothingToDoIsInSync` (when the handler
  finds nothing to do, the pools are what is asked for, but for entries with the id
  of a pool that is gone), `ImportedNeedsNothing` (in a spec made of the pools there
  are, none is to be created, only pools that share their name with another one
  would be modified or deleted, and none at all when the names differ: with two pools
  of one name `FixIDs` gives both entries one id, and the other pool is deleted).

Only model-checked: the liveness properties `DeletionCompletes`, `CreationCompletes`,
`UpdateCompletes` and `Converges` (liveness under fairness and ENABLED are beyond the
prover), and the violations. Every invariant and every action property of a passing
run is the statement of a theorem.

## Plan

1. Done: lifecycle, its promise and proofs; the shared client.
2. Done: `ClusterUpdate`, its composition with the lifecycle and its proofs.
3. Done: `PoolConfig` and `NodePools`, their promise and their proofs.
4. Done: what delimits the findings (`AloneIsSafe`, `ClientMadeAtHome`,
   `ClientRemovedIsGone`, `NoneIsOverlooked`).
5. Open: `NodePools` in place of the one value `pools` of `ClusterUpdate` (too many
   states for TLC as it is).

## Not modelled

* Of the lifecycle: the messages of the phases before active. While a cluster is
  created, the message `waitForCreationComplete` sets (268-275) is the one `create`
  wrote, and `updateConfigStatus` writes nothing: only a user who renames the cluster
  in between makes it write once, and a conflict of that write end the reconcile
  before the delayed enqueue (the edit brings the key back). The contents of requests
  and of the CA secret; the checks of the user's input.
* Of the update: the single tries of `updateStatus` (480-499). Each reads the object
  again and writes it at that version, a conflict changes nothing and leads to the
  next one; the try that succeeds had no write of somebody else between its read and
  its write, so that the two are one step (`SaveTask`). That the tries of
  `retry.DefaultRetry` (487) are used up is a failure of the write (`SaveTaskFails`),
  and counted as a fault. which pool is changing, and passes of `updateNodePools` that
  change only some of the pools (`NodePools` has both). `GetTask` has no caller.
* Of the node pools: `UpdateNodePoolAutoScalingConfig` and
  `UpdateNodePoolDesiredSize` (240-268 of `nodepool.go`) have no caller. ACK is
  assumed to keep the fields a request leaves out, as the request types with
  optional fields suggest. Two entries of one name, and list entries that are nil
  are not among the wishes. The
  paging of `DescribeClusterNodes` is one call. The states `removing` and `updating`
  are waited for like the others and are not produced. The failure message is only
  the version it makes.
* Of `BuildUpstreamClusterState` the fields other than the pools: a translation
  that the operator itself never calls. `GetUserConfig`: one read.
* Generated code, code generation, charts, test helpers; flags, logging and
  signals of `main`; the retries of the HTTP layer below the ACK client.
