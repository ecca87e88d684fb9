--------------------------- MODULE ClusterLifecycle ---------------------------
(***************************************************************************)
(* The life of one AliClusterConfig, from its creation to the removal of   *)
(* its finalizer, under the controller of controller/ali-cluster-config-   *)
(* handler.go.                                                             *)
(*                                                                         *)
(* Four parties share the state: the API server, which stores the object   *)
(* and refuses a write made from another version than the stored one; the  *)
(* informer, whose cache lags behind it; the worker, which runs one        *)
(* reconcile of this key at a time from a cached copy; and ACK, where the  *)
(* clusters live.  A user edits and deletes the object at any moment.      *)
(* A step of the worker is one call to the API server or to ACK together   *)
(* with the local code up to the next call.                                *)
(*                                                                         *)
(* Resource versions are only ever compared with the stored one, so each   *)
(* copy of the object carries one bit: is its version the stored version?  *)
(***************************************************************************)
EXTENDS AliConfig, Naturals

CONSTANTS SharedCache,   \* {TRUE}: a handler is given the cache's own object,
                         \* {FALSE}: a copy of it, BOOLEAN: either
          MaxFaults,     \* bound on failed calls, lost replies and crashes
          MaxEdits       \* bound on the user's edits of the object

ASSUME SharedCacheAssumption == SharedCache \subseteq BOOLEAN /\ SharedCache # {}
ASSUME BoundsAssumption == MaxFaults \in Nat /\ MaxEdits \in Nat

VARIABLES
    obj,            \* the object the API server stores
    cache,          \* the informer's copy
    cacheCurrent,   \* its resourceVersion is the stored one
    queued,         \* the key is in the work queue (at once or after a delay)
    pc,             \* the next call of the worker, "idle" between reconciles
    work,           \* the object in the worker's hands
    workCurrent,    \* its resourceVersion is the stored one
    startCurrent,   \* the same, for the object this reconcile was given
    aliased,        \* `work' is still the object in the cache
    err,            \* what OnAliConfigChanged returns
    cloud,          \* ACK: the state of every cluster id
    deletions,      \* ACK: the ids whose deletion it took on, finished or not
    secret,         \* the CA secret of the cluster exists
    dropped,        \* history: ids whose recording failed once
    faults, edits   \* how much of the two bounds is used up

storeVars  == <<obj, cache, cacheCurrent>>
workerVars == <<pc, work, workCurrent, startCurrent, aliased, err>>
cloudVars  == <<cloud, deletions, secret>>
vars == <<storeVars, queued, workerVars, cloudVars, dropped, faults, edits>>

Labels == {"idle", "createCluster", "updateSpec", "status", "describe", "secret",
           "checkAndUpdate", "record", "finalizer",
           "remove", "deleteCluster", "removeFinalizer"}

TypeOK ==
    /\ obj \in Config /\ cache \in Config /\ work \in Config
    /\ cacheCurrent \in BOOLEAN /\ workCurrent \in BOOLEAN
    /\ startCurrent \in BOOLEAN /\ aliased \in BOOLEAN
    /\ queued \in BOOLEAN /\ secret \in BOOLEAN
    /\ pc \in Labels
    /\ err \in Errors
    /\ cloud \in [Clusters -> CloudStates]
    /\ deletions \subseteq Clusters /\ dropped \subseteq Clusters
    /\ faults \in 0..MaxFaults /\ edits \in 0..MaxEdits

(* A fresh object: it names no cluster, or one that exists already (always   *)
(* so when it is imported).                                                  *)
Init ==
    /\ \E imported \in BOOLEAN, id \in Clusters \cup {NoID} :
         /\ imported => id # NoID
         /\ obj = [NoConfig EXCEPT !.exists = TRUE, !.imported = imported, !.id = id]
         /\ \E state \in {"creating", "running"} :
              cloud = [c \in Clusters |-> IF c = id THEN state ELSE "absent"]
    /\ cache = obj /\ cacheCurrent = TRUE /\ queued = TRUE
    /\ pc = "idle" /\ work = NoConfig /\ err = NoError
    /\ workCurrent = FALSE /\ startCurrent = FALSE /\ aliased = FALSE
    /\ secret = FALSE /\ deletions = {} /\ dropped = {}
    /\ faults = 0 /\ edits = 0

-----------------------------------------------------------------------------
(* The API server and the informer. *)

Fault == faults < MaxFaults /\ faults' = faults + 1

(* A write that changes nothing leaves the resourceVersion alone. *)
Store(new) ==
    /\ obj' = new
    /\ cacheCurrent' = (cacheCurrent /\ new = obj)

CanWrite == obj.exists /\ workCurrent

(* Update and UpdateStatus answer with the stored object ... *)
WriteSucceeds(new) ==
    /\ CanWrite
    /\ Store(new)
    /\ work' = new /\ workCurrent' = TRUE
    /\ startCurrent' = (startCurrent /\ new = obj)
    /\ UNCHANGED faults

(* ... or with a conflict, NotFound, or a failure of the call, after which   *)
(* the object may have been written all the same.  `kept' tells whether the  *)
(* object the reconcile goes on with has the stored version.                 *)
WriteFails(new, kept) ==
    \/ /\ ~CanWrite
       /\ err' = IF obj.exists THEN "conflict" ELSE "kube"
       /\ workCurrent' = kept
       /\ UNCHANGED <<obj, cacheCurrent, work, startCurrent, faults>>
    \/ /\ CanWrite /\ Fault
       /\ err' = "kube"
       /\ UNCHANGED work
       /\ \/ workCurrent' = kept /\ UNCHANGED <<obj, cacheCurrent, startCurrent>>
          \/ /\ Store(new)
             /\ workCurrent' = (kept /\ new = obj)
             /\ startCurrent' = (startCurrent /\ new = obj)

(* Spec and status are written through different endpoints, each of which    *)
(* ignores the other's fields.                                               *)
SpecOf(c)   == WithID(obj, c.id)
StatusOf(c) == WithStatus(obj, c.phase, c.failure)

(* The watch brings the cache up to date and enqueues the key. *)
Sync ==
    /\ ~cacheCurrent
    /\ cache' = obj /\ cacheCurrent' = TRUE
    /\ queued' = TRUE
    /\ aliased' = FALSE
    /\ UNCHANGED <<obj, pc, work, workCurrent, startCurrent, err, cloudVars,
                   dropped, faults, edits>>

(* A new version that is not the worker's makes every copy out of date. *)
OthersWrite(new) ==
    /\ obj' = new
    /\ cacheCurrent' = FALSE /\ workCurrent' = FALSE /\ startCurrent' = FALSE
    /\ UNCHANGED <<cache, queued, pc, work, aliased, err, cloudVars, dropped, faults>>

UserEdit ==
    /\ obj.exists /\ edits < MaxEdits
    /\ edits' = edits + 1
    /\ OthersWrite(obj)

UserDelete ==
    /\ obj.exists /\ ~obj.deleting
    /\ OthersWrite(IF obj.finalizer THEN Deleting(obj) ELSE Removed(obj))
    /\ UNCHANGED edits

-----------------------------------------------------------------------------
Idle ==
    /\ pc' = "idle" /\ work' = NoConfig /\ err' = NoError
    /\ workCurrent' = FALSE /\ startCurrent' = FALSE /\ aliased' = FALSE

(* The end of a reconcile: an error puts the key back into the queue. *)
Finish(requeue) == Idle /\ queued' = (queued \/ requeue)

GoTo(label) ==
    /\ pc' = label
    /\ UNCHANGED <<work, workCurrent, startCurrent, aliased, err, queued>>

(* OnAliConfigChanged ends here, with an error or without. *)
Return(e) ==
    /\ pc' = "record" /\ err' = e
    /\ UNCHANGED <<work, workCurrent, startCurrent, aliased>>

(* Faulty variant: the phase alone tells whether there is a cluster. *)
FirstCallByPhase(c) ==
    IF c.phase \in Settled THEN "checkAndUpdate"
    ELSE IF c.phase # NotCreated THEN "describe"
    ELSE IF c.imported THEN "status" ELSE "createCluster"

(* OnAliConfigChanged: the first call it makes for a phase. *)
FirstCall(c) ==
    IF c.phase \in Settled THEN "checkAndUpdate"
    ELSE IF c.phase # NotCreated THEN "describe"
    ELSE IF c.imported THEN "status"
    ELSE IF c.id = NoID THEN "createCluster" ELSE "updateSpec"

TakeCached ==
    /\ pc = "idle" /\ queued
    /\ work' = cache /\ workCurrent' = cacheCurrent /\ startCurrent' = cacheCurrent
    /\ queued' = FALSE
    /\ UNCHANGED <<storeVars, cloudVars, dropped, edits>>

(* The object is gone. *)
NothingToDo ==
    /\ pc = "idle" /\ queued
    /\ ~cache.exists
    /\ queued' = FALSE
    /\ UNCHANGED <<storeVars, workerVars, cloudVars, dropped, faults, edits>>

StartChange ==
    /\ TakeCached
    /\ cache.exists /\ ~cache.deleting
    /\ \E shared \in SharedCache :
         aliased' = (shared /\ FirstCall(cache) = "createCluster")
    /\ \/ pc' = FirstCall(cache) /\ err' = NoError /\ UNCHANGED faults
       \/ pc' = "record" /\ err' = "cloud" /\ Fault    \* getAlibabaClients failed

(* Faulty variant: Imported is not looked at. *)
StartRemoveAny ==
    /\ TakeCached
    /\ cache.exists /\ cache.deleting
    /\ aliased' = FALSE /\ err' = NoError
    /\ pc' = IF cache.phase = NotCreated THEN "removeFinalizer" ELSE "remove"
    /\ UNCHANGED faults

(* OnAliConfigRemoved, up to its first call. *)
StartRemove ==
    /\ TakeCached
    /\ cache.exists /\ cache.deleting
    /\ aliased' = FALSE /\ err' = NoError
    /\ pc' = IF cache.imported \/ cache.phase = NotCreated
             THEN "removeFinalizer" ELSE "remove"
    /\ UNCHANGED faults

(* getAlibabaClients failed: the error goes back to the queue unrecorded. *)
StartRemoveFails ==
    /\ pc = "idle" /\ queued
    /\ cache.exists /\ cache.deleting /\ ~cache.imported
    /\ Fault
    /\ Finish(TRUE)
    /\ UNCHANGED <<storeVars, cloudVars, dropped, edits>>

-----------------------------------------------------------------------------
(* create *)

(* CreateCluster succeeds; the id is set in the object the handler was       *)
(* given, and with a shared cache that is the cached object itself.          *)
CreateCluster ==
    /\ pc = "createCluster"
    /\ \E id \in Clusters :
         /\ cloud[id] = "absent"
         /\ cloud' = [cloud EXCEPT ![id] = "creating"]
         /\ work' = WithID(work, id)
         /\ cache' = IF aliased THEN WithID(cache, id) ELSE cache
    /\ pc' = "updateSpec" /\ aliased' = FALSE
    /\ UNCHANGED <<obj, cacheCurrent, queued, workCurrent, startCurrent, err,
                   deletions, secret, dropped, faults, edits>>

(* The request is invalid or refused (a quota is no fault), or its answer is *)
(* lost after the cluster was made.                                          *)
CreateClusterFails ==
    /\ pc = "createCluster"
    /\ Return("cloud")
    /\ \/ /\ \/ UNCHANGED faults /\ \A id \in Clusters : cloud[id] # "absent"
             \/ Fault
          /\ UNCHANGED <<cloud, dropped>>
       \/ /\ Fault
          /\ \E id \in Clusters :
               /\ cloud[id] = "absent"
               /\ cloud' = [cloud EXCEPT ![id] = "creating"]
               /\ dropped' = dropped \cup {id}
    /\ UNCHANGED <<storeVars, queued, deletions, secret, edits>>

(* Faulty variant: the id goes to the status endpoint, which ignores the spec. *)
UpdateSpecAsStatus ==
    /\ pc = "updateSpec"
    /\ WriteSucceeds(StatusOf(work))
    /\ pc' = "status"
    /\ UNCHANGED <<cache, queued, aliased, err, cloudVars, dropped, edits>>

UpdateSpec ==
    /\ pc = "updateSpec"
    /\ WriteSucceeds(SpecOf(work))
    /\ pc' = "status"
    /\ UNCHANGED <<cache, queued, aliased, err, cloudVars, dropped, edits>>

(* The id the worker holds, if the API server does not know it. *)
Unrecorded == {work.id} \ {obj'.id, NoID}

UpdateSpecFails ==
    /\ pc = "updateSpec"
    /\ WriteFails(SpecOf(work), workCurrent)
    /\ pc' = "record"
    /\ dropped' = dropped \cup Unrecorded
    /\ UNCHANGED <<cache, queued, aliased, cloudVars, edits>>

-----------------------------------------------------------------------------
(* waitForCreationComplete and importCluster *)

(* Faulty variant: the secret is left for later. *)
ClusterIsRunningNoSecret ==
    /\ pc = "describe" /\ cloud[work.id] = "running"
    /\ GoTo("status")
    /\ UNCHANGED <<storeVars, cloudVars, dropped, faults, edits>>

ClusterIsRunning ==
    /\ pc = "describe" /\ cloud[work.id] = "running"
    /\ GoTo("secret")
    /\ UNCHANGED <<storeVars, cloudVars, dropped, faults, edits>>

(* Faulty variant: nothing brings the key back while the cluster is created. *)
ClusterIsNotRunningIdle ==
    /\ pc = "describe" /\ cloud[work.id] # "running"
    /\ Return(IF cloud[work.id] = "gone" THEN "cloud"
              ELSE IF work.phase = Importing \/ cloud[work.id] = "failed" THEN "state"
              ELSE NoError)
    /\ UNCHANGED <<storeVars, queued, cloudVars, dropped, faults, edits>>

(* A new cluster has time to become running, unless its creation failed; one *)
(* to import must run already, and the error makes the key come back.        *)
ClusterIsNotRunning ==
    /\ pc = "describe" /\ cloud[work.id] # "running"
    /\ IF cloud[work.id] = "gone"
       THEN Return("cloud") /\ UNCHANGED queued
       ELSE IF work.phase = Importing \/ cloud[work.id] = "failed"
            THEN Return("state") /\ UNCHANGED queued
            ELSE Return(NoError) /\ queued' = TRUE       \* aliEnqueueAfter
    /\ UNCHANGED <<storeVars, cloudVars, dropped, faults, edits>>

DescribeFails ==
    /\ pc = "describe" /\ Fault
    /\ Return("cloud")
    /\ UNCHANGED <<storeVars, queued, cloudVars, dropped, edits>>

(* createCASecret: a secret that exists already is as good as a new one. *)
CreateCASecret ==
    /\ pc = "secret"
    /\ secret' = TRUE
    /\ GoTo("status")
    /\ UNCHANGED <<storeVars, cloud, deletions, dropped, faults, edits>>

CreateCASecretFails ==
    /\ pc = "secret" /\ Fault
    /\ secret' \in {secret, TRUE}
    /\ Return("cloud")
    /\ UNCHANGED <<storeVars, queued, cloud, deletions, dropped, edits>>

(* Faulty variant: ACK's word for the state is taken for the phase. *)
NextPhaseOfCloud(c) == IF c.phase # NotCreated THEN cloud[c.id] ELSE Creating

(* The phase that follows the one the reconcile started in. *)
NextPhase(c) ==
    IF c.phase # NotCreated THEN Active ELSE IF c.imported THEN Importing ELSE Creating

Advanced == WithStatus(obj, NextPhase(work), work.failure)

UpdatePhase ==
    /\ pc = "status"
    /\ WriteSucceeds(Advanced)
    /\ pc' = "record"
    /\ UNCHANGED <<cache, queued, aliased, err, cloudVars, dropped, edits>>

(* A failed UpdateStatus answers with an empty object, which recordError     *)
(* cannot write either: the reconcile goes on with the object it was given.  *)
UpdatePhaseFails ==
    /\ pc = "status"
    /\ WriteFails(Advanced, startCurrent)
    /\ pc' = "finalizer"
    /\ UNCHANGED <<cache, queued, aliased, cloudVars, dropped, edits>>

-----------------------------------------------------------------------------
(* checkAndUpdate, as far as the life of the object goes: it leaves the spec *)
(* alone and keeps the phase among Settled.                                  *)

(* It ends without a write, and may have asked for another reconcile. *)
CheckOnly ==
    /\ pc = "checkAndUpdate"
    /\ \E e \in {NoError, "cloud", "state"} : Return(e)
    /\ queued' \in {queued, TRUE}
    /\ Fault \/ UNCHANGED faults
    /\ UNCHANGED <<storeVars, cloudVars, dropped, edits>>

(* The statuses it writes over the one this version has. *)
CheckedStatus ==
    \E p \in Settled, f \in {work.failure, "state"} : obj' = WithStatus(obj, p, f)

(* What enqueueUpdate returns after a change of the message alone is still   *)
(* the version it was given.                                                 *)
UpdateStatus ==
    /\ pc = "checkAndUpdate" /\ CanWrite
    /\ CheckedStatus
    /\ work' = obj'
    /\ workCurrent' \in {TRUE, obj' # obj}
    /\ queued' \in {queued, TRUE}
    /\ cacheCurrent' = FALSE /\ startCurrent' = FALSE
    /\ pc' = "record"
    /\ UNCHANGED <<cache, aliased, err, cloudVars, dropped, faults, edits>>

(* The status updateStatus writes, after an upgrade was started: it reads    *)
(* the stored object and puts the status of the worker's version over it,    *)
(* whatever changed.                                                         *)
RetriedStatus == work.phase = Updating /\ obj.exists /\ obj' = StatusOf(work)

(* The write is refused, or it fails and was stored or not. *)
UpdateStatusFails ==
    /\ pc = "checkAndUpdate"
    /\ \/ /\ ~CanWrite
          /\ err' = IF obj.exists THEN "conflict" ELSE "kube"
          /\ workCurrent' = startCurrent
          /\ UNCHANGED <<obj, cacheCurrent, startCurrent, faults>>
       \/ /\ obj.exists /\ Fault /\ err' = "kube"
          /\ workCurrent' = startCurrent
          /\ UNCHANGED <<obj, cacheCurrent, startCurrent>>
       \/ /\ obj.exists /\ Fault /\ err' = "kube"
          /\ (CanWrite /\ CheckedStatus) \/ RetriedStatus
          /\ cacheCurrent' = FALSE /\ workCurrent' = FALSE /\ startCurrent' = FALSE
    /\ pc' = "finalizer"
    /\ UNCHANGED <<cache, queued, work, aliased, cloudVars, dropped, edits>>

UpdateStatusWithRetry ==
    /\ pc = "checkAndUpdate" /\ RetriedStatus
    /\ work' = obj' /\ workCurrent' = TRUE
    /\ cacheCurrent' = FALSE /\ startCurrent' = FALSE
    /\ pc' = "record"
    /\ UNCHANGED <<cache, queued, aliased, err, cloudVars, dropped, faults, edits>>

-----------------------------------------------------------------------------
(* recordError, around all of OnAliConfigChanged *)

(* A conflict is not recorded, nor what the status says already. *)
NothingToRecord ==
    /\ pc = "record" /\ err \in {"conflict", work.failure}
    /\ GoTo("finalizer")
    /\ UNCHANGED <<storeVars, cloudVars, dropped, faults, edits>>

(* Faulty variant: an error of any phase is taken for a failing update. *)
RecordedAnyPhase ==
    WithStatus(obj, IF err # NoError THEN Updating ELSE work.phase, err)

(* An error of an active cluster is taken for a failing update. *)
Recorded ==
    WithStatus(obj, IF err # NoError /\ work.phase = Active THEN Updating ELSE work.phase,
               err)

RecordError ==
    /\ pc = "record" /\ err \notin {"conflict", work.failure}
    /\ WriteSucceeds(Recorded)
    /\ pc' = "finalizer"
    /\ UNCHANGED <<cache, queued, aliased, err, cloudVars, dropped, edits>>

(* The failure is only logged.  The next handler gets the object this        *)
(* reconcile was given, since the answer to a failed write has no UID.       *)
RecordErrorFails ==
    /\ pc = "record" /\ err \notin {"conflict", work.failure}
    /\ \/ /\ ~CanWrite
          /\ workCurrent' = startCurrent
          /\ UNCHANGED <<obj, cacheCurrent, startCurrent, faults>>
       \/ /\ CanWrite /\ Fault
          /\ workCurrent' = startCurrent
          /\ UNCHANGED <<obj, cacheCurrent, startCurrent>>
       \/ /\ CanWrite /\ Fault
          /\ Store(Recorded)
          /\ workCurrent' = FALSE /\ startCurrent' = FALSE
    /\ pc' = "finalizer"
    /\ UNCHANGED <<cache, queued, work, aliased, err, cloudVars, dropped, edits>>

-----------------------------------------------------------------------------
(* The adapter of OnRemove, next in the chain: it gives an object without    *)
(* the finalizer one, with a write of the object the first handler returned. *)

HasFinalizer ==
    /\ pc = "finalizer" /\ work.finalizer
    /\ Finish(err # NoError)
    /\ UNCHANGED <<storeVars, cloudVars, dropped, faults, edits>>

Guarded == WithFinalizer(SpecOf(work))

AddFinalizer ==
    /\ pc = "finalizer" /\ ~work.finalizer
    /\ CanWrite /\ Store(Guarded)
    /\ Finish(err # NoError)
    /\ UNCHANGED <<cache, cloudVars, dropped, faults, edits>>

AddFinalizerFails ==
    /\ pc = "finalizer" /\ ~work.finalizer
    /\ \/ ~CanWrite /\ UNCHANGED <<obj, cacheCurrent, faults>>
       \/ CanWrite /\ Fault /\ UNCHANGED <<obj, cacheCurrent>>
       \/ CanWrite /\ Fault /\ Store(Guarded)
    /\ Finish(TRUE)
    /\ UNCHANGED <<cache, cloudVars, dropped, edits>>

-----------------------------------------------------------------------------
(* OnAliConfigRemoved, from its first call on *)

(* Faulty variant: a cluster that cannot be described is taken for removed. *)
DescribeRemovedAny ==
    /\ pc = "remove"
    /\ GoTo("removeFinalizer")
    /\ UNCHANGED <<storeVars, cloudVars, dropped, faults, edits>>

(* Faulty variant: a cluster that is not found is an error like any other. *)
DescribeRemovedStrict ==
    /\ pc = "remove"
    /\ IF cloud[work.id] = "gone" THEN Finish(TRUE) ELSE GoTo("deleteCluster")
    /\ UNCHANGED <<storeVars, cloudVars, dropped, faults, edits>>

DescribeRemoved ==
    /\ pc = "remove"
    /\ GoTo(IF cloud[work.id] = "gone" THEN "removeFinalizer" ELSE "deleteCluster")
    /\ UNCHANGED <<storeVars, cloudVars, dropped, faults, edits>>

AcceptDeletion(id) ==
    /\ id \in Clusters /\ cloud[id] # "gone"
    /\ cloud' = [cloud EXCEPT ![id] = "deleting"]
    /\ deletions' = deletions \cup {id}
    /\ UNCHANGED secret

DeleteCluster ==
    /\ pc = "deleteCluster"
    /\ AcceptDeletion(work.id)
    /\ GoTo("removeFinalizer")
    /\ UNCHANGED <<storeVars, dropped, faults, edits>>

(* A call fails, or ACK refuses to delete a cluster that is being created,   *)
(* deleted or is gone; or it agrees and the answer is lost.  The error goes  *)
(* back to the queue.                                                        *)
RemoveFails ==
    /\ \/ pc \in {"remove", "deleteCluster"} /\ Fault /\ UNCHANGED cloudVars
       \/ pc = "deleteCluster" /\ Fault /\ AcceptDeletion(work.id)
       \/ /\ pc = "deleteCluster" /\ cloud[work.id] \in {"creating", "deleting", "gone"}
          /\ UNCHANGED <<cloudVars, faults>>
    /\ Finish(TRUE)
    /\ UNCHANGED <<storeVars, dropped, edits>>

(* Without its last finalizer the object goes. *)
RemoveFinalizer ==
    /\ pc = "removeFinalizer"
    /\ CanWrite /\ Store(Removed(obj))
    /\ Finish(FALSE)
    /\ UNCHANGED <<cache, cloudVars, dropped, faults, edits>>

RemoveFinalizerFails ==
    /\ pc = "removeFinalizer"
    /\ \/ ~CanWrite /\ UNCHANGED <<obj, cacheCurrent, faults>>
       \/ CanWrite /\ Fault /\ UNCHANGED <<obj, cacheCurrent>>
       \/ CanWrite /\ Fault /\ Store(Removed(obj))
    /\ Finish(TRUE)
    /\ UNCHANGED <<cache, cloudVars, dropped, edits>>

-----------------------------------------------------------------------------
(* The operator dies and starts again: its memory is lost, the informer      *)
(* lists the objects and enqueues every key.                                 *)
Crash ==
    /\ Fault
    /\ Idle
    /\ cache' = obj /\ cacheCurrent' = TRUE /\ queued' = obj.exists
    /\ UNCHANGED <<obj, cloudVars, edits>>
    /\ dropped' = dropped \cup (IF pc = "updateSpec" THEN Unrecorded ELSE {})

(* ACK works on its clusters; what fails there, or is done by another client *)
(* of the account, is a fault too.                                           *)
Progress(id, from, to) ==
    /\ cloud[id] = from
    /\ cloud' = [cloud EXCEPT ![id] = to]
    /\ UNCHANGED <<storeVars, queued, workerVars, deletions, secret, dropped, edits>>

ClusterRuns(id)     == Progress(id, "creating", "running") /\ UNCHANGED faults
ClusterFails(id)    == Progress(id, "creating", "failed") /\ Fault
ClusterGone(id)     == Progress(id, "deleting", "gone") /\ UNCHANGED faults
DeletionFails(id)   == Progress(id, "deleting", "failed") /\ Fault
DeletedByOthers(id) == Progress(id, "running", "gone") /\ Fault

-----------------------------------------------------------------------------
Change ==
    \/ StartChange
    \/ CreateCluster \/ CreateClusterFails \/ UpdateSpec \/ UpdateSpecFails
    \/ ClusterIsRunning \/ ClusterIsNotRunning \/ DescribeFails
    \/ CreateCASecret \/ CreateCASecretFails
    \/ UpdatePhase \/ UpdatePhaseFails
    \/ CheckOnly \/ UpdateStatus \/ UpdateStatusFails \/ UpdateStatusWithRetry
    \/ NothingToRecord \/ RecordError \/ RecordErrorFails
    \/ HasFinalizer \/ AddFinalizer \/ AddFinalizerFails

Remove ==
    \/ StartRemove \/ StartRemoveFails
    \/ DescribeRemoved \/ DeleteCluster \/ RemoveFails
    \/ RemoveFinalizer \/ RemoveFinalizerFails

Worker == NothingToDo \/ Change \/ Remove

ACK == \E id \in Clusters : ClusterRuns(id) \/ ClusterGone(id)

Environment ==
    \/ Sync \/ UserEdit \/ UserDelete \/ Crash \/ ACK
    \/ \E id \in Clusters : ClusterFails(id) \/ DeletionFails(id) \/ DeletedByOthers(id)

Next == Worker \/ Environment

Spec == Init /\ [][Next]_vars

(* A queued key is worked on and a reconcile goes on to its end, the watch   *)
(* delivers, and ACK finishes what it started; nobody has to fail, edit or   *)
(* delete.                                                                   *)
FairSpec ==
    Spec /\ WF_vars(Worker) /\ WF_vars(Sync) /\ WF_vars(ACK)

-----------------------------------------------------------------------------
(* Properties *)

ClusterState == IF obj.id = NoID THEN "absent" ELSE cloud[obj.id]

(* OnAliConfigRemoved asks ACK to delete no cluster but the one the object   *)
(* names, and only when the object is being deleted and was not imported.    *)
DeletesOnlyItsOwn ==
    deletions # {} => obj.deleting /\ ~obj.imported /\ deletions = {obj.id}

(* The handler that leaves a creating or importing phase has stored the CA   *)
(* secret the rest of the system needs to reach the cluster.                 *)
SecretBeforeActive == obj.phase \in Settled => secret

(* Every cluster ACK made is the one the object records, or is about to be   *)
(* recorded by the running reconcile, or the call that would have told or    *)
(* recorded its id failed (a write refused with a conflict, too): no reply   *)
(* that did arrive is forgotten, on whatever stale copy create works.        *)
NoSilentLeak ==
    \A id \in Clusters : cloud[id] # "absent" =>
        \/ id = obj.id
        \/ pc = "updateSpec" /\ id = work.id
        \/ id \in dropped

(* The object lives as ConfigPromise says, however old the copies are that   *)
(* reconciles work on and wherever they stop: the recorded id is never       *)
(* changed, the phase never goes back, and the finalizer lets an object go   *)
(* only after ACK took on the deletion of its cluster.                       *)
Promise ==
    INSTANCE ConfigPromise WITH
        imported <- obj.imported, id <- obj.id, phase <- obj.phase,
        guarded <- obj.finalizer, deleting <- obj.deleting, released <- ~obj.exists,
        requested <- obj.id \in deletions,
        gone <- ClusterState = "gone"

KeepsPromise == Promise!Spec

(* An object that is being deleted is let go in the end: no error, conflict  *)
(* or stale copy makes the work queue lose it.                               *)
DeletionCompletes == obj.deleting ~> ~obj.exists

(* When the cluster a configuration waits for is running, the configuration  *)
(* becomes active, unless it is deleted or the cluster goes.                 *)
CreationCompletes ==
    obj.phase \in {Creating, Importing} /\ ClusterState = "running"
        ~> \/ obj.phase \in Settled
           \/ obj.deleting \/ ~obj.exists
           \/ ClusterState # "running"

=============================================================================
