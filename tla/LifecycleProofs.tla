--------------------------- MODULE LifecycleProofs ---------------------------
(***************************************************************************)
(* Theorems about ClusterLifecycle, for every set of cluster ids, every    *)
(* bound on faults and edits, and both ways a cache can hand out objects.  *)
(***************************************************************************)
EXTENDS LifecycleInvariant, TLAPS

-----------------------------------------------------------------------------
(* Objects and the writes of their fields. *)

LEMMA ConfigFields ==
  ASSUME NEW c \in Config
  PROVE  /\ c.exists \in BOOLEAN /\ c.deleting \in BOOLEAN
         /\ c.finalizer \in BOOLEAN /\ c.imported \in BOOLEAN
         /\ c.id \in Clusters \cup {NoID}
         /\ c.phase \in Phases /\ c.failure \in Failures
  BY DEF Config

LEMMA NoConfigFields ==
  /\ NoConfig \in Config
  /\ NoConfig.phase = NotCreated /\ NoConfig.id = NoID
  /\ NoConfig.imported = FALSE /\ NoConfig.finalizer = FALSE
  BY DEF NoConfig, Config, Phases, Failures, NoError, NotCreated

LEMMA WithIDFields ==
  ASSUME NEW c \in Config, NEW id \in Clusters \cup {NoID}
  PROVE  LET d == WithID(c, id) IN
         /\ d \in Config
         /\ d.id = id /\ d.phase = c.phase /\ d.failure = c.failure
         /\ d.exists = c.exists /\ d.deleting = c.deleting
         /\ d.finalizer = c.finalizer /\ d.imported = c.imported
  BY DEF Config, WithID

LEMMA WithStatusFields ==
  ASSUME NEW c \in Config, NEW p \in Phases, NEW f \in Failures
  PROVE  LET d == WithStatus(c, p, f) IN
         /\ d \in Config
         /\ d.id = c.id /\ d.phase = p /\ d.failure = f
         /\ d.exists = c.exists /\ d.deleting = c.deleting
         /\ d.finalizer = c.finalizer /\ d.imported = c.imported
  BY DEF Config, WithStatus

LEMMA WithFinalizerFields ==
  ASSUME NEW c \in Config
  PROVE  LET d == WithFinalizer(c) IN
         /\ d \in Config
         /\ d.id = c.id /\ d.phase = c.phase /\ d.failure = c.failure
         /\ d.exists = c.exists /\ d.deleting = c.deleting
         /\ d.finalizer = TRUE /\ d.imported = c.imported
  BY DEF Config, WithFinalizer

LEMMA DeletingFields ==
  ASSUME NEW c \in Config
  PROVE  LET d == Deleting(c) IN
         /\ d \in Config
         /\ d.id = c.id /\ d.phase = c.phase /\ d.failure = c.failure
         /\ d.exists = c.exists /\ d.deleting = TRUE
         /\ d.finalizer = c.finalizer /\ d.imported = c.imported
  BY DEF Config, Deleting

LEMMA RemovedFields ==
  ASSUME NEW c \in Config
  PROVE  LET d == Removed(c) IN
         /\ d \in Config
         /\ d.id = c.id /\ d.phase = c.phase /\ d.failure = c.failure
         /\ d.exists = FALSE /\ d.deleting = c.deleting
         /\ d.finalizer = c.finalizer /\ d.imported = c.imported
  BY DEF Config, Removed

-----------------------------------------------------------------------------
(* Type correctness. *)

(* Every object a worker writes is one. *)
LEMMA WriteTypes ==
  ASSUME TypeOK
  PROVE  /\ SpecOf(work) \in Config /\ Guarded \in Config
         /\ Advanced \in Config
         /\ StatusOf(work) \in Config
         /\ Removed(obj) \in Config /\ Deleting(obj) \in Config
         /\ err # "conflict" => Recorded \in Config
         /\ \A p \in Settled, f \in {work.failure, "state"} : WithStatus(obj, p, f) \in Config
<1>1. /\ work.id \in Clusters \cup {NoID} /\ work.phase \in Phases
      /\ work.failure \in Failures /\ obj \in Config
  BY ConfigFields DEF TypeOK
<1>2. SpecOf(work) \in Config
  BY <1>1, WithIDFields DEF SpecOf
<1>3. Guarded \in Config
  BY <1>2, WithFinalizerFields DEF Guarded
<1>4. NextPhase(work) \in Phases
  BY DEF NextPhase, Phases
<1>5. Advanced \in Config
  BY <1>1, <1>4, WithStatusFields DEF Advanced
<1>6. StatusOf(work) \in Config
  BY <1>1, WithStatusFields DEF StatusOf
<1>7. ASSUME err # "conflict" PROVE Recorded \in Config
  <2>1. err \in Failures
    BY <1>7 DEF TypeOK, Errors
  <2>2. (IF err # NoError /\ work.phase = Active THEN Updating ELSE work.phase) \in Phases
    BY <1>1 DEF Phases
  <2>. QED  BY <1>1, <2>1, <2>2, WithStatusFields DEF Recorded
<1>8. ASSUME NEW p \in Settled, NEW f \in {work.failure, "state"}
      PROVE  WithStatus(obj, p, f) \in Config
  <2>1. p \in Phases /\ f \in Failures
    BY <1>1 DEF Settled, Phases, Failures
  <2>. QED  BY <1>1, <2>1, WithStatusFields
<1>9. Removed(obj) \in Config /\ Deleting(obj) \in Config
  BY <1>1, RemovedFields, DeletingFields
<1>. QED  BY <1>2, <1>3, <1>5, <1>6, <1>7, <1>8, <1>9

LEMMA FaultsType ==
  ASSUME TypeOK, Fault \/ UNCHANGED faults
  PROVE  faults' \in 0..MaxFaults
  BY BoundsAssumption DEF TypeOK, Fault

LEMMA ErrorTypes ==
  /\ {NoError, "cloud", "kube", "state"} \subseteq Failures
  /\ {NoError, "cloud", "kube", "state", "conflict"} \subseteq Errors
  BY DEF Failures, Errors

LEMMA StoreType ==
  ASSUME TypeOK, NEW new \in Config, Store(new)
  PROVE  obj' \in Config /\ cacheCurrent' \in BOOLEAN
  BY DEF TypeOK, Store

LEMMA WriteFailsType ==
  ASSUME TypeOK, NEW new \in Config, NEW kept \in BOOLEAN, WriteFails(new, kept)
  PROVE  /\ obj' \in Config /\ cacheCurrent' \in BOOLEAN
         /\ work' \in Config /\ workCurrent' \in BOOLEAN /\ startCurrent' \in BOOLEAN
         /\ err' \in Errors
         /\ faults' \in 0..MaxFaults
<1>1. Fault \/ UNCHANGED faults
  BY DEF WriteFails
<1>2. err' \in Errors
  BY ErrorTypes DEF WriteFails
<1>3. obj' \in Config /\ cacheCurrent' \in BOOLEAN
  <2>1. CASE Store(new)
    BY <2>1, StoreType
  <2>2. CASE UNCHANGED <<obj, cacheCurrent>>
    BY <2>2 DEF TypeOK
  <2>. QED  BY <2>1, <2>2 DEF WriteFails
<1>4. work' \in Config
  BY DEF WriteFails, TypeOK
<1>5. workCurrent' \in BOOLEAN
  <2>1. workCurrent' = kept \/ workCurrent' = (kept /\ new = obj)
    BY DEF WriteFails
  <2>. QED  BY <2>1
<1>6. startCurrent' \in BOOLEAN
  <2>1. startCurrent' = startCurrent \/ startCurrent' = (startCurrent /\ new = obj)
    BY DEF WriteFails
  <2>. QED  BY <2>1 DEF TypeOK
<1>. QED  BY <1>1, <1>2, <1>3, <1>4, <1>5, <1>6, FaultsType

(* A step of OnAliConfigChanged keeps the types. *)
LEMMA ChangeType ==
  ASSUME TypeOK, Change
  PROVE  TypeOK'
<1>. USE DEF storeVars, workerVars, cloudVars
<1>1. CASE StartChange
  <2>1. faults' \in 0..MaxFaults
    BY <1>1, FaultsType DEF StartChange
  <2>2. aliased' \in BOOLEAN
    BY <1>1 DEF StartChange
  <2>3. pc' \in Labels /\ err' \in Errors
    BY <1>1, ErrorTypes DEF StartChange, FirstCall, Labels
  <2>. QED  BY <1>1, <2>1, <2>2, <2>3 DEF TypeOK, StartChange, TakeCached
<1>2. CASE CreateCluster
  <2>. PICK id \in Clusters :
         /\ cloud' = [cloud EXCEPT ![id] = "creating"]
         /\ work' = WithID(work, id)
         /\ cache' = IF aliased THEN WithID(cache, id) ELSE cache
    BY <1>2 DEF CreateCluster
  <2>1. work' \in Config /\ cache' \in Config
    BY WithIDFields DEF TypeOK
  <2>2. cloud' \in [Clusters -> CloudStates]
    BY DEF TypeOK, CloudStates
  <2>. QED  BY <1>2, <2>1, <2>2 DEF TypeOK, CreateCluster, Labels
<1>3. CASE CreateClusterFails
  <2>1. faults' \in 0..MaxFaults
    BY <1>3, FaultsType DEF CreateClusterFails
  <2>2. cloud' \in [Clusters -> CloudStates] /\ dropped' \subseteq Clusters
    BY <1>3 DEF TypeOK, CreateClusterFails, CloudStates
  <2>. QED  BY <1>3, <2>1, <2>2, ErrorTypes DEF TypeOK, CreateClusterFails, Return, Labels
<1>4. CASE UpdateSpec
  <2>1. obj' \in Config /\ cacheCurrent' \in BOOLEAN /\ work' = obj'
    BY <1>4, WriteTypes, StoreType DEF UpdateSpec, WriteSucceeds, Store
  <2>2. startCurrent' \in BOOLEAN
    BY <1>4 DEF TypeOK, UpdateSpec, WriteSucceeds
  <2>. QED  BY <1>4, <2>1, <2>2 DEF TypeOK, UpdateSpec, WriteSucceeds, Labels
<1>5. CASE UpdateSpecFails
  <2>1. WriteFails(SpecOf(work), workCurrent) /\ workCurrent \in BOOLEAN
    BY <1>5 DEF UpdateSpecFails, TypeOK
  <2>2. Unrecorded \subseteq Clusters
    BY ConfigFields DEF TypeOK, Unrecorded
  <2>. QED  BY <1>5, <2>1, <2>2, WriteTypes, WriteFailsType DEF TypeOK, UpdateSpecFails, Labels
<1>6. CASE ClusterIsRunning
  BY <1>6, ErrorTypes DEF TypeOK, ClusterIsRunning, GoTo, Labels
<1>7. CASE ClusterIsNotRunning
  BY <1>7, ErrorTypes DEF TypeOK, ClusterIsNotRunning, Return, Labels
<1>8. CASE DescribeFails
  <2>1. faults' \in 0..MaxFaults
    BY <1>8, FaultsType DEF DescribeFails
  <2>. QED  BY <1>8, <2>1, ErrorTypes DEF TypeOK, DescribeFails, Return, Labels
<1>9. CASE CreateCASecret
  BY <1>9, ErrorTypes DEF TypeOK, CreateCASecret, GoTo, Labels
<1>10. CASE CreateCASecretFails
  <2>1. faults' \in 0..MaxFaults
    BY <1>10, FaultsType DEF CreateCASecretFails
  <2>. QED  BY <1>10, <2>1, ErrorTypes DEF TypeOK, CreateCASecretFails, Return, Labels
<1>11. CASE UpdatePhase
  <2>1. obj' \in Config /\ cacheCurrent' \in BOOLEAN /\ work' = obj'
    BY <1>11, WriteTypes, StoreType DEF UpdatePhase, WriteSucceeds, Store
  <2>2. startCurrent' \in BOOLEAN
    BY <1>11 DEF TypeOK, UpdatePhase, WriteSucceeds
  <2>. QED  BY <1>11, <2>1, <2>2 DEF TypeOK, UpdatePhase, WriteSucceeds, Labels
<1>12. CASE UpdatePhaseFails
  <2>1. WriteFails(Advanced, startCurrent) /\ startCurrent \in BOOLEAN
    BY <1>12 DEF UpdatePhaseFails, TypeOK
  <2>. QED  BY <1>12, <2>1, WriteTypes, WriteFailsType DEF TypeOK, UpdatePhaseFails, Labels
<1>13. CASE CheckOnly
  <2>1. faults' \in 0..MaxFaults
    BY <1>13, FaultsType DEF CheckOnly
  <2>. QED  BY <1>13, <2>1, ErrorTypes DEF TypeOK, CheckOnly, Return, Labels
<1>14. CASE UpdateStatus
  <2>1. obj' \in Config /\ work' = obj' /\ workCurrent' \in BOOLEAN /\ queued' \in BOOLEAN
    BY <1>14, WriteTypes DEF TypeOK, UpdateStatus, CheckedStatus
  <2>. QED  BY <1>14, <2>1 DEF TypeOK, UpdateStatus, Labels
<1>15. CASE UpdateStatusFails
  <2>1. faults' \in 0..MaxFaults
    BY <1>15, FaultsType DEF UpdateStatusFails
  <2>2. obj' \in Config
    BY <1>15, WriteTypes DEF TypeOK, UpdateStatusFails, CheckedStatus, RetriedStatus
  <2>3. cacheCurrent' \in BOOLEAN /\ workCurrent' \in BOOLEAN /\ startCurrent' \in BOOLEAN
    BY <1>15 DEF TypeOK, UpdateStatusFails
  <2>. QED  BY <1>15, <2>1, <2>2, <2>3, ErrorTypes DEF TypeOK, UpdateStatusFails, Labels
<1>16. CASE UpdateStatusWithRetry
  BY <1>16, WriteTypes DEF TypeOK, UpdateStatusWithRetry, RetriedStatus, Labels
<1>17. CASE NothingToRecord
  BY <1>17, ErrorTypes DEF TypeOK, NothingToRecord, GoTo, Labels
<1>18. CASE RecordError
  <2>1. obj' \in Config /\ cacheCurrent' \in BOOLEAN /\ work' = obj'
    BY <1>18, WriteTypes, StoreType DEF RecordError, WriteSucceeds, Store
  <2>2. startCurrent' \in BOOLEAN
    BY <1>18 DEF TypeOK, RecordError, WriteSucceeds
  <2>. QED  BY <1>18, <2>1, <2>2 DEF TypeOK, RecordError, WriteSucceeds, Labels
<1>19. CASE RecordErrorFails
  <2>1. faults' \in 0..MaxFaults
    BY <1>19, FaultsType DEF RecordErrorFails
  <2>2. Recorded \in Config
    BY <1>19, WriteTypes DEF RecordErrorFails
  <2>3. obj' \in Config /\ cacheCurrent' \in BOOLEAN
    BY <1>19, <2>2, StoreType DEF TypeOK, RecordErrorFails
  <2>4. workCurrent' \in BOOLEAN /\ startCurrent' \in BOOLEAN
    BY <1>19 DEF TypeOK, RecordErrorFails
  <2>. QED  BY <1>19, <2>1, <2>3, <2>4 DEF TypeOK, RecordErrorFails, Labels
<1>20. CASE HasFinalizer
  BY <1>20, NoConfigFields, ErrorTypes DEF TypeOK, HasFinalizer, Finish, Idle, Labels
<1>21. CASE AddFinalizer
  <2>1. obj' \in Config /\ cacheCurrent' \in BOOLEAN
    BY <1>21, WriteTypes, StoreType DEF AddFinalizer
  <2>. QED  BY <1>21, <2>1, NoConfigFields, ErrorTypes DEF TypeOK, AddFinalizer, Finish, Idle, Labels
<1>22. CASE AddFinalizerFails
  <2>1. faults' \in 0..MaxFaults
    BY <1>22, FaultsType DEF AddFinalizerFails
  <2>2. obj' \in Config /\ cacheCurrent' \in BOOLEAN
    BY <1>22, WriteTypes, StoreType DEF TypeOK, AddFinalizerFails
  <2>. QED  BY <1>22, <2>1, <2>2, NoConfigFields, ErrorTypes
            DEF TypeOK, AddFinalizerFails, Finish, Idle, Labels
<1>. QED  BY <1>1, <1>2, <1>3, <1>4, <1>5, <1>6, <1>7, <1>8, <1>9, <1>10, <1>11,
          <1>12, <1>13, <1>14, <1>15, <1>16, <1>17, <1>18, <1>19, <1>20, <1>21, <1>22
          DEF Change

(* So does a step of OnAliConfigRemoved. *)
LEMMA RemoveType ==
  ASSUME TypeOK, Remove
  PROVE  TypeOK'
<1>. USE DEF storeVars, workerVars, cloudVars
<1>1. CASE StartRemove
  BY <1>1, ErrorTypes DEF TypeOK, StartRemove, TakeCached, Labels
<1>2. CASE StartRemoveFails
  <2>1. faults' \in 0..MaxFaults
    BY <1>2, FaultsType DEF StartRemoveFails
  <2>. QED  BY <1>2, <2>1, NoConfigFields, ErrorTypes
            DEF TypeOK, StartRemoveFails, Finish, Idle, Labels
<1>3. CASE DescribeRemoved
  BY <1>3 DEF TypeOK, DescribeRemoved, GoTo, Labels
<1>4. CASE DeleteCluster
  <2>1. cloud' \in [Clusters -> CloudStates] /\ deletions' \subseteq Clusters
    BY <1>4 DEF TypeOK, DeleteCluster, AcceptDeletion, CloudStates
  <2>. QED  BY <1>4, <2>1 DEF TypeOK, DeleteCluster, AcceptDeletion, GoTo, Labels
<1>5. CASE RemoveFails
  <2>1. faults' \in 0..MaxFaults
    BY <1>5, FaultsType DEF RemoveFails
  <2>2. /\ cloud' \in [Clusters -> CloudStates] /\ deletions' \subseteq Clusters
        /\ secret' \in BOOLEAN
    BY <1>5 DEF TypeOK, RemoveFails, AcceptDeletion, CloudStates
  <2>. QED  BY <1>5, <2>1, <2>2, NoConfigFields, ErrorTypes
            DEF TypeOK, RemoveFails, Finish, Idle, Labels
<1>6. CASE RemoveFinalizer
  <2>1. obj' \in Config /\ cacheCurrent' \in BOOLEAN
    BY <1>6, WriteTypes, StoreType DEF RemoveFinalizer
  <2>. QED  BY <1>6, <2>1, NoConfigFields, ErrorTypes
            DEF TypeOK, RemoveFinalizer, Finish, Idle, Labels
<1>7. CASE RemoveFinalizerFails
  <2>1. faults' \in 0..MaxFaults
    BY <1>7, FaultsType DEF RemoveFinalizerFails
  <2>2. obj' \in Config /\ cacheCurrent' \in BOOLEAN
    BY <1>7, WriteTypes, StoreType DEF TypeOK, RemoveFinalizerFails
  <2>. QED  BY <1>7, <2>1, <2>2, NoConfigFields, ErrorTypes
            DEF TypeOK, RemoveFinalizerFails, Finish, Idle, Labels
<1>. QED  BY <1>1, <1>2, <1>3, <1>4, <1>5, <1>6, <1>7
          DEF Remove

(* And a step of the API server, the informer, the user, ACK or a crash. *)
LEMMA EnvironmentType ==
  ASSUME TypeOK, Environment
  PROVE  TypeOK'
<1>. USE DEF storeVars, workerVars, cloudVars
<1>1. CASE Sync
  BY <1>1 DEF TypeOK, Sync
<1>2. CASE UserEdit
  <2>1. edits' \in 0..MaxEdits
    BY <1>2, BoundsAssumption DEF TypeOK, UserEdit
  <2>. QED  BY <1>2, <2>1 DEF TypeOK, UserEdit, OthersWrite
<1>3. CASE UserDelete
  <2>1. obj' \in Config
    BY <1>3, WriteTypes DEF UserDelete, OthersWrite
  <2>. QED  BY <1>3, <2>1 DEF TypeOK, UserDelete, OthersWrite
<1>4. CASE Crash
  <2>1. faults' \in 0..MaxFaults
    BY <1>4, FaultsType DEF Crash
  <2>2. dropped' \subseteq Clusters
    BY <1>4, ConfigFields DEF TypeOK, Crash, Unrecorded
  <2>3. queued' \in BOOLEAN
    BY <1>4, ConfigFields DEF TypeOK, Crash
  <2>. QED  BY <1>4, <2>1, <2>2, <2>3, NoConfigFields, ErrorTypes DEF TypeOK, Crash, Idle, Labels
<1>5. CASE ACK
  <2>. PICK id \in Clusters : ClusterRuns(id) \/ ClusterGone(id)
    BY <1>5 DEF ACK
  <2>1. cloud' \in [Clusters -> CloudStates]
    BY DEF TypeOK, ClusterRuns, ClusterGone, Progress, CloudStates
  <2>2. faults' \in 0..MaxFaults
    BY FaultsType DEF ClusterRuns, ClusterGone
  <2>. QED  BY <2>1, <2>2 DEF TypeOK, ClusterRuns, ClusterGone, Progress
<1>6. CASE \E id \in Clusters : ClusterFails(id) \/ DeletionFails(id) \/ DeletedByOthers(id)
  <2>. PICK id \in Clusters : ClusterFails(id) \/ DeletionFails(id) \/ DeletedByOthers(id)
    BY <1>6
  <2>1. cloud' \in [Clusters -> CloudStates]
    BY DEF TypeOK, ClusterFails, DeletionFails, DeletedByOthers, Progress, CloudStates
  <2>2. faults' \in 0..MaxFaults
    BY FaultsType DEF ClusterFails, DeletionFails, DeletedByOthers
  <2>. QED  BY <2>1, <2>2 DEF TypeOK, ClusterFails, DeletionFails, DeletedByOthers, Progress
<1>. QED  BY <1>1, <1>2, <1>3, <1>4, <1>5, <1>6
          DEF Environment

LEMMA TypeStep ==
  ASSUME TypeOK, [Next]_vars
  PROVE  TypeOK'
<1>1. CASE NothingToDo
  BY <1>1 DEF TypeOK, NothingToDo, storeVars, workerVars, cloudVars
<1>2. CASE UNCHANGED vars
  BY <1>2 DEF TypeOK, vars, storeVars, workerVars, cloudVars
<1>. QED  BY <1>1, <1>2, ChangeType, RemoveType, EnvironmentType DEF Next, Worker

LEMMA TypeInit == Init => TypeOK
<1>. SUFFICES ASSUME Init PROVE TypeOK
  OBVIOUS
<1>1. PICK imported \in BOOLEAN, id \in Clusters \cup {NoID} :
        /\ obj = [NoConfig EXCEPT !.exists = TRUE, !.imported = imported, !.id = id]
        /\ \E state \in {"creating", "running"} :
             cloud = [c \in Clusters |-> IF c = id THEN state ELSE "absent"]
  BY DEF Init
<1>2. [NoConfig EXCEPT !.exists = TRUE, !.imported = imported, !.id = id] \in Config
  BY NoConfigFields DEF Config
<1>3. obj \in Config
  BY <1>1, <1>2
<1>4. cloud \in [Clusters -> CloudStates]
  BY <1>1 DEF CloudStates
<1>5. /\ cache = obj /\ cacheCurrent = TRUE /\ queued = TRUE
      /\ pc = "idle" /\ work = NoConfig /\ err = NoError
      /\ workCurrent = FALSE /\ startCurrent = FALSE /\ aliased = FALSE
      /\ secret = FALSE /\ deletions = {} /\ dropped = {}
      /\ faults = 0 /\ edits = 0
  BY DEF Init
<1>6. cache \in Config /\ work \in Config
  BY <1>3, <1>5, NoConfigFields
<1>7. pc \in Labels /\ err \in Errors
  BY <1>5, ErrorTypes DEF Labels
<1>8. faults \in 0..MaxFaults /\ edits \in 0..MaxEdits
  BY <1>5, BoundsAssumption
<1>9. /\ cacheCurrent \in BOOLEAN /\ workCurrent \in BOOLEAN /\ startCurrent \in BOOLEAN
      /\ aliased \in BOOLEAN /\ queued \in BOOLEAN /\ secret \in BOOLEAN
      /\ deletions \subseteq Clusters /\ dropped \subseteq Clusters
  BY <1>5
<1>. QED  BY <1>3, <1>4, <1>6, <1>7, <1>8, <1>9 DEF TypeOK

(* The variables of ClusterLifecycle always have their types: no write of a  *)
(* handler, of another client or of a crash leaves them.                     *)
THEOREM TypeCorrect == Spec => []TypeOK
<1>. QED  BY TypeInit, TypeStep, PTL DEF Spec

=============================================================================
