------------------------- MODULE LifecycleRefinement -------------------------
(***************************************************************************)
(* ClusterLifecycle implements ConfigPromise.                              *)
(***************************************************************************)
EXTENDS LifecycleSafetyProofs

PromiseStep == Promise!Next \/ UNCHANGED Promise!vars

(* ConfigPromise has constants of its own for the phases. *)
LEMMA SamePhases ==
  /\ Promise!NotCreated = NotCreated
  /\ Promise!Creating = Creating /\ Promise!Importing = Importing
  /\ Promise!Active = Active /\ Promise!Updating = Updating
  BY DEF Promise!NotCreated, NotCreated, Promise!Creating, Creating,
         Promise!Importing, Importing, Promise!Active, Active, Promise!Updating, Updating

Requested == obj.id \in deletions
Gone == ClusterState = "gone"

LEMMA GoneKept ==
  ASSUME obj'.id = obj.id, TypeOK, TypeOK',
         \A id \in Clusters : cloud[id] = "gone" <=> cloud'[id] = "gone"
  PROVE  Gone' = Gone
<1>1. obj.id \in Clusters \cup {NoID}
  BY ConfigFields DEF TypeOK
<1>. QED  BY <1>1 DEF Gone, ClusterState

LEMMA Stutters ==
  ASSUME TypeOK, TypeOK', UNCHANGED <<obj, deletions>>,
         \A id \in Clusters : cloud[id] = "gone" <=> cloud'[id] = "gone"
  PROVE  PromiseStep
<1>1. Gone' = Gone
  BY GoneKept
<1>. QED  BY <1>1 DEF PromiseStep, Promise!vars, Gone

(* What a write of the status leaves in the object. *)
LEMMA WrittenStatusFields ==
  ASSUME obj \in Config, NEW p \in Phases, NEW f \in Failures, obj' = WithStatus(obj, p, f)
  PROVE  /\ obj'.id = obj.id /\ obj'.phase = p /\ obj'.exists = obj.exists
         /\ obj'.deleting = obj.deleting /\ obj'.finalizer = obj.finalizer
         /\ obj'.imported = obj.imported
<1>. DEFINE d == WithStatus(obj, p, f)
<1>1. /\ d.id = obj.id /\ d.phase = p /\ d.exists = obj.exists
      /\ d.deleting = obj.deleting /\ d.finalizer = obj.finalizer
      /\ d.imported = obj.imported
  BY WithStatusFields
<1>2. obj' = d
  OBVIOUS
<1>. HIDE DEF d
<1>. QED  BY <1>1, <1>2

(* A write of the status takes the abstract phase along an allowed edge. *)
LEMMA StatusWriteStep ==
  ASSUME IInv, TypeOK', NEW p \in Phases, NEW f \in Failures,
         obj.exists, obj' = WithStatus(obj, p, f), UNCHANGED <<cloud, deletions>>,
         \/ p = obj.phase
         \/ obj.phase = NotCreated /\ obj.id # NoID
            /\ p = IF obj.imported THEN Importing ELSE Creating
         \/ obj.phase \in {Creating, Importing} /\ p = Active
         \/ obj.phase \in Settled /\ p \in Settled
  PROVE  PromiseStep
<1>0. obj \in Config
  BY DEF IInv, TypeOK
<1>1. /\ obj'.id = obj.id /\ obj'.phase = p /\ obj'.exists = obj.exists
      /\ obj'.deleting = obj.deleting /\ obj'.finalizer = obj.finalizer
      /\ obj'.imported = obj.imported
  BY <1>0, WrittenStatusFields
<1>2. Gone' = Gone
  BY <1>1, GoneKept DEF IInv
<1>3. CASE p = obj.phase
  BY <1>1, <1>2, <1>3 DEF PromiseStep, Promise!vars, Gone
<1>4. CASE /\ obj.phase = NotCreated /\ obj.id # NoID
           /\ p = IF obj.imported THEN Importing ELSE Creating
  <2>1. Promise!Begin
    BY <1>1, <1>2, <1>4, SamePhases DEF Promise!Begin, Promise!SetPhase, Gone
  <2>. QED  BY <2>1 DEF PromiseStep, Promise!Next
<1>5. CASE obj.phase \in {Creating, Importing} /\ p = Active
  <2>1. obj.phase = IF obj.imported THEN Importing ELSE Creating
    BY <1>5 DEF IInv, ObjectOK
  <2>2. Promise!Settle
    BY <1>1, <1>2, <1>5, <2>1, SamePhases DEF Promise!Settle, Promise!SetPhase, Gone
  <2>. QED  BY <2>2 DEF PromiseStep, Promise!Next
<1>6. CASE obj.phase \in Settled /\ p \in Settled /\ p # obj.phase
  <2>1. CASE obj.phase = Active /\ p = Updating
    <3>1. Promise!StartUpdate
      BY <1>1, <1>2, <2>1, SamePhases DEF Promise!StartUpdate, Promise!SetPhase, Gone
    <3>. QED  BY <3>1 DEF PromiseStep, Promise!Next
  <2>2. CASE obj.phase = Updating /\ p = Active
    <3>1. Promise!FinishUpdate
      BY <1>1, <1>2, <2>2, SamePhases DEF Promise!FinishUpdate, Promise!SetPhase, Gone
    <3>. QED  BY <3>1 DEF PromiseStep, Promise!Next
  <2>. QED  BY <1>6, <2>1, <2>2 DEF Settled
<1>. QED  BY <1>3, <1>4, <1>5, <1>6

(* A write of the spec records the id, or sets the finalizer, or both. *)
LEMMA SpecWriteStep ==
  ASSUME IInv, TypeOK', CanWrite, UNCHANGED <<cloud, deletions>>,
         obj' = SpecOf(work) \/ obj' = Guarded
  PROVE  PromiseStep
<1>0. /\ obj \in Config /\ work \in Config /\ SameBut(work, obj) /\ obj.exists
      /\ work.id \in Clusters \cup {NoID} /\ obj.finalizer \in BOOLEAN
  BY ConfigFields DEF IInv, TypeOK, WorkOK, CanWrite
<1>2. /\ obj'.id = work.id /\ obj'.phase = obj.phase /\ obj'.exists = obj.exists
      /\ obj'.deleting = obj.deleting /\ obj'.imported = obj.imported
      /\ obj'.finalizer = obj.finalizer \/ obj'.finalizer = TRUE
  <2>. DEFINE s == WithID(obj, work.id)
  <2>1. /\ s \in Config /\ s.id = work.id /\ s.phase = obj.phase /\ s.exists = obj.exists
        /\ s.deleting = obj.deleting /\ s.imported = obj.imported
        /\ s.finalizer = obj.finalizer
    BY <1>0, WithIDFields
  <2>2. obj' = s \/ obj' = WithFinalizer(s)
    BY DEF SpecOf, Guarded
  <2>. HIDE DEF s
  <2>. QED  BY <2>1, <2>2, WithFinalizerFields
<1>3. CASE work.id = obj.id
  <2>1. Gone' = Gone
    BY <1>2, <1>3, GoneKept DEF IInv
  <2>2. CASE obj'.finalizer = obj.finalizer
    BY <1>2, <1>3, <2>1, <2>2 DEF PromiseStep, Promise!vars, Gone
  <2>3. CASE obj'.finalizer = TRUE
    <3>1. Promise!Guard
      BY <1>0, <1>2, <1>3, <2>1, <2>3 DEF Promise!Guard, Gone
    <3>. QED  BY <3>1 DEF PromiseStep, Promise!Next
  <2>. QED  BY <1>2, <2>2, <2>3
<1>4. CASE work.id # obj.id
  <2>1. obj.id = NoID /\ work.id \in Clusters
    BY <1>0, <1>4 DEF SameBut
  <2>2. ~obj.imported /\ obj.phase = NotCreated
    BY <2>1 DEF IInv, ObjectOK
  <2>3. deletions = {}
    BY <2>1, ClustersAssumption DEF IInv, DeletesOnlyItsOwn, TypeOK
  <2>4. obj'.finalizer \in {obj.finalizer, TRUE} /\ (ClusterState = "gone")' \in BOOLEAN
    BY <1>2
  <2>5. UNCHANGED (obj.id \in deletions)
    BY <1>0, <2>3
  <2>6. UNCHANGED <<obj.imported, obj.phase, obj.deleting, ~obj.exists>>
    BY <1>2
  <2>7. Promise!RecordID
    BY <1>0, <1>2, <2>1, <2>2, <2>4, <2>5, <2>6, SamePhases DEF Promise!RecordID
  <2>. QED  BY <2>7 DEF PromiseStep, Promise!Next
<1>. QED  BY <1>3, <1>4

(* The finalizer lets an object go when its cluster is dealt with. *)
LEMMA ReleaseStep ==
  ASSUME IInv, TypeOK', obj.exists, obj' = Removed(obj), UNCHANGED <<cloud, deletions>>,
         obj.finalizer => /\ obj.deleting
                          /\ \/ obj.imported \/ obj.phase = NotCreated
                             \/ obj.id \in deletions \/ Gone
  PROVE  PromiseStep
<1>1. /\ obj'.id = obj.id /\ obj'.phase = obj.phase /\ obj'.exists = FALSE
      /\ obj'.deleting = obj.deleting /\ obj'.imported = obj.imported
      /\ obj'.finalizer = obj.finalizer
  BY RemovedFields DEF IInv, TypeOK
<1>2. Gone' = Gone
  BY <1>1, GoneKept DEF IInv
<1>3. Promise!Release
  BY <1>1, <1>2, SamePhases DEF Promise!Release, Gone
<1>. QED  BY <1>3 DEF PromiseStep, Promise!Next

LEMMA DeletingStep ==
  ASSUME IInv, TypeOK', obj.exists, obj.finalizer, obj' = Deleting(obj),
         UNCHANGED <<cloud, deletions>>
  PROVE  PromiseStep
<1>1. /\ obj'.id = obj.id /\ obj'.phase = obj.phase /\ obj'.exists = obj.exists
      /\ obj'.deleting = TRUE /\ obj'.imported = obj.imported
      /\ obj'.finalizer = obj.finalizer
  BY DeletingFields DEF IInv, TypeOK
<1>2. Gone' = Gone
  BY <1>1, GoneKept DEF IInv
<1>3. Promise!AskDeletion
  BY <1>1, <1>2 DEF Promise!AskDeletion, Gone
<1>. QED  BY <1>3 DEF PromiseStep, Promise!Next

LEMMA AcceptStep ==
  ASSUME IInv, TypeOK', pc = "deleteCluster", AcceptDeletion(work.id), UNCHANGED obj
  PROVE  PromiseStep
<1>1. /\ work.id = obj.id /\ obj.id \in Clusters
      /\ obj.deleting /\ ~obj.imported /\ obj.phase # NotCreated
  <2>1. work \in Config /\ OlderThan(work, obj)
    BY DEF IInv, TypeOK, WorkOK
  <2>2. work.deleting /\ ~work.imported /\ work.phase # NotCreated
    BY DEF IInv, LabelOK
  <2>. QED  BY <2>1, <2>2, NamedCluster DEF OlderThan
<1>2. /\ cloud[obj.id] # "gone"
      /\ cloud' = [cloud EXCEPT ![obj.id] = "deleting"]
      /\ deletions' = deletions \cup {obj.id}
  BY <1>1 DEF AcceptDeletion
<1>3. \A id \in Clusters : cloud[id] = "gone" <=> cloud'[id] = "gone"
  BY <1>1, <1>2 DEF IInv, TypeOK
<1>4. Gone' = Gone
  BY <1>3, GoneKept DEF IInv
<1>5. Promise!RequestDeletion
  BY <1>1, <1>2, <1>4, SamePhases DEF Promise!RequestDeletion, Gone
<1>. QED  BY <1>5 DEF PromiseStep, Promise!Next

LEMMA ProgressStep ==
  ASSUME IInv, TypeOK', NEW id \in Clusters, NEW from \in CloudStates \ {"gone"},
         NEW to \in CloudStates, Progress(id, from, to)
  PROVE  PromiseStep
<1>1. /\ cloud[id] = from /\ cloud' = [cloud EXCEPT ![id] = to]
      /\ UNCHANGED <<obj, deletions>>
  BY DEF Progress, storeVars
<1>2. CASE to # "gone" \/ id # obj.id
  <2>1. Gone' = Gone
    BY <1>1, <1>2, ConfigFields DEF Gone, ClusterState, IInv, TypeOK
  <2>. QED  BY <1>1, <2>1 DEF PromiseStep, Promise!vars, Gone
<1>3. CASE to = "gone" /\ id = obj.id
  <2>1. Gone' = TRUE /\ obj.id # NoID
    BY <1>1, <1>3, ClustersAssumption DEF Gone, ClusterState, IInv, TypeOK
  <2>2. Promise!ClusterGoes
    BY <1>1, <2>1 DEF Promise!ClusterGoes, Gone
  <2>. QED  BY <2>2 DEF PromiseStep, Promise!Next
<1>. QED  BY <1>2, <1>3

-----------------------------------------------------------------------------
(* Each action takes the abstract system a step, or leaves it alone. *)

LEMMA QuietStep ==
  ASSUME TypeOK, TypeOK', UNCHANGED <<obj, cloud, deletions>>
  PROVE  PromiseStep
  BY Stutters

(* The answer to a write that was not made is the only thing that differs. *)
LEMMA FailedWriteKept ==
  ASSUME NEW new, NEW kept, WriteFails(new, kept)
  PROVE  UNCHANGED obj \/ (CanWrite /\ obj' = new)
  BY DEF WriteFails, Store

LEMMA PhaseStep ==
  ASSUME IInv, TypeOK', CanWrite, pc = "status", obj' = Advanced,
         UNCHANGED <<cloud, deletions>>
  PROVE  PromiseStep
<1>1. /\ obj \in Config /\ work \in Config /\ SameBut(work, obj) /\ obj.exists
  BY DEF IInv, TypeOK, WorkOK, CanWrite
<1>2. /\ work.phase = obj.phase /\ work.imported = obj.imported
      /\ work.failure \in Failures /\ obj.phase \in Phases
      /\ obj.id # NoID /\ obj.phase \notin Settled
  BY <1>1, ConfigFields DEF SameBut, IInv, LabelOK, CanWrite
<1>3. NextPhase(work) \in Phases
  BY DEF NextPhase, Phases
<1>4. \/ /\ obj.phase = NotCreated /\ obj.id # NoID
         /\ NextPhase(work) = IF obj.imported THEN Importing ELSE Creating
      \/ obj.phase \in {Creating, Importing} /\ NextPhase(work) = Active
  BY <1>2 DEF NextPhase, Phases, Settled
<1>. QED  BY <1>1, <1>2, <1>3, <1>4, StatusWriteStep DEF Advanced

LEMMA SettledStep ==
  ASSUME IInv, TypeOK', obj.exists, obj.phase \in Settled,
         NEW p \in Settled, NEW f \in Failures, obj' = WithStatus(obj, p, f),
         UNCHANGED <<cloud, deletions>>
  PROVE  PromiseStep
<1>1. p \in Phases
  BY DEF Settled, Phases
<1>. QED  BY <1>1, StatusWriteStep

LEMMA ErrorStep ==
  ASSUME IInv, TypeOK', CanWrite, err # "conflict", obj' = Recorded,
         UNCHANGED <<cloud, deletions>>
  PROVE  PromiseStep
<1>1. /\ obj \in Config /\ work \in Config /\ SameBut(work, obj) /\ obj.exists
  BY DEF IInv, TypeOK, WorkOK, CanWrite
<1>2. work.phase = obj.phase /\ obj.phase \in Phases /\ err \in Failures
  BY <1>1, ConfigFields DEF SameBut, IInv, TypeOK, Errors
<1>3. CASE err # NoError /\ work.phase = Active
  BY <1>1, <1>2, <1>3, SettledStep DEF Recorded, Settled
<1>4. CASE ~(err # NoError /\ work.phase = Active)
  BY <1>1, <1>2, <1>4, StatusWriteStep DEF Recorded
<1>. QED  BY <1>3, <1>4

LEMMA ChangeStep ==
  ASSUME IInv, TypeOK', Change
  PROVE  PromiseStep
<1>. USE DEF storeVars, cloudVars
<1>0. TypeOK
  BY DEF IInv
<1>1. CASE \/ StartChange \/ ClusterIsRunning \/ ClusterIsNotRunning \/ DescribeFails
           \/ CreateCASecret \/ CreateCASecretFails \/ CheckOnly
           \/ NothingToRecord \/ HasFinalizer
  BY <1>0, <1>1, QuietStep DEF StartChange, TakeCached, ClusterIsRunning, ClusterIsNotRunning,
     DescribeFails, CreateCASecret, CreateCASecretFails, CheckOnly, NothingToRecord,
     HasFinalizer
<1>2. CASE CreateCluster \/ CreateClusterFails
  <2>1. UNCHANGED <<obj, deletions>>
    BY <1>2 DEF CreateCluster, CreateClusterFails
  <2>2. \/ UNCHANGED cloud
        \/ \E id \in Clusters : /\ cloud[id] = "absent"
                               /\ cloud' = [cloud EXCEPT ![id] = "creating"]
    BY <1>2 DEF CreateCluster, CreateClusterFails
  <2>3. \A id \in Clusters : cloud[id] = "gone" <=> cloud'[id] = "gone"
    BY <1>0, <2>2 DEF TypeOK
  <2>. QED  BY <1>0, <2>1, <2>3, Stutters
<1>3. CASE UpdateSpec
  BY <1>3, SpecWriteStep DEF UpdateSpec, WriteSucceeds, Store
<1>4. CASE UpdateSpecFails
  <2>1. WriteFails(SpecOf(work), workCurrent) /\ UNCHANGED <<cloud, deletions>>
    BY <1>4 DEF UpdateSpecFails
  <2>. QED  BY <1>0, <2>1, FailedWriteKept, QuietStep, SpecWriteStep
<1>5. CASE UpdatePhase
  BY <1>5, PhaseStep DEF UpdatePhase, WriteSucceeds, Store
<1>6. CASE UpdatePhaseFails
  <2>1. /\ WriteFails(Advanced, startCurrent) /\ UNCHANGED <<cloud, deletions>>
        /\ pc = "status"
    BY <1>6 DEF UpdatePhaseFails
  <2>. QED  BY <1>0, <2>1, FailedWriteKept, QuietStep, PhaseStep
<1>7. CASE UpdateStatus \/ UpdateStatusFails \/ UpdateStatusWithRetry
  <2>1. /\ pc = "checkAndUpdate" /\ obj.phase \in Settled /\ UNCHANGED <<cloud, deletions>>
        /\ work.failure \in Failures /\ "state" \in Failures
    BY <1>0, <1>7, SettledObject, ConfigFields
       DEF UpdateStatus, UpdateStatusFails, UpdateStatusWithRetry, TypeOK, Failures
  <2>2. CASE obj.exists /\ CheckedStatus
    <3>. PICK p \in Settled, f \in {work.failure, "state"} : obj' = WithStatus(obj, p, f)
      BY <2>2 DEF CheckedStatus
    <3>. QED  BY <2>1, <2>2, SettledStep
  <2>3. CASE RetriedStatus
    <3>1. /\ obj.exists /\ work.phase \in Settled
          /\ obj' = WithStatus(obj, work.phase, work.failure)
      BY <2>3 DEF RetriedStatus, StatusOf, Settled
    <3>. QED  BY <2>1, <3>1, SettledStep
  <2>4. CASE UNCHANGED obj
    BY <1>0, <2>1, <2>4, QuietStep
  <2>. QED  BY <1>7, <2>2, <2>3, <2>4
            DEF UpdateStatus, UpdateStatusFails, UpdateStatusWithRetry, CanWrite
<1>8. CASE RecordError \/ RecordErrorFails
  <2>1. err # "conflict" /\ UNCHANGED <<cloud, deletions>>
    BY <1>8 DEF RecordError, RecordErrorFails
  <2>2. UNCHANGED obj \/ (CanWrite /\ obj' = Recorded)
    BY <1>8 DEF RecordError, RecordErrorFails, WriteSucceeds, Store
  <2>. QED  BY <1>0, <2>1, <2>2, QuietStep, ErrorStep
<1>9. CASE AddFinalizer \/ AddFinalizerFails
  <2>1. UNCHANGED <<cloud, deletions>>
    BY <1>9 DEF AddFinalizer, AddFinalizerFails
  <2>2. UNCHANGED obj \/ (CanWrite /\ obj' = Guarded)
    BY <1>9 DEF AddFinalizer, AddFinalizerFails, Store
  <2>. QED  BY <1>0, <2>1, <2>2, QuietStep, SpecWriteStep
<1>. QED  BY <1>1, <1>2, <1>3, <1>4, <1>5, <1>6, <1>7, <1>8, <1>9 DEF Change

LEMMA RemoveStep ==
  ASSUME IInv, TypeOK', Remove
  PROVE  PromiseStep
<1>. USE DEF storeVars, cloudVars
<1>0. TypeOK
  BY DEF IInv
<1>1. CASE StartRemove \/ StartRemoveFails \/ DescribeRemoved
  BY <1>0, <1>1, QuietStep DEF StartRemove, TakeCached, StartRemoveFails, DescribeRemoved
<1>2. CASE DeleteCluster
  BY <1>2, AcceptStep DEF DeleteCluster
<1>3. CASE RemoveFails
  <2>1. UNCHANGED obj
    BY <1>3 DEF RemoveFails
  <2>2. \/ UNCHANGED <<cloud, deletions>>
        \/ pc = "deleteCluster" /\ AcceptDeletion(work.id)
    BY <1>3 DEF RemoveFails
  <2>. QED  BY <1>0, <2>1, <2>2, QuietStep, AcceptStep
<1>4. CASE RemoveFinalizer \/ RemoveFinalizerFails
  <2>1. pc = "removeFinalizer" /\ UNCHANGED <<cloud, deletions>>
    BY <1>4 DEF RemoveFinalizer, RemoveFinalizerFails
  <2>2. CASE UNCHANGED obj
    BY <1>0, <2>1, <2>2, QuietStep
  <2>3. CASE CanWrite /\ obj' = Removed(obj)
    <3>1. SameBut(work, obj) /\ obj.exists
      BY <2>3 DEF CanWrite, IInv, WorkOK
    <3>2. work.phase # NotCreated => work.id = obj.id /\ obj.id # NoID
      BY <2>1, NamedHeld
    <3>3. /\ obj.deleting
          /\ \/ obj.imported \/ obj.phase = NotCreated
             \/ obj.id \in deletions \/ Gone
      BY <2>1, <3>1, <3>2 DEF IInv, LabelOK, SameBut, Gone, ClusterState
    <3>. QED  BY <2>1, <2>3, <3>1, <3>3, ReleaseStep
  <2>. QED  BY <1>4, <2>2, <2>3 DEF RemoveFinalizer, RemoveFinalizerFails, Store
<1>. QED  BY <1>1, <1>2, <1>3, <1>4 DEF Remove

LEMMA EnvironmentStep ==
  ASSUME IInv, TypeOK', Environment
  PROVE  PromiseStep
<1>. USE DEF storeVars, cloudVars
<1>0. TypeOK
  BY DEF IInv
<1>1. CASE Sync \/ UserEdit \/ Crash
  BY <1>0, <1>1, QuietStep DEF Sync, UserEdit, OthersWrite, Crash
<1>2. CASE UserDelete
  <2>1. UNCHANGED <<cloud, deletions>> /\ obj.exists
    BY <1>2 DEF UserDelete, OthersWrite
  <2>2. CASE obj.finalizer
    <3>1. obj' = Deleting(obj)
      BY <1>2, <2>2 DEF UserDelete, OthersWrite
    <3>. QED  BY <2>1, <2>2, <3>1, DeletingStep
  <2>3. CASE ~obj.finalizer
    <3>1. obj' = Removed(obj)
      BY <1>2, <2>3 DEF UserDelete, OthersWrite
    <3>. QED  BY <2>1, <2>3, <3>1, ReleaseStep
  <2>. QED  BY <2>2, <2>3
<1>3. CASE \/ ACK
           \/ \E id \in Clusters : ClusterFails(id) \/ DeletionFails(id) \/ DeletedByOthers(id)
  <2>1. PICK id \in Clusters : \/ Progress(id, "creating", "running")
                               \/ Progress(id, "creating", "failed")
                               \/ Progress(id, "deleting", "gone")
                               \/ Progress(id, "deleting", "failed")
                               \/ Progress(id, "running", "gone")
    BY <1>3 DEF ACK, ClusterRuns, ClusterGone, ClusterFails, DeletionFails, DeletedByOthers
  <2>. QED  BY <2>1, ProgressStep DEF CloudStates
<1>. QED  BY <1>1, <1>2, <1>3 DEF Environment

LEMMA RefinementStep ==
  ASSUME IInv, TypeOK', [Next]_vars
  PROVE  [Promise!Next]_Promise!vars
<1>0. TypeOK
  BY DEF IInv
<1>1. CASE NothingToDo \/ UNCHANGED vars
  BY <1>0, <1>1, QuietStep DEF NothingToDo, vars, storeVars, cloudVars, PromiseStep
<1>. QED  BY <1>1, ChangeStep, RemoveStep, EnvironmentStep DEF Next, Worker, PromiseStep

LEMMA RefinementInit == Init => Promise!Init
<1>. SUFFICES ASSUME Init PROVE Promise!Init
  OBVIOUS
<1>1. PICK imported \in BOOLEAN, id \in Clusters \cup {NoID} :
        /\ obj = [NoConfig EXCEPT !.exists = TRUE, !.imported = imported, !.id = id]
        /\ \E state \in {"creating", "running"} :
             cloud = [c \in Clusters |-> IF c = id THEN state ELSE "absent"]
  BY DEF Init
<1>2. /\ obj.imported \in BOOLEAN /\ obj.id \in Clusters \cup {NoID}
      /\ obj.phase = NotCreated /\ obj.finalizer = FALSE /\ obj.deleting = FALSE
      /\ obj.exists = TRUE
  BY <1>1 DEF NoConfig
<1>3. deletions = {}
  BY DEF Init
<1>4. ~Gone
  BY <1>1, <1>2 DEF Gone, ClusterState
<1>. QED  BY <1>2, <1>3, <1>4, SamePhases DEF Promise!Init, Gone

(* Whatever the copies reconciles work on and wherever they stop, the object *)
(* lives as ConfigPromise says: every step of ClusterLifecycle maps to a     *)
(* step of it or to none.                                                    *)
THEOREM Refinement == Spec => KeepsPromise
<1>1. Spec => []IInv
  BY Invariance
<1>2. IInv => TypeOK
  BY DEF IInv
<1>3. IInv /\ TypeOK' /\ [Next]_vars => [Promise!Next]_Promise!vars
  BY RefinementStep
<1>. QED  BY <1>1, <1>2, <1>3, RefinementInit, PTL DEF Spec, KeepsPromise, Promise!Spec

=============================================================================
