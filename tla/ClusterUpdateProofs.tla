-------------------------- MODULE ClusterUpdateProofs --------------------------
(***************************************************************************)
(* Theorems about ClusterUpdate, for every number of versions and tasks    *)
(* and every bound on faults, edits and mishaps.                           *)
(***************************************************************************)
EXTENDS ClusterUpdateInvariant, LifecycleRefinement

-----------------------------------------------------------------------------
(* ClusterUpdate is ClusterLifecycle with more variables. *)

LEMMA EnqueueIsCheck ==
  ASSUME NEW m, EnqueueUpdate(m)
  PROVE  CheckOnly \/ UNCHANGED vars
  BY DEF EnqueueUpdate, Write

LEMMA AwaitIsCheck ==
  ASSUME NEW s, AwaitRunning(s)
  PROVE  CheckOnly \/ UNCHANGED vars
  BY EnqueueIsCheck DEF AwaitRunning, Proceed, Write

LEMMA CheckIsLifecycle ==
  ASSUME CheckAndUpdate
  PROVE  [Change]_vars
<1>. USE EnqueueIsCheck, AwaitIsCheck DEF Stop, Proceed, Write
<1>1. CASE GetCluster
  BY <1>1 DEF GetCluster, Change
<1>2. CASE ClusterNotFound \/ CallFails \/ UpgradeRefused \/ UpgradeAnswerLost
  BY <1>2 DEF ClusterNotFound, CallFails, UpgradeRefused, UpgradeAnswerLost, Change
<1>3. CASE DescribeTaskInfo
  BY <1>3 DEF DescribeTaskInfo, Change
<1>4. CASE GetNodePools
  BY <1>4 DEF GetNodePools, Change
<1>5. CASE UpdateNodePools
  BY <1>5 DEF UpdateNodePools, Change
<1>6. CASE UpgradeCluster
  BY <1>6 DEF UpgradeCluster
<1>7. CASE SaveTask \/ SaveTaskFails \/ WriteStatus \/ WriteStatusFails
  BY <1>7 DEF SaveTask, SaveTaskFails, WriteStatus, WriteStatusFails, Change
<1>. QED  BY <1>1, <1>2, <1>3, <1>4, <1>5, <1>6, <1>7 DEF CheckAndUpdate

LEMMA OtherIsLifecycle ==
  ASSUME OtherWork
  PROVE  Worker
  BY DEF OtherWork, Starts, WritesSpec, WritesStatus, WritesNothing, Worker, Change, Remove

LEMMA StepIsLifecycle ==
  ASSUME [UpdateNext]_updateVars
  PROVE  [Next]_vars
<1>1. CASE UpdateWorker
  BY <1>1, CheckIsLifecycle, OtherIsLifecycle DEF UpdateWorker, Next, Worker
<1>2. CASE Delivery \/ UserChange \/ CrashAndRestart \/ ClusterChanges
  BY <1>2 DEF Delivery, UserChange, CrashAndRestart, ClusterChanges, Next, Environment
<1>3. CASE Completion \/ Upgrade \/ UNCHANGED updateVars
  BY <1>3 DEF Completion, Upgrade, updateVars
<1>. QED  BY <1>1, <1>2, <1>3 DEF UpdateNext

(* checkAndUpdate does to the object what ClusterLifecycle says of it, and   *)
(* nothing else: whatever task, version, message or node pool it deals with, *)
(* every behaviour of ClusterUpdate is one of ClusterLifecycle.              *)
THEOREM UpdateIsLifecycle == UpdateSpecification => Spec
<1>1. UpdateInit => Init
  BY DEF UpdateInit
<1>. QED  BY <1>1, StepIsLifecycle, PTL DEF UpdateSpecification, Spec

(* So what is proved of the lifecycle holds while the cluster is updated.    *)
THEOREM UpdateKeepsPromise == UpdateSpecification => KeepsPromise /\ []IInv
<1>. QED  BY UpdateIsLifecycle, Refinement, Invariance, PTL

-----------------------------------------------------------------------------
(* Type correctness *)

LEMMA MoreFields ==
  ASSUME NEW m \in More
  PROVE  /\ m.wanted \in Versions \cup {NoVersion} /\ m.pools \in PoolSpecs
         /\ m.task \in Tasks \cup {NoTask} /\ m.message \in Messages
  BY DEF More

LEMMA WithWanted ==
  ASSUME NEW m \in More, NEW v \in Versions \cup {NoVersion}, NEW p \in PoolSpecs
  PROVE  /\ [m EXCEPT !.wanted = v, !.pools = p] \in More
         /\ [m EXCEPT !.wanted = v, !.pools = p].task = m.task
  BY DEF More

LEMMA WithTask ==
  ASSUME NEW m \in More, NEW t \in Tasks \cup {NoTask}, NEW text \in Messages
  PROVE  /\ [m EXCEPT !.task = t, !.message = text] \in More
         /\ [m EXCEPT !.task = t, !.message = text].task = t
  BY DEF More

LEMMA WithMessage ==
  ASSUME NEW m \in More, NEW text \in Messages
  PROVE  /\ [m EXCEPT !.message = text] \in More
         /\ [m EXCEPT !.message = text].task = m.task
  BY DEF More

LEMMA NoMoreType == NoMore \in More /\ NoMore.task = NoTask
  BY DEF NoMore, More, PoolSpecs, Messages

LEMMA PinnedFields ==
  ASSUME NEW m \in More, version \in Versions
  PROVE  Pinned(m) \in More /\ Pinned(m).task = m.task
  BY DEF Pinned, More

LEMMA PlanType ==
  ASSUME NEW p \in Settled, NEW f \in Failures, NEW t \in Tasks \cup {NoTask},
         NEW text \in Messages, NEW again \in BOOLEAN
  PROVE  [phase |-> p, failure |-> f, task |-> t, message |-> text, again |-> again] \in Plans
  BY DEF Plans

LEMMA NoPlanType == NoPlan \in Plans /\ NotSeen \in Seen
<1>1. 1 \in Versions
  BY UpdateBoundsAssumption DEF Versions
<1>. QED  BY <1>1 DEF NoPlan, Plans, NotSeen, Seen, Answers, Settled, Failures, Messages, NoError

(* What checkAndUpdate knows of the object in its hands. *)
LEMMA HeldTypes ==
  ASSUME IInv, UpdateTypeOK, pc = "checkAndUpdate"
  PROVE  /\ work.phase \in Settled /\ work.failure \in Failures
         /\ workMore.task \in Tasks \cup {NoTask} /\ workMore.message \in Messages
         /\ workMore.wanted \in Versions \cup {NoVersion}
  BY ConfigFields, MoreFields DEF IInv, LabelOK, TypeOK, UpdateTypeOK

(* The local variables of checkAndUpdate. *)
LocalOK == step \in Steps /\ plan \in Plans

LEMMA WriteType ==
  ASSUME NEW p \in Settled, NEW f \in Failures, NEW t \in Tasks \cup {NoTask},
         NEW text \in Messages, NEW again \in BOOLEAN, Write(p, f, t, text, again)
  PROVE  LocalOK'
  BY PlanType DEF Write, LocalOK, Steps

LEMMA LeaveType == Leave => LocalOK'
  BY NoPlanType DEF Leave, LocalOK, Steps

LEMMA EnqueueType ==
  ASSUME IInv, UpdateTypeOK, pc = "checkAndUpdate", NEW text \in Messages,
         EnqueueUpdate(text)
  PROVE  LocalOK'
<1>1. Updating \in Settled /\ (work.phase = Updating) \in BOOLEAN
  BY DEF Settled
<1>. QED  BY <1>1, HeldTypes, LeaveType, WriteType DEF EnqueueUpdate

LEMMA ProceedType ==
  ASSUME UpdateTypeOK, NEW s \in Steps, Proceed(s)
  PROVE  LocalOK'
  BY DEF UpdateTypeOK, Proceed, LocalOK

LEMMA AwaitType ==
  ASSUME IInv, UpdateTypeOK, pc = "checkAndUpdate", NEW s, AwaitRunning(s)
  PROVE  LocalOK'
<1>1. Updating \in Settled /\ "state" \in Failures /\ "waiting" \in Messages
      /\ "nodePools" \in Steps
  BY DEF Settled, Failures, Messages, Steps
<1>. QED  BY <1>1, HeldTypes, EnqueueType, WriteType, ProceedType DEF AwaitRunning

LEMMA MishapType ==
  ASSUME UpdateTypeOK, Mishap \/ UNCHANGED mishaps
  PROVE  mishaps' \in 0..MaxMishaps
  BY UpdateBoundsAssumption DEF UpdateTypeOK, Mishap

LEMMA RememberType ==
  ASSUME NEW s \in Seen, Remember(s)
  PROVE  seen' \in Seen
  BY NoPlanType DEF Remember

LEMMA AcceptType ==
  ASSUME IInv, UpdateTypeOK, pc = "checkAndUpdate", NEW t \in Tasks, AcceptUpgrade(t)
  PROVE  tasks' \in [Tasks -> {"absent", "running", "success", "fail"}] /\ goal' \in Versions
<1>1. workMore.wanted \in Versions
  BY HeldTypes, UpdateBoundsAssumption DEF AcceptUpgrade, UpdateTypeOK, Versions, NoVersion
<1>. QED  BY <1>1 DEF AcceptUpgrade, UpdateTypeOK

(* The types of what ClusterUpdate adds. *)
AddedOK ==
    /\ more \in More /\ cacheMore \in More /\ workMore \in More /\ given \in BOOLEAN
    /\ LocalOK /\ seen \in Seen
    /\ version \in Versions /\ goal \in Versions
    /\ tasks \in [Tasks -> {"absent", "running", "success", "fail"}]
    /\ busy \in BOOLEAN /\ pools \in PoolSpecs
    /\ lost \subseteq Tasks /\ mishaps \in 0..MaxMishaps

LEMMA SplitType == UpdateTypeOK <=> TypeOK /\ AddedOK
  BY DEF UpdateTypeOK, AddedOK, LocalOK

(* The calls that only read, or change ACK. *)
LEMMA CallType ==
  ASSUME IInv, UpdateTypeOK,
         \/ GetCluster \/ ClusterNotFound \/ CallFails \/ DescribeTaskInfo
         \/ GetNodePools \/ UpdateNodePools
         \/ UpgradeCluster \/ UpgradeRefused \/ UpgradeAnswerLost
  PROVE  AddedOK'
<1>. USE DEF copies, ackVars
<1>0. /\ AddedOK /\ pc = "checkAndUpdate"
      /\ {"", "upgrading", "waiting", "pools"} \subseteq Messages
      /\ {"cluster", "task", "nodePools", "pools", "upgrade", "save"} \subseteq Steps
  BY SplitType DEF GetCluster, ClusterNotFound, CallFails, DescribeTaskInfo, GetNodePools,
     UpdateNodePools, UpgradeCluster, UpgradeRefused, UpgradeAnswerLost, Check, Messages, Steps
<1>1. CASE GetCluster
  <2>. PICK state \in Answers :
         /\ ClusterAnswers(state)
         /\ IF workMore.task # NoTask THEN Proceed("task") ELSE AwaitRunning(state)
         /\ Remember([state |-> state, version |-> version])
    BY <1>1 DEF GetCluster
  <2>1. LocalOK'
    BY <1>0, ProceedType, AwaitType
  <2>2. seen' \in Seen
    <3>1. [state |-> state, version |-> version] \in Seen
      BY <1>0 DEF AddedOK, Seen
    <3>. QED  BY <3>1, RememberType
  <2>3. mishaps' \in 0..MaxMishaps
    BY MishapType DEF ClusterAnswers
  <2>4. workMore' \in More /\ cacheMore' \in More
    BY <1>0, <1>1, PinnedFields DEF AddedOK, GetCluster
  <2>. QED  BY <1>0, <1>1, <2>1, <2>2, <2>3, <2>4 DEF AddedOK, GetCluster
<1>2. CASE ClusterNotFound \/ CallFails \/ UpgradeRefused
  <2>1. Leave /\ Remember(seen)
    BY <1>2 DEF ClusterNotFound, CallFails, UpgradeRefused, Stop
  <2>. QED  BY <1>0, <1>2, <2>1, LeaveType, RememberType
            DEF AddedOK, ClusterNotFound, CallFails, UpgradeRefused
<1>3. CASE DescribeTaskInfo
  <2>1. LocalOK'
    <3>1. "upgrading" \in Messages /\ NoTask \in Tasks \cup {NoTask} /\ FALSE \in BOOLEAN
      BY <1>0
    <3>2. \/ EnqueueUpdate("upgrading") \/ Leave
          \/ Write(work.phase, work.failure, NoTask, workMore.message, FALSE)
          \/ AwaitRunning(seen.state)
      BY <1>3 DEF DescribeTaskInfo, Stop
    <3>. QED  BY <1>0, <3>1, <3>2, HeldTypes, EnqueueType, LeaveType, WriteType, AwaitType
  <2>2. mishaps' \in 0..MaxMishaps
    BY <1>3, MishapType DEF DescribeTaskInfo
  <2>. QED  BY <1>0, <1>3, <2>1, <2>2, RememberType DEF AddedOK, DescribeTaskInfo
<1>4. CASE GetNodePools
  <2>1. LocalOK'
    BY <1>0, <1>4, EnqueueType, ProceedType DEF GetNodePools
  <2>. QED  BY <1>0, <1>4, <2>1, RememberType DEF AddedOK, GetNodePools
<1>5. CASE UpdateNodePools
  <2>1. LocalOK'
    <3>1. Active \in Settled
      BY DEF Settled
    <3>2. \/ EnqueueUpdate("pools") \/ Leave
          \/ Write(Active, work.failure, workMore.task, "", FALSE)
      BY <1>5 DEF UpdateNodePools, Stop
    <3>. QED  BY <1>0, <3>1, <3>2, HeldTypes, EnqueueType, LeaveType, WriteType
  <2>2. busy' \in BOOLEAN /\ pools' \in PoolSpecs
    BY <1>0, <1>5, MoreFields DEF AddedOK, UpdateNodePools
  <2>. QED  BY <1>0, <1>5, <2>1, <2>2, RememberType DEF AddedOK, UpdateNodePools
<1>6. CASE UpgradeCluster
  <2>. PICK t \in Tasks :
         /\ AcceptUpgrade(t)
         /\ plan' = [phase |-> work.phase, failure |-> work.failure, task |-> t,
                     message |-> "upgrading", again |-> FALSE]
    BY <1>6 DEF UpgradeCluster
  <2>1. LocalOK'
    BY <1>0, <1>6, HeldTypes, PlanType DEF LocalOK, UpgradeCluster
  <2>. QED  BY <1>0, <1>6, <2>1, AcceptType DEF AddedOK, UpgradeCluster
<1>7. CASE UpgradeAnswerLost
  <2>. PICK t \in Tasks : AcceptUpgrade(t) /\ lost' = lost \cup {t}
    BY <1>7 DEF UpgradeAnswerLost
  <2>. QED  BY <1>0, <1>7, LeaveType, RememberType, AcceptType DEF AddedOK, UpgradeAnswerLost
<1>. QED  BY <1>1, <1>2, <1>3, <1>4, <1>5, <1>6, <1>7

(* The writes of a status. *)
LEMMA StatusType ==
  ASSUME UInv, SaveTask \/ SaveTaskFails \/ WriteStatus \/ WriteStatusFails
  PROVE  AddedOK'
<1>. USE DEF copies, ackVars
<1>0. AddedOK /\ Leave /\ Remember(seen)
  BY SplitType DEF UInv, SaveTask, SaveTaskFails, WriteStatus, WriteStatusFails
<1>1. plan.task \in Tasks \cup {NoTask} /\ plan.message \in Messages
  BY <1>0 DEF AddedOK, LocalOK, Plans
<1>2. Planned \in More /\ [workMore EXCEPT !.message = plan.message] \in More
  BY <1>0, <1>1, WithTask, WithMessage DEF AddedOK, Planned
<1>3. more' \in More /\ workMore' \in More
  BY <1>0, <1>2 DEF AddedOK, SaveTask, SaveTaskFails, WriteStatus, WriteStatusFails
<1>4. lost' \subseteq Tasks
  <2>1. CASE SaveTaskFails
    <3>1. plan.task \in Tasks
      BY <2>1 DEF UInv, PlanOK, SaveTaskFails, Check
    <3>. QED  BY <1>0, <2>1, <3>1 DEF AddedOK, SaveTaskFails
  <2>2. CASE UNCHANGED lost
    BY <1>0, <2>2 DEF AddedOK
  <2>. QED  BY <2>1, <2>2 DEF SaveTask, WriteStatus, WriteStatusFails
<1>. QED  BY <1>0, <1>3, <1>4, LeaveType, RememberType
          DEF AddedOK, SaveTask, SaveTaskFails, WriteStatus, WriteStatusFails

-----------------------------------------------------------------------------
(* Steps of the rest of the life. *)

LEMMA OtherLabels == OtherWork => pc # "checkAndUpdate"
  BY DEF OtherWork, Starts, WritesSpec, WritesStatus, WritesNothing,
     StartChange, StartRemove, TakeCached, UpdateSpec, UpdateSpecFails, AddFinalizer,
     AddFinalizerFails, RemoveFinalizer, RemoveFinalizerFails, UpdatePhase,
     UpdatePhaseFails, RecordError, RecordErrorFails, NothingToDo, StartRemoveFails,
     CreateCluster, CreateClusterFails, ClusterIsRunning, ClusterIsNotRunning,
     DescribeFails, CreateCASecret, CreateCASecretFails, NothingToRecord, HasFinalizer,
     DescribeRemoved, DeleteCluster, RemoveFails

(* A write that fails makes no copy current, and one that was stored came    *)
(* from the current version.                                                 *)
LEMMA FailedCopies ==
  ASSUME NEW new, NEW kept \in BOOLEAN, WriteFails(new, kept), kept => workCurrent
  PROVE  /\ cacheCurrent' => cacheCurrent
         /\ workCurrent' => workCurrent
         /\ obj' # obj => workCurrent
<1>1. cacheCurrent' => cacheCurrent
  BY DEF WriteFails, Store
<1>2. workCurrent' => workCurrent
  BY DEF WriteFails
<1>3. obj' # obj => workCurrent
  BY DEF WriteFails, CanWrite
<1>. QED  BY <1>1, <1>2, <1>3

(* What the inductive invariant says of the variables of ClusterUpdate. *)
AddedInv == AddedOK /\ CopiesOK /\ PlanOK /\ NoTaskForgotten

LEMMA SplitInv == UInv <=> TypeOK /\ AddedInv
  BY SplitType DEF UInv, AddedInv

LEMMA SpecCopies ==
  ASSUME IInv, AddedInv, WritesSpec
  PROVE  /\ CopiesOK' /\ more'.task = more.task
         /\ more' \in More /\ workMore' \in More
<1>0. AddedOK /\ CopiesOK
  BY DEF AddedInv
<1>1. more' \in More /\ more'.task = more.task
  <2>1. workMore.wanted \in Versions \cup {NoVersion} /\ workMore.pools \in PoolSpecs
    BY <1>0, MoreFields DEF AddedOK
  <2>. QED  BY <1>0, <2>1, WithWanted DEF WritesSpec, AddedOK
<1>2. workMore' \in More
  BY <1>0, <1>1, NoMoreType DEF WritesSpec, Keep, AddedOK
<1>3. CASE UpdateSpec
  <2>1. workMore' = more'
    BY <1>3 DEF WritesSpec, Keep, UpdateSpec
  <2>2. cacheCurrent' => cacheCurrent
    BY <1>3 DEF UpdateSpec, WriteSucceeds, Store
  <2>. QED  BY <1>0, <1>1, <1>2, <2>1, <2>2 DEF CopiesOK, WritesSpec
<1>4. CASE UpdateSpecFails /\ ~UpdateSpec
  <2>1. workMore' = workMore
    BY <1>4 DEF WritesSpec, Keep, UpdateSpecFails
  <2>2. workCurrent \in BOOLEAN
    BY DEF IInv, TypeOK
  <2>3. (cacheCurrent' => cacheCurrent) /\ (workCurrent' => workCurrent)
    BY <1>4, <2>2, FailedCopies DEF UpdateSpecFails
  <2>. QED  BY <1>0, <1>1, <1>2, <2>1, <2>3 DEF CopiesOK, WritesSpec
<1>5. CASE AddFinalizer \/ AddFinalizerFails \/ RemoveFinalizer \/ RemoveFinalizerFails
  <2>1. ~workCurrent'
    BY <1>5 DEF AddFinalizer, AddFinalizerFails, RemoveFinalizer, RemoveFinalizerFails,
       Finish, Idle
  <2>2. cacheCurrent' => cacheCurrent
    BY <1>5 DEF AddFinalizer, AddFinalizerFails, RemoveFinalizer, RemoveFinalizerFails, Store
  <2>. QED  BY <1>0, <1>1, <1>2, <2>1, <2>2 DEF CopiesOK, WritesSpec
<1>. QED  BY <1>1, <1>2, <1>3, <1>4, <1>5 DEF WritesSpec

LEMMA StatusCopies ==
  ASSUME IInv, AddedInv, WritesStatus
  PROVE  /\ CopiesOK' /\ more'.task = more.task
         /\ more' \in More /\ workMore' \in More
<1>0. /\ AddedOK /\ CopiesOK
      /\ startCurrent \in BOOLEAN /\ (startCurrent => workCurrent)
  BY DEF AddedInv, IInv, TypeOK, WorkOK
<1>1. /\ more' \in More
      /\ more'.task = IF obj' # obj THEN workMore.task ELSE more.task
  <2>1. workMore.task \in Tasks \cup {NoTask} /\ workMore.message \in Messages
    BY <1>0, MoreFields DEF AddedOK
  <2>2. /\ [more EXCEPT !.task = workMore.task, !.message = workMore.message] \in More
        /\ [more EXCEPT !.task = workMore.task, !.message = workMore.message].task
              = workMore.task
    BY <1>0, <2>1 DEF AddedOK, More
  <2>. QED  BY <1>0, <2>2 DEF WritesStatus, AddedOK
<1>2. workMore' \in More
  BY <1>0, <1>1, NoMoreType DEF WritesStatus, Keep, AddedOK
<1>4. CASE UpdatePhase \/ RecordError
  <2>1. /\ workMore' = more' /\ workCurrent
        /\ cacheCurrent' => cacheCurrent
    BY <1>4 DEF WritesStatus, Keep, UpdatePhase, RecordError, WriteSucceeds, CanWrite, Store
  <2>. QED  BY <1>0, <1>1, <1>2, <2>1 DEF CopiesOK, WritesStatus
<1>5. CASE UpdatePhaseFails /\ ~(UpdatePhase \/ RecordError)
  <2>1. workMore' = workMore
    BY <1>5 DEF WritesStatus, Keep, UpdatePhaseFails
  <2>2. /\ cacheCurrent' => cacheCurrent
        /\ workCurrent' => workCurrent
        /\ obj' # obj => workCurrent
    BY <1>0, <1>5, FailedCopies DEF UpdatePhaseFails
  <2>. QED  BY <1>0, <1>1, <1>2, <2>1, <2>2 DEF CopiesOK, WritesStatus
<1>6. CASE RecordErrorFails /\ ~(UpdatePhase \/ RecordError)
  <2>1. workMore' = workMore
    BY <1>6 DEF WritesStatus, Keep, RecordErrorFails
  <2>2. /\ cacheCurrent' => cacheCurrent
        /\ workCurrent' => workCurrent
        /\ obj' # obj => workCurrent
    <3>1. cacheCurrent' => cacheCurrent
      BY <1>6 DEF RecordErrorFails, Store
    <3>2. workCurrent' => workCurrent
      BY <1>0, <1>6 DEF RecordErrorFails
    <3>3. obj' # obj => workCurrent
      BY <1>6 DEF RecordErrorFails, CanWrite
    <3>. QED  BY <3>1, <3>2, <3>3
  <2>. QED  BY <1>0, <1>1, <1>2, <2>1, <2>2 DEF CopiesOK, WritesStatus
<1>. QED  BY <1>1, <1>2, <1>4, <1>5, <1>6 DEF WritesStatus

LEMMA OtherCopies ==
  ASSUME IInv, AddedInv, Starts \/ WritesNothing
  PROVE  /\ CopiesOK' /\ more'.task = more.task
         /\ more' \in More /\ workMore' \in More
<1>0. AddedOK /\ CopiesOK
  BY DEF AddedInv
<1>1. CASE Starts
  BY <1>0, <1>1 DEF AddedOK, CopiesOK, Starts, StartChange, StartRemove, TakeCached, storeVars
<1>2. CASE WritesNothing
  <2>1. UNCHANGED <<more, cacheMore, cacheCurrent>>
    BY <1>2 DEF WritesNothing, storeVars, NothingToDo, StartRemoveFails, CreateCluster,
       CreateClusterFails, ClusterIsRunning, ClusterIsNotRunning, DescribeFails, CreateCASecret,
       CreateCASecretFails, NothingToRecord, HasFinalizer, DescribeRemoved, DeleteCluster,
       RemoveFails
  <2>2. workCurrent' => workCurrent
    BY <1>2 DEF WritesNothing, workerVars, GoTo, Return, Finish, Idle, NothingToDo,
       StartRemoveFails, CreateCluster, CreateClusterFails, ClusterIsRunning,
       ClusterIsNotRunning, DescribeFails, CreateCASecret, CreateCASecretFails,
       NothingToRecord, HasFinalizer, DescribeRemoved, DeleteCluster, RemoveFails
  <2>3. pc' = "idle" => ~workCurrent'
    BY <1>2 DEF WritesNothing, workerVars, GoTo, Return, Finish, Idle, NothingToDo, IInv,
       WorkOK, StartRemoveFails, CreateCluster, CreateClusterFails, ClusterIsRunning,
       ClusterIsNotRunning, DescribeFails, CreateCASecret, CreateCASecretFails,
       NothingToRecord, HasFinalizer, DescribeRemoved, DeleteCluster, RemoveFails
  <2>4. workMore' = IF pc' = "idle" THEN NoMore ELSE workMore
    BY <1>2 DEF WritesNothing, Keep
  <2>. QED  BY <1>0, <2>1, <2>2, <2>3, <2>4, NoMoreType DEF AddedOK, CopiesOK
<1>. QED  BY <1>1, <1>2

LEMMA OtherStep ==
  ASSUME IInv, AddedInv, OtherWork
  PROVE  AddedInv'
<1>1. /\ CopiesOK' /\ more'.task = more.task
      /\ more' \in More /\ workMore' \in More
  BY SpecCopies, StatusCopies, OtherCopies DEF OtherWork
<1>2. step = "cluster"
  BY OtherLabels DEF AddedInv, PlanOK
<1>3. UNCHANGED <<checkVars, ackVars, lost, mishaps, cacheMore>> /\ given' \in BOOLEAN
  BY SharedCacheAssumption
     DEF OtherWork, Starts, WritesSpec, WritesStatus, WritesNothing, AddedInv, AddedOK
<1>4. AddedOK'
  BY <1>1, <1>3 DEF AddedInv, AddedOK, LocalOK, checkVars, ackVars
<1>5. PlanOK'
  BY <1>2, <1>3 DEF PlanOK, checkVars
<1>6. NoTaskForgotten'
  BY <1>1, <1>2, <1>3 DEF AddedInv, NoTaskForgotten, Check, ackVars
<1>. QED  BY <1>1, <1>4, <1>5, <1>6 DEF AddedInv

-----------------------------------------------------------------------------
(* Steps of checkAndUpdate. *)

LEMMA LeavePlan == Leave => PlanOK'
  BY DEF Leave, PlanOK

LEMMA EnqueuePlan ==
  ASSUME pc = "checkAndUpdate", NEW text, EnqueueUpdate(text), workMore'.task = workMore.task
  PROVE  PlanOK'
<1>1. CASE Leave
  BY <1>1, LeavePlan
<1>2. CASE Write(Updating, work.failure, workMore.task, text, work.phase = Updating)
  BY <1>2 DEF Write, PlanOK, vars, workerVars
<1>. QED  BY <1>1, <1>2 DEF EnqueueUpdate

LEMMA ProceedPlan ==
  ASSUME pc = "checkAndUpdate", NEW s \in {"task", "nodePools", "pools", "upgrade"}, Proceed(s),
         s = "task" => workMore'.task # NoTask
  PROVE  PlanOK'
  BY DEF Proceed, PlanOK, vars, workerVars

LEMMA AwaitPlan ==
  ASSUME pc = "checkAndUpdate", NEW s, AwaitRunning(s), workMore'.task = workMore.task
  PROVE  PlanOK'
<1>1. CASE Proceed("nodePools")
  BY <1>1, ProceedPlan
<1>2. CASE EnqueueUpdate("waiting")
  BY <1>2, EnqueuePlan
<1>3. CASE Write(Updating, "state", workMore.task, workMore.message, FALSE)
  BY <1>3 DEF Write, PlanOK, vars, workerVars
<1>. QED  BY <1>1, <1>2, <1>3 DEF AwaitRunning

(* The calls that start no upgrade. *)
Reading == \/ GetCluster \/ ClusterNotFound \/ CallFails \/ DescribeTaskInfo
           \/ GetNodePools \/ UpdateNodePools \/ UpgradeRefused

LEMMA ReadingCopies ==
  ASSUME AddedInv, Reading
  PROVE  /\ pc = "checkAndUpdate" /\ step # "save"
         /\ UNCHANGED <<more, tasks, lost>> /\ workMore'.task = workMore.task
         /\ cacheMore'.task = cacheMore.task
<1>1. CASE GetCluster
  <2>1. /\ Pinned(workMore).task = workMore.task
        /\ Pinned(cacheMore).task = cacheMore.task
    BY PinnedFields DEF AddedInv, AddedOK
  <2>. QED  BY <1>1, <2>1 DEF GetCluster, Check, ackVars
<1>2. CASE UNCHANGED copies
  BY <1>2 DEF copies, ackVars, Reading, GetCluster, ClusterNotFound, CallFails,
     DescribeTaskInfo, GetNodePools, UpdateNodePools, UpgradeRefused, Check
<1>. QED  BY <1>1, <1>2 DEF Reading, ClusterNotFound, CallFails, DescribeTaskInfo,
     GetNodePools, UpdateNodePools, UpgradeRefused

LEMMA ReadingPlan ==
  ASSUME AddedInv, Reading
  PROVE  PlanOK'
<1>0. pc = "checkAndUpdate" /\ workMore'.task = workMore.task /\ UNCHANGED tasks
  BY ReadingCopies
<1>1. CASE GetCluster
  <2>. PICK state \in Answers :
         IF workMore.task # NoTask THEN Proceed("task") ELSE AwaitRunning(state)
    BY <1>1 DEF GetCluster
  <2>. QED  BY <1>0, ProceedPlan, AwaitPlan
<1>2. CASE ClusterNotFound \/ CallFails \/ UpgradeRefused
  BY <1>2, LeavePlan DEF ClusterNotFound, CallFails, UpgradeRefused, Stop
<1>3. CASE DescribeTaskInfo
  <2>1. CASE tasks[workMore.task] = "success"
             /\ Write(work.phase, work.failure, NoTask, workMore.message, FALSE)
    <3>1. workMore.task \in Tasks
      BY <1>3, MoreFields DEF AddedInv, AddedOK, PlanOK, DescribeTaskInfo, Check
    <3>. QED  BY <1>0, <2>1, <3>1 DEF Write, PlanOK, vars, workerVars
  <2>. QED  BY <1>0, <1>3, <2>1, LeavePlan, EnqueuePlan, AwaitPlan DEF DescribeTaskInfo, Stop
<1>4. CASE GetNodePools
  BY <1>0, <1>4, EnqueuePlan, ProceedPlan DEF GetNodePools
<1>5. CASE UpdateNodePools
  <2>1. CASE Write(Active, work.failure, workMore.task, "", FALSE)
    BY <1>0, <2>1 DEF Write, PlanOK, vars, workerVars
  <2>. QED  BY <1>0, <1>5, <2>1, LeavePlan, EnqueuePlan DEF UpdateNodePools, Stop
<1>. QED  BY <1>1, <1>2, <1>3, <1>4, <1>5 DEF Reading

(* No call of checkAndUpdate touches the versions of the copies. *)
LEMMA SameVersions ==
  ASSUME CheckOnly \/ UNCHANGED vars
  PROVE  cacheCurrent' = cacheCurrent /\ workCurrent' = workCurrent
  BY DEF CheckOnly, Return, vars, storeVars, workerVars

LEMMA ReadingVersions ==
  ASSUME Reading
  PROVE  CheckOnly \/ UNCHANGED vars
<1>. USE EnqueueIsCheck, AwaitIsCheck DEF Stop, Proceed, Write
<1>1. CASE GetCluster
  BY <1>1 DEF GetCluster
<1>2. CASE ClusterNotFound \/ CallFails \/ UpgradeRefused
  BY <1>2 DEF ClusterNotFound, CallFails, UpgradeRefused
<1>3. CASE DescribeTaskInfo
  BY <1>3 DEF DescribeTaskInfo
<1>4. CASE GetNodePools
  BY <1>4 DEF GetNodePools
<1>5. CASE UpdateNodePools
  BY <1>5 DEF UpdateNodePools
<1>. QED  BY <1>1, <1>2, <1>3, <1>4, <1>5 DEF Reading

LEMMA ReadingStep ==
  ASSUME IInv, UInv, Reading
  PROVE  AddedInv'
<1>0. AddedInv
  BY SplitInv
<1>1. AddedOK'
  BY CallType DEF UInv, Reading
<1>2. CopiesOK'
  BY <1>0, ReadingCopies, ReadingVersions, SameVersions DEF AddedInv, CopiesOK
<1>3. NoTaskForgotten'
  BY <1>0, ReadingCopies DEF AddedInv, NoTaskForgotten, Check
<1>. QED  BY <1>0, <1>1, <1>2, <1>3, ReadingPlan DEF AddedInv

LEMMA UpgradeStep ==
  ASSUME IInv, UInv, UpgradeCluster \/ UpgradeAnswerLost
  PROVE  AddedInv'
<1>0. AddedInv /\ pc = "checkAndUpdate" /\ UNCHANGED copies
  BY SplitInv DEF UpgradeCluster, UpgradeAnswerLost, Check
<1>1. AddedOK'
  BY CallType DEF UInv
<1>2. CopiesOK'
  BY <1>0, SameVersions DEF AddedInv, CopiesOK, copies, UpgradeCluster, UpgradeAnswerLost
<1>3. PICK t \in Tasks :
        /\ AcceptUpgrade(t)
        /\ \/ UpgradeCluster /\ plan'.task = t
           \/ UpgradeAnswerLost /\ lost' = lost \cup {t}
  BY DEF UpgradeCluster, UpgradeAnswerLost
<1>4. \A u \in Tasks : tasks'[u] = "running" => u = t
  BY <1>0, <1>3 DEF AddedInv, AddedOK, AcceptUpgrade
<1>5. CASE UpgradeCluster /\ plan'.task = t
  <2>1. pc' = "checkAndUpdate" /\ step' = "save"
    BY <1>0, <1>5 DEF UpgradeCluster, vars, workerVars
  <2>. QED  BY <1>1, <1>2, <1>4, <1>5, <2>1 DEF AddedInv, PlanOK, NoTaskForgotten, Check
<1>6. CASE UpgradeAnswerLost /\ lost' = lost \cup {t}
  <2>1. PlanOK'
    BY <1>6, LeavePlan DEF UpgradeAnswerLost
  <2>. QED  BY <1>1, <1>2, <1>4, <1>6, <2>1 DEF AddedInv, NoTaskForgotten
<1>. QED  BY <1>3, <1>5, <1>6

LEMMA StatusStep ==
  ASSUME IInv, UInv, SaveTask \/ SaveTaskFails \/ WriteStatus \/ WriteStatusFails
  PROVE  AddedInv'
<1>0. /\ AddedInv /\ startCurrent \in BOOLEAN /\ (startCurrent => workCurrent)
  BY SplitInv DEF IInv, TypeOK, WorkOK
<1>1. AddedOK'
  BY StatusType
<1>2. PlanOK'
  BY LeavePlan DEF SaveTask, SaveTaskFails, WriteStatus, WriteStatusFails
<1>3. Planned.task = plan.task /\ UNCHANGED <<tasks, cacheMore>>
  <2>1. plan.task \in Tasks \cup {NoTask} /\ plan.message \in Messages /\ more \in More
    BY <1>0 DEF AddedInv, AddedOK, LocalOK, Plans
  <2>2. Planned.task = plan.task
    BY <2>1 DEF Planned, More
  <2>. QED  BY <2>2 DEF SaveTask, SaveTaskFails, WriteStatus, WriteStatusFails, ackVars
<1>4. ASSUME UpdateStatusFails PROVE workCurrent' => workCurrent
  BY <1>0, <1>4 DEF UpdateStatusFails
<1>5. ASSUME Check("save") PROVE \A t \in Tasks : tasks[t] = "running" => t = plan.task
  BY <1>0, <1>5 DEF AddedInv, PlanOK, Check
<1>6. ASSUME Check("write"), CanWrite
      PROVE  \A t \in Tasks : tasks[t] = "running" => t = plan.task \/ t \in lost
  BY <1>0, <1>6 DEF AddedInv, PlanOK, CopiesOK, NoTaskForgotten, Check, CanWrite, Tasks, NoTask
<1>7. CASE SaveTask
  <2>1. ~cacheCurrent' /\ workMore' = more' /\ more'.task = plan.task
    BY <1>3, <1>7 DEF SaveTask, UpdateStatusWithRetry
  <2>2. NoTaskForgotten'
    BY <1>3, <1>5, <1>7, <2>1 DEF SaveTask, NoTaskForgotten
  <2>. QED  BY <1>1, <1>2, <2>1, <2>2 DEF AddedInv, CopiesOK
<1>8. CASE SaveTaskFails
  <2>1. CASE cacheCurrent' = cacheCurrent /\ UNCHANGED more /\ lost' = lost \cup {plan.task}
    <3>1. CopiesOK'
      BY <1>0, <1>3, <1>4, <1>8, <2>1 DEF AddedInv, CopiesOK, SaveTaskFails
    <3>2. NoTaskForgotten'
      BY <1>3, <1>5, <1>8, <2>1 DEF SaveTaskFails, NoTaskForgotten
    <3>. QED  BY <1>1, <1>2, <3>1, <3>2 DEF AddedInv
  <2>2. CASE NewToAll /\ more' = Planned
    <3>1. NoTaskForgotten'
      BY <1>3, <1>5, <1>8, <2>2 DEF SaveTaskFails, NoTaskForgotten
    <3>. QED  BY <1>1, <1>2, <2>2, <3>1 DEF AddedInv, CopiesOK, NewToAll
  <2>. QED  BY <1>8, <2>1, <2>2 DEF SaveTaskFails
<1>9. CASE WriteStatus
  <2>1. ~cacheCurrent' /\ more'.task = plan.task
    BY <1>3, <1>9 DEF WriteStatus, UpdateStatus
  <2>2. workCurrent' => workMore' = more'
    BY <1>9 DEF WriteStatus
  <2>3. NoTaskForgotten'
    BY <1>3, <1>6, <1>9, <2>1 DEF WriteStatus, UpdateStatus, NoTaskForgotten
  <2>. QED  BY <1>1, <1>2, <2>1, <2>2, <2>3 DEF AddedInv, CopiesOK
<1>10. CASE WriteStatusFails
  <2>1. CASE cacheCurrent' = cacheCurrent /\ UNCHANGED more
    <3>1. CopiesOK'
      BY <1>0, <1>3, <1>4, <1>10, <2>1 DEF AddedInv, CopiesOK, WriteStatusFails
    <3>2. NoTaskForgotten'
      BY <1>0, <1>3, <1>10, <2>1 DEF AddedInv, WriteStatusFails, NoTaskForgotten, Check
    <3>. QED  BY <1>1, <1>2, <3>1, <3>2 DEF AddedInv
  <2>2. CASE CanWrite /\ NewToAll /\ more' = Planned
    <3>1. NoTaskForgotten'
      BY <1>3, <1>6, <1>10, <2>2 DEF WriteStatusFails, NoTaskForgotten
    <3>. QED  BY <1>1, <1>2, <2>2, <3>1 DEF AddedInv, CopiesOK, NewToAll
  <2>. QED  BY <1>10, <2>1, <2>2 DEF WriteStatusFails
<1>. QED  BY <1>7, <1>8, <1>9, <1>10

-----------------------------------------------------------------------------
(* Steps of everybody else. *)

LEMMA CompletionStep ==
  ASSUME AddedInv, Completion \/ Upgrade
  PROVE  AddedInv'
<1>0. /\ AddedOK /\ UNCHANGED <<vars, copies, checkVars, lost>>
  BY DEF AddedInv, Completion, Upgrade
<1>1. /\ mishaps' \in 0..MaxMishaps /\ version' \in Versions /\ goal' \in Versions
      /\ busy' \in BOOLEAN /\ pools' \in PoolSpecs
      /\ tasks' \in [Tasks -> {"absent", "running", "success", "fail"}]
      /\ \A t \in Tasks : tasks'[t] = "running" => tasks[t] = "running"
  <2>1. CASE \E t \in Tasks : TaskSucceeds(t) \/ TaskFails(t)
    <3>1. mishaps' \in 0..MaxMishaps
      BY <1>0, <2>1, UpdateBoundsAssumption DEF AddedOK, TaskSucceeds, TaskFails, Mishap
    <3>. QED  BY <1>0, <2>1, <3>1 DEF AddedOK, TaskSucceeds, TaskFails
  <2>2. CASE NodePoolsSettle
    BY <1>0, <2>2 DEF AddedOK, NodePoolsSettle
  <2>3. CASE UpgradedByOthers
    <3>1. mishaps' \in 0..MaxMishaps
      BY <1>0, <2>3, UpdateBoundsAssumption DEF AddedOK, UpgradedByOthers, Mishap
    <3>. QED  BY <1>0, <2>3, <3>1 DEF AddedOK, UpgradedByOthers
  <2>. QED  BY <2>1, <2>2, <2>3 DEF Completion, Upgrade
<1>2. AddedOK'
  BY <1>0, <1>1 DEF AddedOK, LocalOK, copies, checkVars
<1>3. CopiesOK'
  BY <1>0 DEF AddedInv, CopiesOK, copies, vars, storeVars, workerVars
<1>4. PlanOK'
  BY <1>0, <1>1 DEF AddedInv, PlanOK, copies, checkVars, vars, workerVars
<1>5. NoTaskForgotten'
  BY <1>0, <1>1 DEF AddedInv, NoTaskForgotten, Check, copies, checkVars, vars, workerVars
<1>. QED  BY <1>2, <1>3, <1>4, <1>5 DEF AddedInv

LEMMA OthersStep ==
  ASSUME AddedInv, Delivery \/ UserChange \/ CrashAndRestart \/ ClusterChanges
  PROVE  AddedInv'
<1>0. AddedOK /\ UNCHANGED ackVars
  BY DEF AddedInv, Delivery, UserChange, CrashAndRestart, ClusterChanges
<1>1. CASE Delivery
  <2>1. UNCHANGED <<pc, workCurrent, more, workMore, checkVars, lost, mishaps>>
        /\ cacheMore' = more /\ given' = FALSE
    BY <1>1 DEF Delivery, Sync
  <2>. QED  BY <1>0, <2>1 DEF AddedInv, AddedOK, LocalOK, CopiesOK, PlanOK, NoTaskForgotten,
            Check, ackVars, checkVars
<1>2. CASE UserChange
  <2>1. UNCHANGED <<pc, cacheMore, workMore, given, checkVars, lost, mishaps>>
        /\ ~cacheCurrent' /\ ~workCurrent'
    BY <1>2 DEF UserChange, UserEdit, OthersWrite
  <2>2. more' \in More /\ more'.task = more.task
    <3>. PICK v \in Versions \cup {NoVersion}, p \in PoolSpecs :
           more' = [more EXCEPT !.wanted = v, !.pools = p]
      BY <1>2 DEF UserChange
    <3>. QED  BY <1>0 DEF AddedOK, More
  <2>. QED  BY <1>0, <2>1, <2>2 DEF AddedInv, AddedOK, LocalOK, CopiesOK, PlanOK,
            NoTaskForgotten, Check, ackVars, checkVars
<1>3. CASE CrashAndRestart
  <2>1. /\ ~workCurrent' /\ UNCHANGED <<more, mishaps>> /\ cacheMore' = more
        /\ workMore' = NoMore /\ given' = FALSE
        /\ Leave /\ Remember(seen)
        /\ lost' = lost \cup (IF Check("save") THEN {plan.task} ELSE {})
    BY <1>3 DEF CrashAndRestart, Crash, Idle
  <2>2. lost' \subseteq Tasks
    BY <1>0, <2>1 DEF AddedInv, AddedOK, PlanOK, Check
  <2>3. AddedOK'
    BY <1>0, <2>1, <2>2, NoMoreType, LeaveType, RememberType DEF AddedOK, ackVars
  <2>4. NoTaskForgotten'
    BY <1>0, <2>1 DEF AddedInv, NoTaskForgotten, ackVars
  <2>. QED  BY <2>1, <2>3, <2>4, LeavePlan DEF AddedInv, CopiesOK
<1>4. CASE ClusterChanges
  <2>1. UNCHANGED <<copies, checkVars, lost, mishaps, pc>>
        /\ (cacheCurrent' => cacheCurrent) /\ (workCurrent' => workCurrent)
    BY <1>4 DEF ClusterChanges, UserDelete, OthersWrite, ACK, ClusterRuns, ClusterGone,
       ClusterFails, DeletionFails, DeletedByOthers, Progress, storeVars, workerVars
  <2>. QED  BY <1>0, <2>1 DEF AddedInv, AddedOK, LocalOK, CopiesOK, PlanOK, NoTaskForgotten,
            Check, ackVars, checkVars, copies
<1>. QED  BY <1>1, <1>2, <1>3, <1>4

-----------------------------------------------------------------------------
LEMMA AddedInit == UpdateInit => AddedInv
<1>. SUFFICES ASSUME UpdateInit PROVE AddedInv
  OBVIOUS
<1>1. more \in More
  <2>. PICK v \in Versions \cup {NoVersion} : more = [NoMore EXCEPT !.wanted = v]
    BY DEF UpdateInit
  <2>. QED  BY NoMoreType DEF More
<1>2. AddedOK
  <2>1. /\ cacheMore = more /\ workMore = NoMore /\ given = FALSE
        /\ step = "cluster" /\ plan = NoPlan /\ seen = NotSeen
        /\ version \in Versions /\ goal = version
        /\ tasks = [t \in Tasks |-> "absent"]
        /\ busy = FALSE /\ pools \in PoolSpecs
        /\ lost = {} /\ mishaps = 0
    BY DEF UpdateInit
  <2>2. tasks \in [Tasks -> {"absent", "running", "success", "fail"}]
    BY <2>1
  <2>3. mishaps \in 0..MaxMishaps
    BY <2>1, UpdateBoundsAssumption
  <2>. QED  BY <1>1, <2>1, <2>2, <2>3, NoMoreType, NoPlanType DEF AddedOK, LocalOK, Steps
<1>3. CopiesOK /\ PlanOK
  BY DEF UpdateInit, Init, CopiesOK, PlanOK
<1>4. NoTaskForgotten
  BY DEF UpdateInit, NoTaskForgotten
<1>. QED  BY <1>2, <1>3, <1>4 DEF AddedInv

LEMMA AddedStep ==
  ASSUME IInv, AddedInv, [UpdateNext]_updateVars
  PROVE  AddedInv'
<1>0. UInv
  BY SplitInv DEF IInv
<1>1. CASE CheckAndUpdate
  BY <1>0, <1>1, ReadingStep, UpgradeStep, StatusStep DEF CheckAndUpdate, Reading
<1>2. CASE OtherWork
  BY <1>2, OtherStep
<1>3. CASE Delivery \/ UserChange \/ CrashAndRestart \/ ClusterChanges
  BY <1>3, OthersStep
<1>4. CASE Completion \/ Upgrade
  BY <1>4, CompletionStep
<1>5. CASE UNCHANGED updateVars
  BY <1>5 DEF updateVars, copies, checkVars, ackVars, vars, storeVars, workerVars, AddedInv,
     AddedOK, LocalOK, CopiesOK, PlanOK, NoTaskForgotten, Check
<1>. QED  BY <1>1, <1>2, <1>3, <1>4, <1>5 DEF UpdateNext, UpdateWorker

THEOREM AddedInvariance == UpdateSpecification => []UInv
<1>1. AddedInv /\ IInv /\ [UpdateNext]_updateVars => AddedInv'
  BY AddedStep
<1>2. AddedInv /\ IInv => UInv
  BY SplitInv DEF IInv
<1>. QED  BY <1>1, <1>2, AddedInit, UpdateKeepsPromise, PTL DEF UpdateSpecification

(* Every variable of the update has its type, for every number of versions   *)
(* and tasks.                                                                *)
THEOREM UpdateTypeCorrect == UpdateSpecification => []UpdateTypeOK
<1>1. UInv => UpdateTypeOK
  BY DEF UInv
<1>. QED  BY <1>1, AddedInvariance, PTL

(* updateStatus: a task ACK runs is in the stored status or about to be put  *)
(* there, unless a failed call or a crash kept it out: no write of another   *)
(* client, and no stale copy, makes the operator forget an upgrade.          *)
THEOREM TasksRemembered == UpdateSpecification => []NoTaskForgotten
<1>1. UInv => NoTaskForgotten
  BY DEF UInv
<1>. QED  BY <1>1, AddedInvariance, PTL

-----------------------------------------------------------------------------
(* What checkAndUpdate has seen when it calls the cluster active. *)

LEMMA MorePinned ==
  ASSUME NEW m \in More, NEW w, w \in {NoVersion, m.wanted}
  PROVE  w \in {NoVersion, Pinned(m).wanted}
  BY DEF Pinned, More

(* The status fields are not the version that is wanted. *)
LEMMA KeepsWanted ==
  ASSUME NEW m \in More, NEW t, NEW text
  PROVE  /\ [m EXCEPT !.task = t, !.message = text].wanted = m.wanted
         /\ [m EXCEPT !.message = text].wanted = m.wanted
         /\ [m EXCEPT !.message = text].task = m.task
  BY DEF More

(* A mishap cannot be undone. *)
LEMMA MishapsGrow ==
  ASSUME IInv, UInv, [UpdateNext]_updateVars
  PROVE  mishaps' = 0 => mishaps = 0
<1>0. mishaps \in Nat /\ (Mishap => mishaps' # 0)
  BY UpdateBoundsAssumption DEF UInv, UpdateTypeOK, Mishap
<1>1. CASE CheckAndUpdate
  BY <1>0, <1>1 DEF CheckAndUpdate, GetCluster, ClusterAnswers, ClusterNotFound, CallFails,
     DescribeTaskInfo, GetNodePools, UpdateNodePools, UpgradeCluster, UpgradeRefused,
     UpgradeAnswerLost, SaveTask, SaveTaskFails, WriteStatus, WriteStatusFails
<1>2. CASE OtherWork \/ Delivery \/ UserChange \/ CrashAndRestart \/ ClusterChanges
  BY <1>2 DEF OtherWork, Delivery, UserChange, CrashAndRestart, ClusterChanges
<1>3. CASE Completion \/ Upgrade
  BY <1>0, <1>3 DEF Completion, Upgrade, NodePoolsSettle, TaskSucceeds, TaskFails,
     UpgradedByOthers
<1>4. CASE UNCHANGED updateVars
  BY <1>4 DEF updateVars
<1>. QED  BY <1>1, <1>2, <1>3, <1>4 DEF UpdateNext, UpdateWorker

LEMMA WantedReading ==
  ASSUME AddedInv, WantedOK, Reading \/ UpgradeCluster \/ UpgradeAnswerLost
  PROVE  WantedOK'
<1>1. CheckOnly \/ UNCHANGED vars
  BY ReadingVersions DEF UpgradeCluster, UpgradeAnswerLost
<1>2. cacheCurrent' = cacheCurrent /\ workCurrent' = workCurrent
  BY <1>1, SameVersions
<1>3. CASE GetCluster
  <2>1. cacheMore \in More /\ workMore \in More
    BY DEF AddedInv, AddedOK
  <2>. QED  BY <1>2, <1>3, <2>1, MorePinned DEF WantedOK, GetCluster
<1>4. CASE UNCHANGED copies
  BY <1>2, <1>4 DEF WantedOK, copies
<1>. QED  BY <1>3, <1>4 DEF Reading, ClusterNotFound, CallFails, DescribeTaskInfo,
     GetNodePools, UpdateNodePools, UpgradeRefused, UpgradeCluster, UpgradeAnswerLost

LEMMA WantedStatus ==
  ASSUME IInv, AddedInv, WantedOK, SaveTask \/ SaveTaskFails \/ WriteStatus \/ WriteStatusFails
  PROVE  WantedOK'
<1>0. /\ more \in More /\ workMore \in More /\ cacheMore' = cacheMore
      /\ startCurrent \in BOOLEAN /\ (startCurrent => workCurrent)
  BY DEF AddedInv, AddedOK, IInv, TypeOK, WorkOK, SaveTask, SaveTaskFails, WriteStatus,
     WriteStatusFails
<1>1. Planned.wanted = more.wanted
  BY <1>0, KeepsWanted DEF Planned
<1>2. CASE SaveTask
  BY <1>0, <1>1, <1>2 DEF SaveTask, UpdateStatusWithRetry, WantedOK
<1>3. CASE WriteStatus
  BY <1>0, <1>1, <1>3 DEF WriteStatus, UpdateStatus, WantedOK
<1>4. CASE SaveTaskFails \/ WriteStatusFails
  <2>1. workCurrent' => workCurrent
    BY <1>0, <1>4 DEF SaveTaskFails, WriteStatusFails, UpdateStatusFails
  <2>2. more'.wanted = more.wanted /\ workMore' = workMore
    BY <1>0, <1>1, <1>4 DEF SaveTaskFails, WriteStatusFails
  <2>3. cacheCurrent' => cacheCurrent
    BY <1>4 DEF SaveTaskFails, WriteStatusFails, UpdateStatusFails, NewToAll
  <2>. QED  BY <1>0, <2>1, <2>2, <2>3 DEF WantedOK
<1>. QED  BY <1>2, <1>3, <1>4

(* A copy that is still current is one of an object that did not change. *)
LEMMA StoreCopies ==
  ASSUME NEW new, Store(new)
  PROVE  cacheCurrent' => cacheCurrent /\ obj' = obj
<1>1. CASE new = obj
  BY <1>1 DEF Store
<1>2. CASE new # obj
  BY <1>2 DEF Store
<1>. QED  BY <1>1, <1>2

LEMMA FailedWork ==
  ASSUME NEW new, WriteFails(new, workCurrent)
  PROVE  workCurrent' => workCurrent /\ obj' = obj
<1>1. CASE UNCHANGED <<obj, workCurrent>>
  BY <1>1
<1>2. CASE Store(new) /\ workCurrent' = (workCurrent /\ new = obj)
  <2>1. CASE new = obj
    BY <1>2, <2>1 DEF Store
  <2>2. CASE new # obj
    BY <1>2, <2>2 DEF Store
  <2>. QED  BY <2>1, <2>2
<1>. QED  BY <1>1, <1>2 DEF WriteFails

LEMMA WantedSpec ==
  ASSUME IInv, AddedInv, WantedOK, WritesSpec
  PROVE  WantedOK'
<1>0. more \in More /\ cacheMore' = cacheMore /\ workCurrent \in BOOLEAN
  BY DEF AddedInv, AddedOK, IInv, TypeOK, WritesSpec
<1>1. obj' = obj => more' = more
  BY DEF WritesSpec
<1>2. (cacheCurrent' => cacheCurrent) /\ (cacheCurrent' => obj' = obj)
  <2>1. UNCHANGED <<obj, cacheCurrent>> \/ \E new : Store(new)
    BY DEF WritesSpec, UpdateSpec, UpdateSpecFails, WriteSucceeds, WriteFails,
       AddFinalizer, AddFinalizerFails, RemoveFinalizer, RemoveFinalizerFails
  <2>. QED  BY <2>1, StoreCopies
<1>3. CASE UpdateSpec
  BY <1>0, <1>1, <1>2, <1>3 DEF WritesSpec, Keep, UpdateSpec, WantedOK
<1>4. CASE UpdateSpecFails /\ ~UpdateSpec
  <2>1. workMore' = workMore
    BY <1>4 DEF WritesSpec, Keep, UpdateSpecFails
  <2>2. workCurrent' => workCurrent /\ obj' = obj
    BY <1>4, FailedWork DEF UpdateSpecFails
  <2>. QED  BY <1>0, <1>1, <1>2, <2>1, <2>2 DEF WantedOK
<1>5. CASE AddFinalizer \/ AddFinalizerFails \/ RemoveFinalizer \/ RemoveFinalizerFails
  <2>1. ~workCurrent'
    BY <1>5 DEF AddFinalizer, AddFinalizerFails, RemoveFinalizer, RemoveFinalizerFails,
       Finish, Idle
  <2>. QED  BY <1>0, <1>1, <1>2, <2>1 DEF WantedOK
<1>. QED  BY <1>3, <1>4, <1>5 DEF WritesSpec

LEMMA WantedWritesStatus ==
  ASSUME IInv, AddedInv, WantedOK, WritesStatus
  PROVE  WantedOK'
<1>0. /\ more \in More /\ cacheMore' = cacheMore
      /\ startCurrent \in BOOLEAN /\ (startCurrent => workCurrent)
  BY DEF AddedInv, AddedOK, IInv, TypeOK, WorkOK, WritesStatus
<1>1. more'.wanted = more.wanted
  BY <1>0, KeepsWanted DEF WritesStatus
<1>2. cacheCurrent' => cacheCurrent
  BY DEF WritesStatus, UpdatePhase, UpdatePhaseFails, RecordError, RecordErrorFails,
     WriteSucceeds, WriteFails, Store
<1>3. CASE UpdatePhase \/ RecordError
  <2>1. workMore' = more'
    BY <1>3 DEF WritesStatus, Keep, UpdatePhase, RecordError
  <2>. QED  BY <1>0, <1>1, <1>2, <2>1 DEF WantedOK
<1>4. CASE (UpdatePhaseFails \/ RecordErrorFails) /\ ~(UpdatePhase \/ RecordError)
  <2>1. workMore' = workMore \/ workMore' = more'
    BY <1>4 DEF WritesStatus, Keep, UpdatePhaseFails, RecordErrorFails
  <2>2. workCurrent' => workCurrent
    BY <1>0, <1>4 DEF UpdatePhaseFails, RecordErrorFails, WriteFails
  <2>. QED  BY <1>0, <1>1, <1>2, <2>1, <2>2 DEF WantedOK
<1>. QED  BY <1>3, <1>4 DEF WritesStatus

LEMMA WantedOther ==
  ASSUME IInv, AddedInv, WantedOK, Starts \/ WritesNothing
  PROVE  WantedOK'
<1>1. CASE Starts
  BY <1>1 DEF WantedOK, Starts, StartChange, StartRemove, TakeCached, storeVars
<1>2. CASE WritesNothing
  <2>1. UNCHANGED <<more, cacheMore, cacheCurrent>>
    BY <1>2 DEF WritesNothing, storeVars, NothingToDo, StartRemoveFails, CreateCluster,
       CreateClusterFails, ClusterIsRunning, ClusterIsNotRunning, DescribeFails, CreateCASecret,
       CreateCASecretFails, NothingToRecord, HasFinalizer, DescribeRemoved, DeleteCluster,
       RemoveFails
  <2>2. workCurrent' => workCurrent /\ pc' # "idle"
    BY <1>2 DEF WritesNothing, workerVars, GoTo, Return, Finish, Idle, NothingToDo, IInv,
       WorkOK, StartRemoveFails, CreateCluster, CreateClusterFails, ClusterIsRunning,
       ClusterIsNotRunning, DescribeFails, CreateCASecret, CreateCASecretFails,
       NothingToRecord, HasFinalizer, DescribeRemoved, DeleteCluster, RemoveFails
  <2>3. workMore' = IF pc' = "idle" THEN NoMore ELSE workMore
    BY <1>2 DEF WritesNothing, Keep
  <2>. QED  BY <2>1, <2>2, <2>3 DEF WantedOK
<1>. QED  BY <1>1, <1>2

LEMMA WantedOthers ==
  ASSUME WantedOK, Delivery \/ UserChange \/ CrashAndRestart \/ ClusterChanges
                   \/ Completion \/ Upgrade \/ UNCHANGED updateVars
  PROVE  WantedOK'
<1>1. CASE Delivery
  BY <1>1 DEF WantedOK, Delivery, Sync
<1>2. CASE UserChange
  BY <1>2 DEF WantedOK, UserChange, UserEdit, OthersWrite
<1>3. CASE CrashAndRestart
  BY <1>3 DEF WantedOK, CrashAndRestart, Crash, Idle
<1>4. CASE ClusterChanges
  BY <1>4 DEF WantedOK, ClusterChanges, copies, UserDelete, OthersWrite, ACK, ClusterRuns,
     ClusterGone, ClusterFails, DeletionFails, DeletedByOthers, Progress, storeVars, workerVars
<1>5. CASE Completion \/ Upgrade \/ UNCHANGED updateVars
  BY <1>5 DEF WantedOK, Completion, Upgrade, updateVars, copies, vars, storeVars, workerVars
<1>. QED  BY <1>1, <1>2, <1>3, <1>4, <1>5

LEMMA WantedStep ==
  ASSUME IInv, UInv, WantedOK, [UpdateNext]_updateVars
  PROVE  WantedOK'
<1>0. AddedInv
  BY SplitInv
<1>1. CASE CheckAndUpdate
  BY <1>0, <1>1, WantedReading, WantedStatus DEF CheckAndUpdate, Reading
<1>2. CASE OtherWork
  BY <1>0, <1>2, WantedSpec, WantedWritesStatus, WantedOther DEF OtherWork
<1>3. CASE ~(CheckAndUpdate \/ OtherWork)
  BY <1>3, WantedOthers DEF UpdateNext, UpdateWorker
<1>. QED  BY <1>1, <1>2, <1>3

LEMMA PassUnchanged ==
  ASSUME PassOK, mishaps' = 0 => mishaps = 0,
         (step = "cluster" /\ step' = step) \/ UNCHANGED <<checkVars, work, workMore>>
  PROVE  PassOK'
  BY DEF PassOK, NoTaskHeld, checkVars

LEMMA PassLeaves == Leave => PassOK'
  BY DEF Leave, PassOK

(* A status that is not that of an updated cluster. *)
LEMMA PassWrites ==
  ASSUME NEW p, p # Active \/ work.phase # Updating, NEW f, NEW t, NEW text, NEW again,
         Write(p, f, t, text, again)
  PROVE  PassOK'
  BY DEF Write, PassOK, vars, workerVars

LEMMA PassEnqueues ==
  ASSUME NEW text, EnqueueUpdate(text)
  PROVE  PassOK'
  BY PassLeaves, PassWrites DEF EnqueueUpdate, Active, Updating

LEMMA PassAwaits ==
  ASSUME NEW s, AwaitRunning(s), mishaps' = 0 => workMore'.task = NoTask
  PROVE  PassOK'
<1>1. CASE Proceed("nodePools")
  BY <1>1 DEF Proceed, PassOK, NoTaskHeld
<1>. QED  BY <1>1, PassEnqueues, PassWrites DEF AwaitRunning, Active, Updating

LEMMA PassReading ==
  ASSUME IInv, UInv, PassOK, [UpdateNext]_updateVars, Reading
  PROVE  PassOK'
<1>0. /\ AddedInv /\ pc = "checkAndUpdate" /\ (mishaps' = 0 => mishaps = 0)
      /\ mishaps \in Nat /\ workMore'.task = workMore.task
  BY SplitInv, ReadingCopies, MishapsGrow DEF AddedInv, AddedOK
<1>1. CASE GetCluster
  <2>. PICK state \in Answers :
         IF workMore.task # NoTask THEN Proceed("task") ELSE AwaitRunning(state)
    BY <1>1 DEF GetCluster
  <2>1. CASE workMore.task # NoTask
    BY <2>1 DEF Proceed, PassOK
  <2>. QED  BY <1>0, <2>1, PassAwaits
<1>2. CASE ClusterNotFound \/ CallFails \/ UpgradeRefused
  BY <1>2, PassLeaves DEF ClusterNotFound, CallFails, UpgradeRefused, Stop
<1>3. CASE DescribeTaskInfo
  <2>1. CASE Mishap /\ AwaitRunning(seen.state)
    <3>1. mishaps' # 0
      BY <1>0, <2>1 DEF Mishap
    <3>. QED  BY <2>1, <3>1, PassAwaits
  <2>2. CASE Write(work.phase, work.failure, NoTask, workMore.message, FALSE)
    BY <2>2, PassWrites DEF Active, Updating
  <2>. QED  BY <1>3, <2>1, <2>2, PassLeaves, PassEnqueues DEF DescribeTaskInfo, Stop
<1>4. CASE GetNodePools
  <2>1. step = "nodePools" /\ UNCHANGED <<copies, mishaps>> /\ Remember(seen)
    BY <1>4 DEF GetNodePools, Check
  <2>2. ASSUME workMore.wanted = seen.version, Proceed("pools")
        PROVE  PassOK'
    BY <2>1, <2>2 DEF Proceed, Remember, PassOK, NoTaskHeld, copies
  <2>3. ASSUME Proceed("upgrade")
        PROVE  PassOK'
    BY <2>1, <2>3 DEF Proceed, PassOK, NoTaskHeld, copies
  <2>. QED  BY <1>4, <2>2, <2>3, PassEnqueues DEF GetNodePools
<1>5. CASE UpdateNodePools
  <2>1. step = "pools" /\ UNCHANGED <<copies, mishaps>> /\ Remember(seen)
    BY <1>5 DEF UpdateNodePools, Check
  <2>2. ASSUME Write(Active, work.failure, workMore.task, "", FALSE)
        PROVE  PassOK'
    BY <2>1, <2>2 DEF Write, Remember, PassOK, NoTaskHeld, copies
  <2>. QED  BY <1>5, <2>2, PassLeaves, PassEnqueues DEF UpdateNodePools, Stop
<1>. QED  BY <1>1, <1>2, <1>3, <1>4, <1>5 DEF Reading

LEMMA PassStep ==
  ASSUME IInv, UInv, PassOK, [UpdateNext]_updateVars
  PROVE  PassOK'
<1>0. AddedInv /\ (mishaps' = 0 => mishaps = 0)
  BY SplitInv, MishapsGrow
<1>1. CASE Reading
  BY <1>1, PassReading
<1>2. CASE UpgradeCluster \/ UpgradeAnswerLost
  BY <1>2, PassLeaves DEF UpgradeCluster, UpgradeAnswerLost, PassOK
<1>3. CASE SaveTask \/ SaveTaskFails \/ WriteStatus \/ WriteStatusFails \/ CrashAndRestart
  BY <1>3, PassLeaves DEF SaveTask, SaveTaskFails, WriteStatus, WriteStatusFails,
     CrashAndRestart
<1>4. CASE OtherWork
  <2>1. step = "cluster" /\ step' = step
    BY <1>0, <1>4, OtherLabels DEF AddedInv, PlanOK, OtherWork, checkVars
  <2>. QED  BY <1>0, <2>1, PassUnchanged
<1>5. CASE Delivery \/ UserChange \/ ClusterChanges
  <2>1. UNCHANGED <<checkVars, work, workMore>>
    BY <1>5 DEF Delivery, Sync, UserChange, UserEdit, OthersWrite, ClusterChanges, copies,
       UserDelete, ACK, ClusterRuns, ClusterGone, ClusterFails, DeletionFails,
       DeletedByOthers, Progress, workerVars
  <2>. QED  BY <1>0, <2>1, PassUnchanged
<1>6. CASE Completion \/ Upgrade \/ UNCHANGED updateVars
  <2>1. UNCHANGED <<checkVars, work, workMore>>
    BY <1>6 DEF Completion, Upgrade, updateVars, copies, vars, workerVars
  <2>. QED  BY <1>0, <2>1, PassUnchanged
<1>. QED  BY <1>1, <1>2, <1>3, <1>4, <1>5, <1>6
          DEF UpdateNext, UpdateWorker, CheckAndUpdate, Reading

LEMMA PassInit == UpdateInit => PassInv
  BY DEF UpdateInit, Init, PassInv, WantedOK, PassOK

(* What the handler knows when it calls a cluster updated was true of the    *)
(* version of the object it writes to.                                       *)
THEOREM PassInvariance == UpdateSpecification => []UpdateInv
<1>1. PassInv /\ IInv /\ UInv /\ [UpdateNext]_updateVars => PassInv'
  BY WantedStep, PassStep DEF PassInv
<1>2. PassInv /\ IInv /\ UInv => UpdateInv
  BY DEF UpdateInv
<1>. QED  BY <1>1, <1>2, PassInit, AddedInvariance, UpdateKeepsPromise, PTL
          DEF UpdateSpecification

-----------------------------------------------------------------------------
(* The writes that make an updated cluster active again. *)

(* Nothing but the status write of checkAndUpdate does that. *)
Activated == obj.phase = Updating /\ obj'.phase = Active

LEMMA NotBySpec ==
  ASSUME IInv, WritesSpec
  PROVE  obj'.phase = obj.phase
<1>0. /\ obj \in Config /\ work.id \in Clusters \cup {NoID}
  BY ConfigFields DEF IInv, TypeOK
<1>1. SpecOf(work) \in Config /\ SpecOf(work).phase = obj.phase
  BY <1>0, WithIDFields DEF SpecOf
<1>2. Guarded.phase = obj.phase /\ Removed(obj).phase = obj.phase
  BY <1>0, <1>1, WithFinalizerFields, RemovedFields DEF Guarded
<1>3. obj' \in {obj, SpecOf(work), Guarded, Removed(obj)}
  BY DEF WritesSpec, UpdateSpec, UpdateSpecFails, WriteSucceeds, WriteFails, Store,
     AddFinalizer, AddFinalizerFails, RemoveFinalizer, RemoveFinalizerFails
<1>. QED  BY <1>1, <1>2, <1>3

LEMMA NotByStatus ==
  ASSUME IInv, WritesStatus
  PROVE  ~Activated
<1>. SUFFICES ASSUME Activated PROVE FALSE
  OBVIOUS
<1>0. obj # obj' /\ obj.phase = Updating /\ Active # Updating /\ Updating \in Settled
  BY DEF Activated, Active, Updating, Settled
<1>1. CanWrite
  BY <1>0 DEF WritesStatus, UpdatePhase, UpdatePhaseFails, RecordError, RecordErrorFails,
     WriteSucceeds, WriteFails
<1>2. work.phase = Updating
  BY <1>0, <1>1 DEF CanWrite, IInv, WorkOK, SameBut
<1>3. ~(UpdatePhase \/ UpdatePhaseFails)
  BY <1>0, <1>2 DEF IInv, LabelOK, UpdatePhase, UpdatePhaseFails
<1>4. obj' = Recorded /\ err # "conflict"
  BY <1>0, <1>3 DEF WritesStatus, RecordError, RecordErrorFails, WriteSucceeds, Store
<1>5. Recorded.phase = Updating
  <2>1. obj \in Config
    BY DEF IInv, TypeOK
  <2>. QED  BY <1>0, <1>2, <2>1 DEF Recorded, WithStatus, Config
<1>. QED  BY <1>0, <1>4, <1>5 DEF Activated

LEMMA NotByOthers ==
  ASSUME IInv, Delivery \/ UserChange \/ CrashAndRestart \/ ClusterChanges \/ Completion \/ Upgrade
  PROVE  obj'.phase = obj.phase
<1>1. obj \in Config /\ Deleting(obj).phase = obj.phase /\ Removed(obj).phase = obj.phase
  BY DeletingFields, RemovedFields DEF IInv, TypeOK
<1>2. obj' \in {obj, Deleting(obj), Removed(obj)}
  BY DEF Delivery, Sync, UserChange, UserEdit, OthersWrite, CrashAndRestart, Crash,
     ClusterChanges, UserDelete, ACK, ClusterRuns, ClusterGone, ClusterFails,
     DeletionFails, DeletedByOthers, Progress, storeVars, Completion, Upgrade, vars
<1>. QED  BY <1>1, <1>2

LEMMA OnlyByWrite ==
  ASSUME IInv, [UpdateNext]_updateVars, Activated
  PROVE  /\ Check("write") /\ CanWrite /\ plan.phase = Active /\ work.phase = Updating
         /\ UNCHANGED more \/ more' = Planned
<1>0. obj' # obj /\ obj.phase = Updating /\ Active # Updating /\ obj \in Config
  BY DEF Activated, Active, Updating, IInv, TypeOK
<1>1. ~Reading
  BY <1>0, ReadingVersions DEF CheckOnly, vars, storeVars
<1>2. ~(UpgradeCluster \/ UpgradeAnswerLost)
  BY <1>0 DEF UpgradeCluster, UpgradeAnswerLost, CheckOnly, vars, storeVars
<1>3. ~OtherWork
  <2>1. ~(Starts \/ WritesNothing)
    BY <1>0 DEF Starts, WritesNothing, StartChange, StartRemove, TakeCached, storeVars,
       NothingToDo, StartRemoveFails, CreateCluster, CreateClusterFails, ClusterIsRunning,
       ClusterIsNotRunning, DescribeFails, CreateCASecret, CreateCASecretFails,
       NothingToRecord, HasFinalizer, DescribeRemoved, DeleteCluster, RemoveFails
  <2>2. ~WritesSpec
    BY <1>0, NotBySpec DEF Activated
  <2>. QED  BY <2>1, <2>2, NotByStatus DEF OtherWork
<1>4. ~(Delivery \/ UserChange \/ CrashAndRestart \/ ClusterChanges \/ Completion \/ Upgrade)
  BY <1>0, NotByOthers DEF Activated
<1>5. obj' # StatusOf(work) \/ work.phase # Updating
  BY <1>0 DEF Activated, StatusOf, WithStatus, Config
<1>6. ~(SaveTask \/ SaveTaskFails)
  BY <1>0, <1>5 DEF SaveTask, SaveTaskFails, UpdateStatusWithRetry, RetriedStatus
<1>7. WriteStatus \/ WriteStatusFails
  BY <1>0, <1>1, <1>2, <1>3, <1>4, <1>6
     DEF UpdateNext, UpdateWorker, CheckAndUpdate, Reading, updateVars, vars, storeVars
<1>8. Check("write") /\ CanWrite /\ obj' = WithStatus(obj, plan.phase, plan.failure)
  BY <1>0, <1>7 DEF WriteStatus, WriteStatusFails, UpdateStatus
<1>9. plan.phase = Active
  BY <1>0, <1>8 DEF Activated, WithStatus, Config
<1>10. work.phase = Updating
  BY <1>0, <1>8 DEF CanWrite, IInv, WorkOK, SameBut
<1>. QED  BY <1>7, <1>8, <1>9, <1>10 DEF WriteStatus, WriteStatusFails

LEMMA ActiveStep ==
  ASSUME UpdateInv, [UpdateNext]_updateVars, Activated
  PROVE  /\ more.wanted \in {NoVersion, seen.version}
         /\ mishaps = 0 /\ lost = {} => \A t \in Tasks : tasks[t] # "running"
<1>1. Check("write") /\ CanWrite /\ plan.phase = Active /\ work.phase = Updating
  BY OnlyByWrite DEF UpdateInv
<1>2. workMore.wanted = seen.version /\ NoTaskHeld
  BY <1>1 DEF UpdateInv, PassInv, PassOK, Check
<1>3. more.wanted \in {NoVersion, workMore.wanted} /\ workMore.task = more.task
  BY <1>1 DEF CanWrite, UpdateInv, PassInv, WantedOK, UInv, CopiesOK
<1>4. ASSUME mishaps = 0, lost = {}, NEW t \in Tasks PROVE tasks[t] # "running"
  <2>1. more.task = NoTask /\ t # NoTask
    BY <1>2, <1>3, <1>4 DEF NoTaskHeld, Tasks, NoTask
  <2>2. ~Check("save")
    BY <1>1 DEF Check
  <2>. QED  BY <1>4, <2>1, <2>2 DEF UpdateInv, UInv, NoTaskForgotten
<1>. QED  BY <1>2, <1>3, <1>4

(* checkAndUpdate makes an updated cluster active only when it was seen to   *)
(* run the version the object asks for at that moment, not one an older copy *)
(* of it asked for, and, as long as no answer or call failed, while no       *)
(* upgrade is under way: whatever is edited, written, delayed or repeated.   *)
THEOREM ActiveIsDone == UpdateSpecification => ActiveMeansDone
<1>1. UpdateInv /\ [UpdateNext]_updateVars =>
        [obj.phase = Updating /\ obj'.phase = Active =>
           /\ more.wanted \in {NoVersion, seen.version}
           /\ mishaps = 0 /\ lost = {} => \A t \in Tasks : tasks[t] # "running"]_updateVars
  BY ActiveStep DEF Activated
<1>. QED  BY <1>1, PassInvariance, PTL DEF UpdateSpecification, ActiveMeansDone

=============================================================================
