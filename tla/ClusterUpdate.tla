----------------------------- MODULE ClusterUpdate -----------------------------
(***************************************************************************)
(* What checkAndUpdate does to a cluster that runs: it follows the upgrade *)
(* task it has started, asks for the wanted version, has the node pools    *)
(* changed, and says in the status what it is waiting for.                 *)
(*                                                                         *)
(* The module adds to ClusterLifecycle the fields of the object this needs *)
(* and the state of the cluster at ACK.  Every action is one of that       *)
(* module's, with what it does to the new variables, or leaves all of      *)
(* that module's variables alone: what holds there holds here.             *)
(***************************************************************************)
EXTENDS ClusterLifecycle

CONSTANTS MaxVersion,    \* the versions of Kubernetes are 1..MaxVersion
          MaxTasks,      \* the upgrade tasks are 1..MaxTasks
          MaxMishaps     \* bound on what goes wrong at ACK

NoVersion == 0           \* Spec.KubernetesVersion = ""
NoTask    == 0           \* Status.UpgradeTaskID = ""
Versions  == 1..MaxVersion
Tasks     == 1..MaxTasks
PoolSpecs == 1..2        \* what the node pools can be asked to be

(* There is a task for every upgrade that can succeed or fail, so the bound  *)
(* on tasks refuses none.                                                    *)
ASSUME UpdateBoundsAssumption ==
    /\ MaxVersion \in Nat \ {0} /\ MaxMishaps \in Nat /\ MaxTasks \in Nat
    /\ MaxTasks + 1 >= MaxVersion + MaxMishaps

VARIABLES
    more,        \* the rest of the stored object: what is wanted, task, message
    cacheMore,   \* ... of the informer's copy
    workMore,    \* ... of the worker's copy
    given,       \* the worker still has the object in the cache itself
    step,        \* the next call of checkAndUpdate
    seen,        \* what GetCluster answered
    plan,        \* the status to be written
    version,     \* ACK: the version the cluster runs
    tasks,       \* ACK: the upgrade tasks
    goal,        \* ACK: the version the latest task upgrades to
    busy,        \* ACK: some node pool is changing
    pools,       \* ACK: what the node pools are, or are changing to
    lost,        \* history: tasks a failed call or a crash kept from the status
    mishaps      \* how much of MaxMishaps is used up

copies     == <<more, cacheMore, workMore, given>>
checkVars  == <<step, seen, plan>>
ackVars    == <<version, tasks, goal, busy, pools>>
updateVars == <<vars, copies, checkVars, ackVars, lost, mishaps>>

Messages == {"", "upgrading", "waiting", "pools"}
More     == [wanted : Versions \cup {NoVersion}, pools : PoolSpecs,
             task : Tasks \cup {NoTask}, message : Messages]
NoMore   == [wanted |-> NoVersion, pools |-> 1, task |-> NoTask, message |-> ""]
Answers  == {"", "running", "upgrading", "creating", "failed", "deleting"}
Steps    == {"cluster", "task", "nodePools", "pools", "upgrade", "save", "write"}
(* `again' marks a write that changes the message alone, after which         *)
(* enqueueUpdate asks for another reconcile itself.                          *)
Plans    == [phase : Settled, failure : Failures, task : Tasks \cup {NoTask},
             message : Messages, again : BOOLEAN]
NoPlan   == [phase |-> Active, failure |-> NoError, task |-> NoTask, message |-> "",
             again |-> FALSE]
Seen     == [state : Answers, version : Versions]
NotSeen  == [state |-> "", version |-> 1]

UpdateTypeOK ==
    /\ TypeOK
    /\ more \in More /\ cacheMore \in More /\ workMore \in More /\ given \in BOOLEAN
    /\ step \in Steps
    /\ seen \in Seen
    /\ plan \in Plans
    /\ version \in Versions /\ goal \in Versions
    /\ tasks \in [Tasks -> {"absent", "running", "success", "fail"}]
    /\ busy \in BOOLEAN /\ pools \in PoolSpecs
    /\ lost \subseteq Tasks /\ mishaps \in 0..MaxMishaps

UpdateInit ==
    /\ Init
    /\ \E v \in Versions \cup {NoVersion} : more = [NoMore EXCEPT !.wanted = v]
    /\ cacheMore = more /\ workMore = NoMore /\ given = FALSE
    /\ step = "cluster" /\ plan = NoPlan /\ seen = NotSeen
    /\ version \in Versions /\ goal = version
    /\ tasks = [t \in Tasks |-> "absent"]
    /\ busy = FALSE /\ pools \in PoolSpecs
    /\ lost = {} /\ mishaps = 0

Mishap == mishaps < MaxMishaps /\ mishaps' = mishaps + 1

-----------------------------------------------------------------------------
(* The steps of the rest of the life *)

(* What the worker has in its hands is gone with the end of a reconcile. *)
Keep(m) == workMore' = IF pc' = "idle" THEN NoMore ELSE m

(* A handler is given the cached object, or a copy of it. *)
Starts ==
    /\ StartChange \/ StartRemove
    /\ workMore' = cacheMore /\ given' \in SharedCache
    /\ UNCHANGED <<more, cacheMore>>

(* The spec is written with the wanted version of the worker's copy ... *)
WritesSpec ==
    /\ \/ UpdateSpec \/ UpdateSpecFails \/ AddFinalizer \/ AddFinalizerFails
       \/ RemoveFinalizer \/ RemoveFinalizerFails
    /\ more' = IF obj' # obj
               THEN [more EXCEPT !.wanted = workMore.wanted, !.pools = workMore.pools]
               ELSE more
    /\ Keep(IF UpdateSpec THEN more' ELSE workMore)
    /\ UNCHANGED <<cacheMore, given>>

(* ... and the status with its task and message; UpdatePhase clears the      *)
(* message when it enters the active phase (those of the phases before it    *)
(* are left out).                                                            *)
WritesStatus ==
    /\ UpdatePhase \/ UpdatePhaseFails \/ RecordError \/ RecordErrorFails
    /\ more' = IF obj' # obj
               THEN [more EXCEPT !.task = workMore.task, !.message = workMore.message]
               ELSE more
    /\ Keep(IF UpdatePhase \/ RecordError THEN more' ELSE workMore)
    /\ UNCHANGED <<cacheMore, given>>

WritesNothing ==
    /\ \/ NothingToDo \/ StartRemoveFails
       \/ CreateCluster \/ CreateClusterFails
       \/ ClusterIsRunning \/ ClusterIsNotRunning \/ DescribeFails
       \/ CreateCASecret \/ CreateCASecretFails
       \/ NothingToRecord \/ HasFinalizer
       \/ DescribeRemoved \/ DeleteCluster \/ RemoveFails
    /\ Keep(workMore)
    /\ UNCHANGED <<more, cacheMore, given>>

OtherWork ==
    /\ Starts \/ WritesSpec \/ WritesStatus \/ WritesNothing
    /\ UNCHANGED <<checkVars, ackVars, lost, mishaps>>

-----------------------------------------------------------------------------
(* checkAndUpdate *)

Check(s) == pc = "checkAndUpdate" /\ step = s

(* The next call is `s'; or checkAndUpdate returns. *)
Proceed(s) == step' = s /\ UNCHANGED <<vars, plan>>
Leave == step' = "cluster" /\ plan' = NoPlan
Stop(e) == CheckOnly /\ err' = e /\ queued' = queued /\ faults' = faults /\ Leave

(* What GetCluster answered is known until checkAndUpdate returns. *)
Remember(s) == seen' = IF step' = "cluster" THEN NotSeen ELSE s

(* UpdateStatus with these fields in a copy of the worker's object. *)
Write(phase, failure, task, message, again) ==
    /\ step' = "write"
    /\ plan' = [phase |-> phase, failure |-> failure, task |-> task,
                message |-> message, again |-> again]
    /\ UNCHANGED vars

(* Faulty variant: the key is left to the watch in every case. *)
EnqueueUpdateByWatch(message) ==
    IF work.phase = Updating /\ workMore.message = message
    THEN Stop(NoError)
    ELSE Write(Updating, work.failure, workMore.task, message, FALSE)

(* enqueueUpdate: in the updating phase the key comes back after a while; a  *)
(* change to that phase brings it back through the watch.                    *)
EnqueueUpdate(message) ==
    IF work.phase = Updating /\ workMore.message = message
    THEN CheckOnly /\ err' = NoError /\ queued' = TRUE /\ faults' = faults /\ Leave
    ELSE Write(Updating, work.failure, workMore.task, message, work.phase = Updating)

(* Faulty variant: ACK's word for the state is taken for the phase. *)
AwaitRunningAs(state) ==
    \/ state = "running" /\ Proceed("nodePools")
    \/ state # "running" /\ Write(state, work.failure, workMore.task, "waiting", FALSE)

(* A cluster has to be running before anything is done to it. *)
AwaitRunning(state) ==
    \/ state = "running" /\ Proceed("nodePools")
    \/ state \notin {"", "running"} /\ EnqueueUpdate("waiting")
    \/ state = "" /\ Write(Updating, "state", workMore.task, workMore.message, FALSE)

(* SyncConfigSpecClusterFieldsWithUpstream takes an unset version for the    *)
(* one the cluster runs: in the worker's object, and with a shared cache in  *)
(* the cached one.                                                           *)
Pinned(m) == IF m.wanted = NoVersion THEN [m EXCEPT !.wanted = version] ELSE m

(* A cluster that is being upgraded may be called running or not; a mishap   *)
(* is an answer without a state.                                             *)
ClusterAnswers(state) ==
    \/ state = cloud[work.id] /\ UNCHANGED mishaps
    \/ /\ state = "upgrading" /\ cloud[work.id] = "running"
       /\ \E t \in Tasks : tasks[t] = "running"
       /\ UNCHANGED mishaps
    \/ state = "" /\ Mishap

GetCluster ==
    /\ Check("cluster")
    /\ \E state \in Answers :
         /\ ClusterAnswers(state)
         /\ IF workMore.task # NoTask THEN Proceed("task") ELSE AwaitRunning(state)
         /\ Remember([state |-> state, version |-> version])
    /\ workMore' = Pinned(workMore)
    /\ cacheMore' = IF given THEN Pinned(cacheMore) ELSE cacheMore
    /\ given' = FALSE
    /\ UNCHANGED <<more, ackVars, lost>>

ClusterNotFound ==
    /\ Check("cluster") /\ cloud[work.id] = "gone"
    /\ Stop("cloud") /\ Remember(seen)
    /\ UNCHANGED <<copies, ackVars, lost, mishaps>>

(* A call to ACK that changes nothing there fails. *)
CallFails ==
    /\ \E s \in {"cluster", "task", "nodePools", "pools", "upgrade"} : Check(s)
    /\ CheckOnly /\ Fault /\ err' = "cloud" /\ queued' = queued
    /\ Leave /\ Remember(seen)
    /\ UNCHANGED <<copies, ackVars, lost, mishaps>>

(* Faulty variant: a task that still runs is passed over, too. *)
PassTaskOver ==
    /\ Check("task")
    /\ \/ tasks[workMore.task] = "running" /\ AwaitRunning(seen.state) /\ UNCHANGED mishaps
       \/ tasks[workMore.task] = "fail" /\ Stop("state") /\ UNCHANGED mishaps
       \/ /\ tasks[workMore.task] = "success"
          /\ Write(work.phase, work.failure, NoTask, workMore.message, FALSE)
          /\ UNCHANGED mishaps
    /\ Remember(seen)
    /\ UNCHANGED <<copies, ackVars, lost>>

(* Only a task that succeeded is cleared: one that failed stays, and so does *)
(* its error.  An answer without a known state is passed over.               *)
DescribeTaskInfo ==
    /\ Check("task")
    /\ \/ /\ tasks[workMore.task] = "running" /\ EnqueueUpdate("upgrading")
          /\ UNCHANGED mishaps
       \/ tasks[workMore.task] = "fail" /\ Stop("state") /\ UNCHANGED mishaps
       \/ /\ tasks[workMore.task] = "success"
          /\ Write(work.phase, work.failure, NoTask, workMore.message, FALSE)
          /\ UNCHANGED mishaps
       \/ Mishap /\ AwaitRunning(seen.state)
    /\ Remember(seen)
    /\ UNCHANGED <<copies, ackVars, lost>>

(* GetNodePools: no pool may be changing.  An upgrade begins with the        *)
(* updating phase, and is asked for by the reconcile after that.             *)
GetNodePools ==
    /\ Check("nodePools")
    /\ IF busy THEN EnqueueUpdate("waiting")
       ELSE IF workMore.wanted = seen.version THEN Proceed("pools")
       ELSE IF work.phase # Updating THEN EnqueueUpdate("upgrading")
       ELSE Proceed("upgrade")
    /\ Remember(seen)
    /\ UNCHANGED <<copies, ackVars, lost, mishaps>>

(* updateUpstreamClusterState.  NodePools models what updateNodePools does;  *)
(* here a pass of it in the updating phase sets all the pools changing.      *)
UpdateNodePools ==
    /\ Check("pools")
    /\ \/ /\ workMore.pools = pools /\ UNCHANGED <<busy, pools>>
          /\ IF work.phase = Active THEN Stop(NoError)
             ELSE Write(Active, work.failure, workMore.task, "", FALSE)
       \/ /\ workMore.pools # pools
          /\ IF work.phase # Updating THEN UNCHANGED <<busy, pools>>
             ELSE busy' = TRUE /\ pools' = workMore.pools
          /\ EnqueueUpdate("pools")
    /\ Remember(seen)
    /\ UNCHANGED <<copies, version, tasks, goal, lost, mishaps>>

(* ACK takes on one upgrade at a time, to a later version. *)
AcceptUpgrade(t) ==
    /\ cloud[work.id] = "running"
    /\ workMore.wanted > version
    /\ \A u \in Tasks : tasks[u] # "running" /\ (u < t => tasks[u] # "absent")
    /\ tasks[t] = "absent"
    /\ tasks' = [tasks EXCEPT ![t] = "running"]
    /\ goal' = workMore.wanted

UpgradeCluster ==
    /\ Check("upgrade")
    /\ \E t \in Tasks :
         /\ AcceptUpgrade(t)
         /\ plan' = [phase |-> work.phase, failure |-> work.failure, task |-> t,
                     message |-> "upgrading", again |-> FALSE]
    /\ step' = "save"
    /\ UNCHANGED <<vars, copies, seen, version, busy, pools, lost, mishaps>>

UpgradeRefused ==
    /\ Check("upgrade")
    /\ \/ cloud[work.id] # "running" \/ workMore.wanted <= version
       \/ \E t \in Tasks : tasks[t] = "running"
    /\ Stop("cloud") /\ Remember(seen)
    /\ UNCHANGED <<copies, ackVars, lost, mishaps>>

(* The answer, with the id of the task in it, does not arrive. *)
UpgradeAnswerLost ==
    /\ Check("upgrade")
    /\ \E t \in Tasks : AcceptUpgrade(t) /\ lost' = lost \cup {t}
    /\ CheckOnly /\ Fault /\ err' = "cloud" /\ queued' = queued
    /\ Leave /\ Remember(seen)
    /\ UNCHANGED <<copies, version, busy, pools, mishaps>>

(* The stored version is new to every copy. *)
NewToAll == ~cacheCurrent' /\ ~workCurrent' /\ ~startCurrent'

Planned == [more EXCEPT !.task = plan.task, !.message = plan.message]

(* Faulty variant: the task is written as any other status. *)
SaveTaskOnce ==
    /\ Check("save")
    /\ IF CanWrite
       THEN UpdateStatusWithRetry /\ more' = Planned /\ workMore' = more'
       ELSE UpdateStatusFails /\ UNCHANGED <<more, workMore, faults>>
    /\ Leave /\ Remember(seen)
    /\ UNCHANGED <<cacheMore, given, ackVars, lost, mishaps>>

(* updateStatus: no other write can keep the task from the status. *)
SaveTask ==
    /\ Check("save")
    /\ UpdateStatusWithRetry
    /\ more' = Planned /\ workMore' = more'
    /\ Leave /\ Remember(seen)
    /\ UNCHANGED <<cacheMore, given, ackVars, lost, mishaps>>

SaveTaskFails ==
    /\ Check("save")
    /\ ~obj.exists \/ Fault
    /\ UpdateStatusFails
    /\ \/ /\ obj' = obj /\ cacheCurrent' = cacheCurrent /\ UNCHANGED more
          /\ lost' = lost \cup {plan.task}
       \/ /\ RetriedStatus /\ NewToAll
          /\ more' = Planned /\ UNCHANGED lost
    /\ Leave /\ Remember(seen)
    /\ UNCHANGED <<cacheMore, workMore, given, ackVars, mishaps>>

(* Faulty variant: the status is put over whatever is stored. *)
WriteStatusOver ==
    /\ Check("write") /\ obj.exists
    /\ obj' = WithStatus(obj, plan.phase, plan.failure) /\ work' = obj'
    /\ workCurrent' = TRUE /\ cacheCurrent' = FALSE /\ startCurrent' = FALSE
    /\ queued' = (queued \/ plan.again)
    /\ more' = Planned /\ workMore' = more'
    /\ pc' = "record" /\ Leave /\ Remember(seen)
    /\ UNCHANGED <<cache, aliased, err, cloudVars, dropped, faults, edits,
                   cacheMore, given, ackVars, lost, mishaps>>

(* UpdateStatus of the planned status.  After a change of the message alone  *)
(* enqueueUpdate goes on with the object it was given.                       *)
WriteStatus ==
    /\ Check("write")
    /\ UpdateStatus
    /\ obj' = WithStatus(obj, plan.phase, plan.failure)
    /\ workCurrent' = ~plan.again /\ queued' = (queued \/ plan.again)
    /\ more' = Planned
    /\ workMore' = IF plan.again THEN [workMore EXCEPT !.message = plan.message] ELSE more'
    /\ Leave /\ Remember(seen)
    /\ UNCHANGED <<cacheMore, given, ackVars, lost, mishaps>>

WriteStatusFails ==
    /\ Check("write")
    /\ UpdateStatusFails
    /\ \/ obj' = obj /\ cacheCurrent' = cacheCurrent /\ UNCHANGED more
       \/ /\ CanWrite /\ NewToAll
          /\ obj' = WithStatus(obj, plan.phase, plan.failure) /\ more' = Planned
    /\ Leave /\ Remember(seen)
    /\ UNCHANGED <<cacheMore, workMore, given, ackVars, lost, mishaps>>

CheckAndUpdate ==
    \/ GetCluster \/ ClusterNotFound \/ CallFails \/ DescribeTaskInfo
    \/ GetNodePools \/ UpdateNodePools
    \/ UpgradeCluster \/ UpgradeRefused \/ UpgradeAnswerLost
    \/ SaveTask \/ SaveTaskFails \/ WriteStatus \/ WriteStatusFails

-----------------------------------------------------------------------------
(* Everybody else *)

Delivery ==
    /\ Sync
    /\ cacheMore' = more /\ given' = FALSE
    /\ UNCHANGED <<more, workMore, checkVars, ackVars, lost, mishaps>>

(* The user asks for another version or for other node pools. *)
UserChange ==
    /\ UserEdit
    /\ \E v \in Versions \cup {NoVersion}, p \in PoolSpecs :
         more' = [more EXCEPT !.wanted = v, !.pools = p]
    /\ UNCHANGED <<cacheMore, workMore, given, checkVars, ackVars, lost, mishaps>>

CrashAndRestart ==
    /\ Crash
    /\ cacheMore' = more /\ workMore' = NoMore /\ given' = FALSE
    /\ Leave /\ Remember(seen)
    /\ lost' = lost \cup (IF Check("save") THEN {plan.task} ELSE {})
    /\ UNCHANGED <<more, ackVars, mishaps>>

ClusterChanges ==
    /\ UserDelete \/ ACK
       \/ \E id \in Clusters : ClusterFails(id) \/ DeletionFails(id) \/ DeletedByOthers(id)
    /\ UNCHANGED <<copies, checkVars, ackVars, lost, mishaps>>

TaskSucceeds(t) ==
    /\ tasks[t] = "running"
    /\ tasks' = [tasks EXCEPT ![t] = "success"]
    /\ version' = goal
    /\ UNCHANGED <<goal, busy, pools, mishaps>>

TaskFails(t) ==
    /\ tasks[t] = "running" /\ Mishap
    /\ tasks' = [tasks EXCEPT ![t] = "fail"]
    /\ UNCHANGED <<version, goal, busy, pools>>

NodePoolsSettle ==
    /\ busy /\ busy' = FALSE
    /\ UNCHANGED <<version, tasks, goal, pools, mishaps>>

(* Another client of the account upgrades the cluster. *)
UpgradedByOthers ==
    /\ \A t \in Tasks : tasks[t] # "running"
    /\ Mishap
    /\ \E v \in Versions : v > version /\ version' = v
    /\ UNCHANGED <<tasks, goal, busy, pools>>

(* ACK finishes what it has begun, one way or the other. *)
Completion ==
    /\ NodePoolsSettle \/ \E t \in Tasks : TaskSucceeds(t) \/ TaskFails(t)
    /\ UNCHANGED <<vars, copies, checkVars, lost>>

Upgrade ==
    /\ UpgradedByOthers
    /\ UNCHANGED <<vars, copies, checkVars, lost>>

UpdateWorker == OtherWork \/ CheckAndUpdate

UpdateNext ==
    \/ UpdateWorker \/ Delivery \/ UserChange \/ CrashAndRestart
    \/ ClusterChanges \/ Completion \/ Upgrade

UpdateSpecification == UpdateInit /\ [][UpdateNext]_updateVars

(* As in ClusterLifecycle; and ACK comes to an end with every task. *)
UpdateFairness ==
    /\ WF_updateVars(UpdateWorker) /\ WF_updateVars(Delivery) /\ WF_updateVars(Completion)
    /\ WF_updateVars(ACK /\ ClusterChanges)

FairUpdate == UpdateSpecification /\ UpdateFairness

-----------------------------------------------------------------------------
(* Properties *)

(* updateStatus: a task ACK runs is in the stored status, or about to be     *)
(* put there; only a failed call or a crash between the two calls keeps it   *)
(* out, never the write of somebody else.                                    *)
NoTaskForgotten ==
    \A t \in Tasks : tasks[t] = "running" =>
        more.task = t \/ (Check("save") /\ plan.task = t) \/ t \in lost

(* checkAndUpdate calls an updated cluster active only when it was seen to   *)
(* run the version the object asks for at that moment, and, as long as no    *)
(* answer or call failed, no upgrade is under way.                           *)
ActiveMeansDone ==
    [][obj.phase = Updating /\ obj'.phase = Active =>
         /\ more.wanted \in {NoVersion, seen.version}
         /\ mishaps = 0 /\ lost = {} => \A t \in Tasks : tasks[t] # "running"]_updateVars

(* The cluster goes on running, and the user leaves it alone and asks for a  *)
(* version it has or can be upgraded to; no task in the status has failed.   *)
Undisturbed ==
    /\ obj.exists /\ ~obj.deleting /\ obj.phase \in Settled /\ ClusterState = "running"
    /\ more.wanted = NoVersion \/ more.wanted >= version
    /\ more.task # NoTask => tasks[more.task] # "fail"

Updated ==
    /\ obj.phase = Active
    /\ more.wanted \in {NoVersion, version} /\ more.task = NoTask /\ more.pools = pools

(* Then the object and the cluster agree in the end, whatever was lost on    *)
(* the way: a task nobody remembers, a stale copy, a failed reconcile.       *)
UpdateCompletes == <>[]Undisturbed => <>[]Updated

(* recordError writes an empty failure message when there is no error: so    *)
(* one that is out of date does not stay.                                    *)
FailureIsCleared == <>[]Undisturbed => <>[](obj.failure = NoError)

=============================================================================
