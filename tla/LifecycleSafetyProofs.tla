------------------------ MODULE LifecycleSafetyProofs ------------------------
(***************************************************************************)
(* IInv is an invariant of ClusterLifecycle, and the safety properties     *)
(* with it.                                                                *)
(***************************************************************************)
EXTENDS LifecycleProofs

(* The object `n' is a later version of `o'. *)
Evolves(o, n) ==
    /\ Rank(o.phase) <= Rank(n.phase)
    /\ n.imported = o.imported
    /\ n.exists => o.exists
    /\ o.deleting => n.deleting
    /\ o.finalizer => n.finalizer
    /\ o.id # NoID => n.id = o.id

(* What every write brings about. *)
GoodWrite(n) ==
    /\ n \in Config
    /\ Evolves(obj, n)
    /\ ObjectOK(n)
    /\ n.phase \in Settled => secret

LEMMA RankOf ==
  /\ Rank(NotCreated) = 0 /\ Rank(Creating) = 1 /\ Rank(Importing) = 1
  /\ Rank(Active) = 2 /\ Rank(Updating) = 2
  BY DEF Rank, Settled, NotCreated, Creating, Importing, Active, Updating

LEMMA RankIsNat ==
  ASSUME NEW p \in Phases
  PROVE  /\ Rank(p) \in 0..2
         /\ Rank(p) = 0 <=> p = NotCreated
         /\ Rank(p) = 2 <=> p \in Settled
<1>1. p \in {NotCreated, Creating, Importing, Active, Updating}
  BY DEF Phases
<1>2. CASE p = NotCreated
  <2>1. Rank(p) = 0
    BY <1>2, RankOf
  <2>2. p \notin Settled
    BY <1>2 DEF Settled, NotCreated, Active, Updating
  <2>. QED  BY <1>2, <2>1, <2>2
<1>3. CASE p \in {Creating, Importing}
  <2>1. Rank(p) = 1
    BY <1>3, RankOf
  <2>2. p \notin Settled /\ p # NotCreated
    BY <1>3 DEF Settled, NotCreated, Creating, Importing, Active, Updating
  <2>. QED  BY <2>1, <2>2
<1>4. CASE p \in {Active, Updating}
  <2>1. Rank(p) = 2
    BY <1>4, RankOf
  <2>2. p \in Settled /\ p # NotCreated
    BY <1>4 DEF Settled, NotCreated, Active, Updating
  <2>. QED  BY <2>1, <2>2
<1>. QED  BY <1>1, <1>2, <1>3, <1>4

LEMMA OlderEvolves ==
  ASSUME NEW c \in Config, NEW o \in Config, NEW n \in Config,
         ObjectOK(o), OlderThan(c, o), Evolves(o, n)
  PROVE  OlderThan(c, n)
<1>1. c.phase \in Phases /\ o.phase \in Phases /\ n.phase \in Phases
  BY ConfigFields
<1>2. Rank(c.phase) <= Rank(n.phase)
  BY <1>1, RankIsNat DEF OlderThan, Evolves
<1>3. c.phase # NotCreated => o.phase # NotCreated
  BY <1>1, RankIsNat DEF OlderThan
<1>4. c.phase # NotCreated => c.id = n.id
  BY <1>3 DEF OlderThan, Evolves, ObjectOK
<1>. QED  BY <1>2, <1>4 DEF OlderThan, Evolves

LEMMA OlderThanItself ==
  ASSUME NEW o \in Config
  PROVE  OlderThan(o, o) /\ SameBut(o, o) /\ Evolves(o, o)
  BY ConfigFields, RankIsNat DEF OlderThan, SameBut, Evolves

-----------------------------------------------------------------------------
(* The writes of the workers and of the other clients. *)

LEMMA SpecWrite ==
  ASSUME IInv, CanWrite
  PROVE  GoodWrite(SpecOf(work)) /\ GoodWrite(Guarded)
<1>1. obj \in Config /\ work \in Config /\ SameBut(work, obj)
  BY DEF IInv, TypeOK, WorkOK, CanWrite
<1>2. work.id \in Clusters \cup {NoID} /\ obj.phase \in Phases
  BY <1>1, ConfigFields
<1>3. GoodWrite(SpecOf(work))
  BY <1>1, <1>2, WithIDFields, RankIsNat
     DEF SpecOf, GoodWrite, Evolves, ObjectOK, SameBut, IInv, SecretBeforeActive
<1>4. GoodWrite(Guarded)
  <2>. DEFINE s == SpecOf(work)
  <2>1. /\ s \in Config /\ Evolves(obj, s) /\ ObjectOK(s)
        /\ s.phase \in Settled => secret
    BY <1>3 DEF GoodWrite
  <2>. HIDE DEF s
  <2>2. GoodWrite(WithFinalizer(s))
    BY <2>1, WithFinalizerFields DEF GoodWrite, Evolves, ObjectOK
  <2>. QED  BY <2>2 DEF Guarded, s
<1>. QED  BY <1>3, <1>4

LEMMA PhaseWrite ==
  ASSUME IInv, CanWrite, pc = "status"
  PROVE  GoodWrite(Advanced)
<1>1. obj \in Config /\ work \in Config /\ SameBut(work, obj) /\ OlderThan(work, obj)
  BY DEF IInv, TypeOK, WorkOK, CanWrite
<1>2. /\ obj.phase \in Phases /\ work.phase \in Phases /\ work.failure \in Failures
      /\ work.phase = obj.phase
      /\ work.imported = obj.imported /\ work.imported \in BOOLEAN
  BY <1>1, ConfigFields DEF SameBut
<1>3. obj.id # NoID /\ work.phase \notin Settled /\ (work.phase # NotCreated => secret)
  BY DEF IInv, LabelOK, CanWrite
<1>4. /\ NextPhase(work) \in Phases
      /\ Rank(obj.phase) <= Rank(NextPhase(work))
      /\ NextPhase(work) = Creating => ~obj.imported
      /\ NextPhase(work) = Importing => obj.imported
      /\ NextPhase(work) \in Settled => secret
  <2>1. CASE work.phase # NotCreated
    BY <1>2, <1>3, <2>1, RankOf, RankIsNat
       DEF NextPhase, Phases, Creating, Importing, Active
  <2>2. CASE work.phase = NotCreated /\ work.imported
    BY <1>2, <2>2, RankOf
       DEF NextPhase, Phases, Creating, Importing, Active, Updating, Settled
  <2>3. CASE work.phase = NotCreated /\ ~work.imported
    BY <1>2, <2>3, RankOf
       DEF NextPhase, Phases, Creating, Importing, Active, Updating, Settled
  <2>. QED  BY <2>1, <2>2, <2>3
<1>. QED
  BY <1>1, <1>2, <1>3, <1>4, WithStatusFields
     DEF Advanced, GoodWrite, Evolves, ObjectOK, IInv

LEMMA SettledWrite ==
  ASSUME IInv, obj.phase \in Settled, NEW p \in Settled, NEW f \in Failures
  PROVE  GoodWrite(WithStatus(obj, p, f))
<1>1. obj \in Config /\ obj.phase \in Phases /\ p \in Phases
  BY ConfigFields DEF IInv, TypeOK, Settled, Phases
<1>2. Rank(p) = 2 /\ Rank(obj.phase) = 2 /\ p \notin {NotCreated, Creating, Importing}
  BY <1>1, RankIsNat DEF Settled, NotCreated, Creating, Importing, Active, Updating
<1>3. obj.phase # NotCreated
  BY <1>1, <1>2, RankIsNat
<1>. QED
  BY <1>1, <1>2, <1>3, WithStatusFields
     DEF GoodWrite, Evolves, ObjectOK, IInv, SecretBeforeActive

LEMMA ErrorWrite ==
  ASSUME IInv, CanWrite, err # "conflict"
  PROVE  GoodWrite(Recorded)
<1>1. obj \in Config /\ work \in Config /\ SameBut(work, obj)
  BY DEF IInv, TypeOK, WorkOK, CanWrite
<1>2. obj.phase \in Phases /\ work.phase = obj.phase /\ err \in Failures
  BY <1>1, ConfigFields DEF SameBut, IInv, TypeOK, Errors
<1>3. CASE err # NoError /\ work.phase = Active
  BY <1>2, <1>3, SettledWrite DEF Recorded, Settled
<1>4. CASE ~(err # NoError /\ work.phase = Active)
  BY <1>1, <1>2, <1>4, WithStatusFields, RankIsNat
     DEF Recorded, GoodWrite, Evolves, ObjectOK, IInv, SecretBeforeActive
<1>. QED  BY <1>3, <1>4

LEMMA LastWrites ==
  ASSUME IInv
  PROVE  /\ GoodWrite(Removed(obj)) /\ GoodWrite(obj)
         /\ obj.finalizer => GoodWrite(Deleting(obj))
<1>1. obj \in Config /\ obj.phase \in Phases
  BY ConfigFields DEF IInv, TypeOK
<1>. QED
  BY <1>1, RemovedFields, DeletingFields, OlderThanItself, RankIsNat
     DEF GoodWrite, Evolves, ObjectOK, IInv, SecretBeforeActive

-----------------------------------------------------------------------------
(* The parts of the invariant after a step that writes or keeps the object. *)

LEMMA ObjectStep ==
  ASSUME IInv, TypeOK', GoodWrite(obj'),
         UNCHANGED <<cache, deletions>>, secret => secret',
         cacheCurrent' => cacheCurrent /\ obj' = obj,
         aliased' => cache.phase = NotCreated /\ cache.id = NoID
  PROVE  /\ ObjectOK(obj)' /\ CacheOK' /\ DeletesOnlyItsOwn' /\ SecretBeforeActive'
         /\ OlderThan(work, obj) => OlderThan(work, obj')
<1>1. /\ obj \in Config /\ obj' \in Config /\ cache \in Config /\ work \in Config
      /\ ObjectOK(obj) /\ Evolves(obj, obj')
  BY DEF IInv, TypeOK, GoodWrite
<1>2. ObjectOK(obj)'
  BY DEF GoodWrite, ObjectOK
<1>3. OlderThan(cache, obj')
  BY <1>1, OlderEvolves DEF IInv, CacheOK
<1>4. cacheCurrent' => SameBut(cache, obj')
  BY DEF IInv, CacheOK
<1>5. CacheOK'
  BY <1>3, <1>4 DEF CacheOK, OlderThan, SameBut
<1>6. DeletesOnlyItsOwn'
  BY <1>1, ClustersAssumption DEF IInv, DeletesOnlyItsOwn, TypeOK, Evolves
<1>7. SecretBeforeActive'
  BY DEF GoodWrite, SecretBeforeActive
<1>8. OlderThan(work, obj) => OlderThan(work, obj')
  BY <1>1, OlderEvolves
<1>. QED  BY <1>2, <1>5, <1>6, <1>7, <1>8

LEMMA LeakStep ==
  ASSUME IInv, TypeOK', Evolves(obj, obj'),
         \A id \in Clusters : cloud'[id] # "absent" => cloud[id] # "absent",
         dropped \subseteq dropped',
         pc = "updateSpec" => \/ pc' = "updateSpec" /\ work'.id = work.id
                              \/ obj'.id = work.id
                              \/ work.id \in dropped'
  PROVE  NoSilentLeak'
<1>. SUFFICES ASSUME NEW id \in Clusters, cloud'[id] # "absent"
              PROVE  id = obj'.id \/ (pc' = "updateSpec" /\ id = work'.id) \/ id \in dropped'
  BY DEF NoSilentLeak
<1>1. CASE id = obj.id
  BY <1>1, ClustersAssumption DEF Evolves
<1>2. CASE pc = "updateSpec" /\ id = work.id
  BY <1>2
<1>3. CASE id \in dropped
  BY <1>3
<1>. QED  BY <1>1, <1>2, <1>3 DEF IInv, NoSilentLeak

LEMMA IdleStep ==
  ASSUME Idle
  PROVE  WorkOK' /\ LabelOK'
<1>1. pc' = "idle" /\ workCurrent' = FALSE /\ startCurrent' = FALSE
  BY DEF Idle
<1>2. WorkOK'
  BY <1>1 DEF WorkOK
<1>3. LabelOK'
  BY <1>1 DEF LabelOK
<1>. QED  BY <1>2, <1>3

LEMMA WorkKept ==
  ASSUME IInv, OlderThan(work, obj) => OlderThan(work, obj'),
         UNCHANGED work,
         pc' = "idle" <=> pc = "idle",
         workCurrent' => workCurrent /\ obj' = obj,
         startCurrent' => workCurrent'
  PROVE  WorkOK'
<1>1. pc' # "idle" => OlderThan(work', obj')
  BY DEF IInv, WorkOK
<1>2. pc' = "idle" => ~workCurrent'
  BY DEF IInv, WorkOK
<1>3. workCurrent' => SameBut(work', obj')
  BY DEF IInv, WorkOK
<1>. QED  BY <1>1, <1>2, <1>3 DEF WorkOK, OlderThan, SameBut

LEMMA WorkWritten ==
  ASSUME TypeOK', work' = obj', pc' # "idle", startCurrent' => workCurrent'
  PROVE  WorkOK'
<1>1. OlderThan(work', obj') /\ SameBut(work', obj')
  BY OlderThanItself DEF TypeOK
<1>. QED  BY <1>1 DEF WorkOK, OlderThan, SameBut

(* A copy past the first phase names the cluster of the object. *)
LEMMA NamedCluster ==
  ASSUME IInv, NEW c \in Config, OlderThan(c, obj), c.phase # NotCreated
  PROVE  c.id = obj.id /\ c.id \in Clusters /\ obj.phase # NotCreated
<1>1. obj \in Config /\ obj.phase \in Phases /\ c.phase \in Phases /\ c.id \in Clusters \cup {NoID}
  BY ConfigFields DEF IInv, TypeOK
<1>2. obj.phase # NotCreated
  BY <1>1, RankIsNat DEF OlderThan
<1>. QED  BY <1>1, <1>2 DEF IInv, ObjectOK, OlderThan

(* Only its own steps change what the worker knows before its next call. *)
LEMMA LabelKept ==
  ASSUME IInv, UNCHANGED <<pc, work, deletions, secret>>,
         workCurrent' => workCurrent /\ obj' = obj,
         \A id \in Clusters : cloud[id] = "gone" => cloud'[id] = "gone"
  PROVE  LabelOK'
<1>1. pc = "removeFinalizer" =>
        \/ work.imported \/ work.phase = NotCreated
        \/ work.id \in deletions \/ cloud'[work.id] = "gone"
  <2>1. pc = "removeFinalizer" => work.phase = NotCreated \/ work.id \in Clusters
    BY NamedCluster DEF IInv, WorkOK, TypeOK
  <2>. QED  BY <2>1 DEF IInv, LabelOK
<1>. QED  BY <1>1 DEF IInv, LabelOK

LEMMA TrivialLabel ==
  ASSUME pc' \in {"record", "finalizer", "idle"}
  PROVE  LabelOK'
  BY DEF LabelOK

-----------------------------------------------------------------------------
(* Three ways a step of the worker can end: it goes on with the same copy,   *)
(* with the object it has just written, or it has finished.                  *)

Quiet ==
    /\ UNCHANGED <<cache, deletions>>
    /\ secret => secret'
    /\ aliased' => aliased
    /\ cacheCurrent' => cacheCurrent /\ obj' = obj
    /\ \A id \in Clusters : cloud'[id] # "absent" => cloud[id] # "absent"
    /\ dropped \subseteq dropped'

LEMMA KeepsCopy ==
  ASSUME IInv, TypeOK', GoodWrite(obj'), Quiet,
         pc # "idle", pc' # "idle", UNCHANGED work,
         workCurrent' => workCurrent /\ obj' = obj,
         startCurrent' => workCurrent',
         pc = "updateSpec" => obj'.id = work.id \/ work.id \in dropped',
         LabelOK'
  PROVE  IInv'
<1>1. /\ ObjectOK(obj)' /\ CacheOK' /\ DeletesOnlyItsOwn' /\ SecretBeforeActive'
      /\ OlderThan(work, obj) => OlderThan(work, obj')
  BY ObjectStep DEF Quiet, IInv, CacheOK
<1>2. WorkOK'
  BY <1>1, WorkKept
<1>3. NoSilentLeak'
  BY LeakStep DEF Quiet, GoodWrite
<1>. QED  BY <1>1, <1>2, <1>3 DEF IInv

LEMMA TakesWritten ==
  ASSUME IInv, TypeOK', GoodWrite(obj'), Quiet,
         pc' # "idle", work' = obj',
         startCurrent' => workCurrent',
         pc = "updateSpec" => obj'.id = work.id,
         LabelOK'
  PROVE  IInv'
<1>1. ObjectOK(obj)' /\ CacheOK' /\ DeletesOnlyItsOwn' /\ SecretBeforeActive'
  BY ObjectStep DEF Quiet, IInv, CacheOK
<1>2. WorkOK'
  BY WorkWritten
<1>3. NoSilentLeak'
  BY LeakStep DEF Quiet, GoodWrite
<1>. QED  BY <1>1, <1>2, <1>3 DEF IInv

LEMMA Finishes ==
  ASSUME IInv, TypeOK', GoodWrite(obj'), Quiet, Idle, pc # "updateSpec"
  PROVE  IInv'
<1>1. ObjectOK(obj)' /\ CacheOK' /\ DeletesOnlyItsOwn' /\ SecretBeforeActive'
  BY ObjectStep DEF Quiet, IInv, CacheOK
<1>2. NoSilentLeak'
  BY LeakStep DEF Quiet, GoodWrite
<1>. QED  BY <1>1, <1>2, IdleStep DEF IInv

(* The object kept, stored, or written without an answer. *)
LEMMA KeptIsGood ==
  ASSUME IInv, UNCHANGED obj
  PROVE  GoodWrite(obj')
  BY LastWrites

LEMMA StoreIsGood ==
  ASSUME NEW new, GoodWrite(new), Store(new)
  PROVE  GoodWrite(obj') /\ (cacheCurrent' => cacheCurrent /\ obj' = obj)
  BY DEF Store

LEMMA FailedWrite ==
  ASSUME IInv, NEW new, NEW kept \in BOOLEAN, WriteFails(new, kept),
         CanWrite => GoodWrite(new),
         kept => workCurrent, startCurrent => kept
  PROVE  /\ GoodWrite(obj') /\ UNCHANGED work
         /\ cacheCurrent' => cacheCurrent /\ obj' = obj
         /\ workCurrent' => workCurrent /\ obj' = obj
         /\ startCurrent' => workCurrent'
<1>1. CASE ~CanWrite
  BY <1>1, KeptIsGood DEF WriteFails
<1>2. CASE CanWrite
  <2>1. UNCHANGED work
    BY <1>2 DEF WriteFails
  <2>2. CASE workCurrent' = kept /\ UNCHANGED <<obj, cacheCurrent, startCurrent>>
    BY <2>1, <2>2, KeptIsGood
  <2>3. CASE /\ Store(new)
             /\ workCurrent' = (kept /\ new = obj)
             /\ startCurrent' = (startCurrent /\ new = obj)
    <3>1. GoodWrite(obj') /\ obj' = new /\ (cacheCurrent' => cacheCurrent /\ obj' = obj)
      BY <1>2, <2>3, StoreIsGood DEF Store
    <3>2. workCurrent' => workCurrent /\ obj' = obj
      BY <2>3, <3>1
    <3>3. startCurrent' => workCurrent'
      BY <2>3
    <3>. QED  BY <2>1, <3>1, <3>2, <3>3
  <2>. QED  BY <1>2, <2>2, <2>3 DEF WriteFails
<1>. QED  BY <1>1, <1>2

-----------------------------------------------------------------------------
(* The steps one by one: first those that need more than the lemmas above. *)

LEMMA TakesCached ==
  ASSUME IInv, TypeOK', TakeCached, UNCHANGED deletions, secret => secret', pc' # "idle", LabelOK',
         aliased' => cache.phase = NotCreated /\ cache.id = NoID
  PROVE  IInv'
<1>1. /\ UNCHANGED <<obj, cache, cacheCurrent, cloud, deletions, secret, dropped>>
      /\ work' = cache /\ workCurrent' = cacheCurrent /\ startCurrent' = cacheCurrent
      /\ pc = "idle"
  BY DEF TakeCached, storeVars, cloudVars
<1>2. GoodWrite(obj') /\ Evolves(obj, obj')
  BY <1>1, KeptIsGood DEF GoodWrite
<1>3. ObjectOK(obj)' /\ CacheOK' /\ DeletesOnlyItsOwn' /\ SecretBeforeActive'
  BY <1>1, <1>2, ObjectStep
<1>4. OlderThan(cache, obj) /\ (cacheCurrent => SameBut(cache, obj))
  BY DEF IInv, CacheOK
<1>5. WorkOK'
  BY <1>1, <1>4 DEF WorkOK, OlderThan, SameBut
<1>6. NoSilentLeak'
  BY <1>1, <1>2, LeakStep
<1>. QED  BY <1>3, <1>5, <1>6 DEF IInv

LEMMA FirstLabel ==
  ASSUME IInv, TypeOK', TakeCached, pc' = FirstCall(cache)
  PROVE  LabelOK' /\ pc' # "idle"
<1>1. /\ UNCHANGED <<obj, secret>> /\ work' = cache /\ workCurrent' = cacheCurrent
      /\ cache \in Config
  BY DEF TakeCached, storeVars, cloudVars, IInv, TypeOK
<1>2. cache.phase \in Phases
  BY <1>1, ConfigFields
<1>3. CASE cache.phase \in Settled
  <2>1. pc' = "checkAndUpdate"
    BY <1>3 DEF FirstCall
  <2>. QED  BY <1>1, <1>3, <2>1 DEF LabelOK
<1>4. CASE cache.phase \in {Creating, Importing}
  <2>1. pc' = "describe"
    BY <1>4 DEF FirstCall, Settled, NotCreated, Creating, Importing, Active, Updating
  <2>. QED  BY <1>1, <1>4, <2>1 DEF LabelOK
<1>5. CASE cache.phase = NotCreated
  <2>1. cache.phase \notin Settled
    BY <1>5 DEF Settled, NotCreated, Active, Updating
  <2>2. CASE cache.imported
    <3>1. pc' = "status"
      BY <1>5, <2>1, <2>2 DEF FirstCall
    <3>2. obj.id # NoID
      BY <2>2 DEF IInv, CacheOK, OlderThan, ObjectOK
    <3>. QED  BY <1>1, <1>5, <2>1, <3>1, <3>2 DEF LabelOK
  <2>3. CASE ~cache.imported /\ cache.id = NoID
    <3>1. pc' = "createCluster"
      BY <1>5, <2>1, <2>3 DEF FirstCall
    <3>. QED  BY <1>1, <1>5, <2>3, <3>1 DEF LabelOK
  <2>4. CASE ~cache.imported /\ cache.id # NoID
    <3>1. pc' = "updateSpec"
      BY <1>5, <2>1, <2>4 DEF FirstCall
    <3>. QED  BY <1>1, <1>5, <2>4, <3>1 DEF LabelOK
  <2>. QED  BY <2>2, <2>3, <2>4
<1>. QED  BY <1>2, <1>3, <1>4, <1>5 DEF Phases, Settled


(* The cluster is new, and so is its id to every copy of the object. *)
LEMMA CreateSafe ==
  ASSUME IInv, TypeOK', CreateCluster
  PROVE  IInv'
<1>. PICK id \in Clusters :
       /\ cloud' = [cloud EXCEPT ![id] = "creating"]
       /\ work' = WithID(work, id)
       /\ cache' = IF aliased THEN WithID(cache, id) ELSE cache
  BY DEF CreateCluster
<1>1. /\ UNCHANGED <<obj, cacheCurrent, workCurrent, startCurrent, deletions, secret, dropped>>
      /\ pc = "createCluster" /\ pc' = "updateSpec" /\ aliased' = FALSE
  BY DEF CreateCluster
<1>2. /\ obj \in Config /\ cache \in Config /\ work \in Config
      /\ OlderThan(work, obj) /\ OlderThan(cache, obj)
      /\ work.phase = NotCreated /\ ~work.imported /\ work.id = NoID
  BY <1>1 DEF IInv, TypeOK, WorkOK, CacheOK, LabelOK
<1>3. ObjectOK(obj)' /\ DeletesOnlyItsOwn' /\ SecretBeforeActive'
  BY <1>1 DEF IInv, ObjectOK, DeletesOnlyItsOwn, SecretBeforeActive
<1>4. OlderThan(WithID(work, id), obj) /\ (workCurrent => SameBut(WithID(work, id), obj))
  BY <1>2, WithIDFields DEF IInv, WorkOK, OlderThan, SameBut
<1>5. WorkOK'
  BY <1>1, <1>4 DEF IInv, WorkOK, OlderThan, SameBut
<1>6. aliased => /\ OlderThan(WithID(cache, id), obj)
                 /\ cacheCurrent => SameBut(WithID(cache, id), obj)
  BY <1>2, WithIDFields DEF IInv, CacheOK, OlderThan, SameBut
<1>7. CacheOK'
  <2>1. CASE aliased
    BY <1>1, <1>6, <2>1 DEF CacheOK, OlderThan, SameBut
  <2>2. CASE ~aliased
    BY <1>1, <2>2 DEF IInv, CacheOK, OlderThan, SameBut
  <2>. QED  BY <2>1, <2>2
<1>8. work'.id = id /\ work'.phase = NotCreated /\ ~work'.imported
  BY <1>2, WithIDFields
<1>9. LabelOK'
  BY <1>1, <1>8, ClustersAssumption DEF LabelOK
<1>10. NoSilentLeak'
  BY <1>1, <1>8 DEF IInv, NoSilentLeak, TypeOK
<1>. QED  BY <1>3, <1>5, <1>7, <1>9, <1>10 DEF IInv

LEMMA CreateFailsSafe ==
  ASSUME IInv, TypeOK', CreateClusterFails
  PROVE  IInv'
<1>1. /\ UNCHANGED <<obj, cache, cacheCurrent, work, workCurrent, startCurrent, aliased,
                     deletions, secret>>
      /\ pc = "createCluster" /\ pc' = "record"
  BY DEF CreateClusterFails, Return, storeVars
<1>2. ObjectOK(obj)' /\ DeletesOnlyItsOwn' /\ SecretBeforeActive' /\ CacheOK'
  BY <1>1 DEF IInv, ObjectOK, DeletesOnlyItsOwn, SecretBeforeActive, CacheOK, OlderThan, SameBut
<1>3. WorkOK'
  BY <1>1 DEF IInv, WorkOK, OlderThan, SameBut
<1>4. LabelOK'
  BY <1>1, TrivialLabel
<1>5. NoSilentLeak'
  BY <1>1 DEF IInv, NoSilentLeak, TypeOK, CreateClusterFails
<1>. QED  BY <1>2, <1>3, <1>4, <1>5 DEF IInv

LEMMA RecordsID ==
  ASSUME IInv, TypeOK', UpdateSpec
  PROVE  IInv'
<1>1. /\ CanWrite /\ Store(SpecOf(work)) /\ work' = SpecOf(work) /\ workCurrent' = TRUE
      /\ pc = "updateSpec" /\ pc' = "status"
  BY DEF UpdateSpec, WriteSucceeds
<1>2. /\ GoodWrite(SpecOf(work)) /\ GoodWrite(obj') /\ work' = obj'
      /\ cacheCurrent' => cacheCurrent /\ obj' = obj
  BY <1>1, SpecWrite, StoreIsGood DEF Store
<1>3. Quiet
  BY <1>2 DEF UpdateSpec, Quiet, cloudVars
<1>4. /\ obj \in Config /\ work.id \in Clusters \cup {NoID}
      /\ work.phase = NotCreated /\ work.id # NoID /\ work.phase = obj.phase
  BY <1>1, ConfigFields DEF IInv, TypeOK, LabelOK, WorkOK, CanWrite, SameBut
<1>5. obj'.id = work.id /\ obj'.phase = NotCreated
  BY <1>1, <1>4, WithIDFields DEF SpecOf, Store
<1>6. LabelOK'
  BY <1>1, <1>2, <1>4, <1>5 DEF LabelOK, Settled, NotCreated, Active, Updating
<1>. QED  BY <1>1, <1>2, <1>3, <1>5, <1>6, TakesWritten

LEMMA LostID ==
  ASSUME IInv, UpdateSpecFails
  PROVE  obj'.id = work.id \/ work.id \in dropped'
  BY DEF UpdateSpecFails, Unrecorded, IInv, LabelOK

(* A copy past the first phase is past it in the object, too. *)
LEMMA SettledObject ==
  ASSUME IInv, pc = "checkAndUpdate"
  PROVE  obj.phase \in Settled
<1>1. /\ obj.phase \in Phases /\ work.phase \in Phases /\ work.phase \in Settled
      /\ Rank(work.phase) <= Rank(obj.phase)
  BY ConfigFields DEF IInv, TypeOK, WorkOK, OlderThan, LabelOK
<1>. QED  BY <1>1, RankIsNat

(* Whatever status checkAndUpdate writes, the object stays good. *)
LEMMA SettledCheck ==
  ASSUME IInv, pc = "checkAndUpdate", CheckedStatus \/ RetriedStatus
  PROVE  GoodWrite(obj')
<1>1. work.failure \in Failures /\ "state" \in Failures /\ obj.phase \in Settled
  BY ConfigFields, SettledObject DEF IInv, TypeOK, Failures
<1>2. CASE CheckedStatus
  <2>. PICK p \in Settled, f \in {work.failure, "state"} : obj' = WithStatus(obj, p, f)
    BY <1>2 DEF CheckedStatus
  <2>. QED  BY <1>1, SettledWrite
<1>3. CASE RetriedStatus
  <2>1. work.phase \in Settled /\ obj' = WithStatus(obj, work.phase, work.failure)
    BY <1>3 DEF RetriedStatus, StatusOf, Settled
  <2>. QED  BY <1>1, <2>1, SettledWrite
<1>. QED  BY <1>2, <1>3

LEMMA CheckSafe ==
  ASSUME IInv, TypeOK', UpdateStatus \/ UpdateStatusWithRetry
  PROVE  IInv'
<1>1. /\ pc = "checkAndUpdate" /\ pc' = "record" /\ work' = obj'
      /\ cacheCurrent' = FALSE /\ startCurrent' = FALSE
      /\ UNCHANGED <<cache, aliased, cloud, deletions, secret, dropped>>
  BY DEF UpdateStatus, UpdateStatusWithRetry, cloudVars
<1>2. GoodWrite(obj')
  BY <1>1, SettledCheck DEF UpdateStatus, UpdateStatusWithRetry
<1>3. Quiet
  BY <1>1 DEF Quiet
<1>4. LabelOK'
  BY <1>1, TrivialLabel
<1>. QED  BY <1>1, <1>2, <1>3, <1>4, TakesWritten

LEMMA AliasedFirst ==
  ASSUME FirstCall(cache) = "createCluster"
  PROVE  cache.phase = NotCreated /\ cache.id = NoID
  BY DEF FirstCall

LEMMA NamedHeld ==
  ASSUME IInv, pc # "idle", work.phase # NotCreated
  PROVE  work.id = obj.id /\ work.id \in Clusters /\ obj.id # NoID
  BY NamedCluster, ClustersAssumption DEF IInv, WorkOK, TypeOK

LEMMA SecretLabel ==
  ASSUME IInv, pc = "secret", CreateCASecret
  PROVE  LabelOK'
<1>1. work.phase \in {Creating, Importing}
  BY DEF IInv, LabelOK
<1>2. work.phase # NotCreated /\ work.phase \notin Settled
  BY <1>1 DEF NotCreated, Creating, Importing, Settled, Active, Updating
<1>3. obj.id # NoID
  BY <1>2, NamedHeld
<1>4. pc' = "status" /\ UNCHANGED <<work, obj>> /\ secret' = TRUE
  BY DEF CreateCASecret, GoTo, storeVars
<1>. QED  BY <1>2, <1>3, <1>4 DEF LabelOK

(* Steps of OnAliConfigChanged. *)
LEMMA ChangeSafe ==
  ASSUME IInv, TypeOK', Change
  PROVE  IInv' 
<1>1. CASE StartChange
  <2>1. aliased' => cache.phase = NotCreated /\ cache.id = NoID
    BY <1>1, AliasedFirst DEF StartChange
  <2>2. TakeCached /\ UNCHANGED deletions /\ (secret => secret')
    BY <1>1 DEF StartChange, TakeCached, cloudVars
  <2>3. CASE pc' = "record"
    <3>1. LabelOK' /\ pc' # "idle"
      BY <2>3, TrivialLabel
    <3>. QED  BY <2>1, <2>2, <3>1, TakesCached
  <2>4. CASE pc' = FirstCall(cache)
    <3>1. LabelOK' /\ pc' # "idle"
      BY <2>2, <2>4, FirstLabel
    <3>. QED  BY <2>1, <2>2, <3>1, TakesCached
  <2>. QED  BY <1>1, <2>3, <2>4 DEF StartChange
<1>2. CASE CreateCluster
  BY <1>2, CreateSafe
<1>3. CASE CreateClusterFails
  BY <1>3, CreateFailsSafe
<1>4. CASE UpdateSpec
  BY <1>4, RecordsID
<1>5. CASE UpdateSpecFails
  <2>1. /\ WriteFails(SpecOf(work), workCurrent) /\ workCurrent \in BOOLEAN
        /\ (workCurrent => workCurrent) /\ (startCurrent => workCurrent)
    BY <1>5 DEF UpdateSpecFails, IInv, TypeOK, WorkOK
  <2>2. CanWrite => GoodWrite(SpecOf(work))
    BY <1>5, SpecWrite
  <2>3. /\ GoodWrite(obj') /\ UNCHANGED work
        /\ cacheCurrent' => cacheCurrent /\ obj' = obj
        /\ workCurrent' => workCurrent /\ obj' = obj
        /\ startCurrent' => workCurrent'
    BY <2>1, <2>2, FailedWrite
  <2>4. Quiet
    BY <1>5, <2>3 DEF UpdateSpecFails, Quiet, cloudVars
  <2>5. /\ pc # "idle" /\ pc' # "idle"
        /\ pc = "updateSpec" => obj'.id = work.id \/ work.id \in dropped'
    BY <1>5, LostID DEF UpdateSpecFails
  <2>6. LabelOK'
    BY <1>5, TrivialLabel DEF UpdateSpecFails
  <2>. QED  BY <2>3, <2>4, <2>5, <2>6, KeepsCopy
<1>6. CASE ClusterIsRunning
  <2>1. GoodWrite(obj')
    BY <1>6, KeptIsGood DEF ClusterIsRunning, storeVars
  <2>2. Quiet
    BY <1>6 DEF ClusterIsRunning, GoTo, Quiet, storeVars, cloudVars
  <2>3. /\ pc # "idle" /\ pc' # "idle" /\ pc # "updateSpec" /\ UNCHANGED work
        /\ workCurrent' => workCurrent /\ obj' = obj
        /\ startCurrent' => workCurrent'
    BY <1>6 DEF ClusterIsRunning, GoTo, storeVars, IInv, WorkOK
  <2>4. LabelOK'
    BY <1>6, <2>3 DEF ClusterIsRunning, GoTo, LabelOK, IInv
  <2>. QED  BY <2>1, <2>2, <2>3, <2>4, KeepsCopy
<1>7. CASE ClusterIsNotRunning
  <2>1. GoodWrite(obj')
    BY <1>7, KeptIsGood DEF ClusterIsNotRunning, storeVars
  <2>2. Quiet
    BY <1>7 DEF ClusterIsNotRunning, Return, Quiet, storeVars, cloudVars
  <2>3. /\ pc # "idle" /\ pc' # "idle" /\ pc # "updateSpec" /\ UNCHANGED work
        /\ workCurrent' => workCurrent /\ obj' = obj
        /\ startCurrent' => workCurrent'
    BY <1>7 DEF ClusterIsNotRunning, Return, storeVars, IInv, WorkOK
  <2>4. LabelOK'
    BY <1>7, TrivialLabel DEF ClusterIsNotRunning, Return
  <2>. QED  BY <2>1, <2>2, <2>3, <2>4, KeepsCopy
<1>8. CASE DescribeFails
  <2>1. GoodWrite(obj')
    BY <1>8, KeptIsGood DEF DescribeFails, storeVars
  <2>2. Quiet
    BY <1>8 DEF DescribeFails, Return, Quiet, storeVars, cloudVars
  <2>3. /\ pc # "idle" /\ pc' # "idle" /\ pc # "updateSpec" /\ UNCHANGED work
        /\ workCurrent' => workCurrent /\ obj' = obj
        /\ startCurrent' => workCurrent'
    BY <1>8 DEF DescribeFails, Return, storeVars, IInv, WorkOK
  <2>4. LabelOK'
    BY <1>8, TrivialLabel DEF DescribeFails, Return
  <2>. QED  BY <2>1, <2>2, <2>3, <2>4, KeepsCopy
<1>9. CASE CreateCASecret
  <2>1. GoodWrite(obj')
    BY <1>9, KeptIsGood DEF CreateCASecret, storeVars
  <2>2. Quiet
    BY <1>9 DEF CreateCASecret, GoTo, Quiet, storeVars, cloudVars
  <2>3. /\ pc # "idle" /\ pc' # "idle" /\ pc # "updateSpec" /\ UNCHANGED work
        /\ workCurrent' => workCurrent /\ obj' = obj
        /\ startCurrent' => workCurrent'
    BY <1>9 DEF CreateCASecret, GoTo, storeVars, IInv, WorkOK
  <2>4. LabelOK'
    BY <1>9, SecretLabel DEF CreateCASecret
  <2>. QED  BY <2>1, <2>2, <2>3, <2>4, KeepsCopy
<1>10. CASE CreateCASecretFails
  <2>1. GoodWrite(obj')
    BY <1>10, KeptIsGood DEF CreateCASecretFails, storeVars
  <2>2. Quiet
    <3>1. secret' = secret \/ secret' = TRUE
      BY <1>10 DEF CreateCASecretFails
    <3>2. secret => secret'
      BY <3>1
    <3>3. UNCHANGED <<obj, cache, cacheCurrent, aliased, cloud, deletions, dropped>>
      BY <1>10 DEF CreateCASecretFails, Return, storeVars
    <3>. QED  BY <3>2, <3>3 DEF Quiet
  <2>3. /\ pc # "idle" /\ pc' # "idle" /\ pc # "updateSpec" /\ UNCHANGED work
        /\ workCurrent' => workCurrent /\ obj' = obj
        /\ startCurrent' => workCurrent'
    BY <1>10 DEF CreateCASecretFails, Return, storeVars, IInv, WorkOK
  <2>4. LabelOK'
    BY <1>10, TrivialLabel DEF CreateCASecretFails, Return
  <2>. QED  BY <2>1, <2>2, <2>3, <2>4, KeepsCopy
<1>11. CASE UpdatePhase
  <2>1. GoodWrite(Advanced)
    BY <1>11, PhaseWrite DEF UpdatePhase, WriteSucceeds
  <2>2. GoodWrite(obj') /\ work' = obj' /\ (cacheCurrent' => cacheCurrent /\ obj' = obj)
    BY <1>11, <2>1, StoreIsGood DEF UpdatePhase, WriteSucceeds, Store
  <2>3. Quiet
    BY <1>11, <2>2 DEF UpdatePhase, Quiet, cloudVars
  <2>4. pc' # "idle" /\ workCurrent'
    BY <1>11 DEF UpdatePhase, WriteSucceeds
  <2>5. LabelOK'
    BY <1>11, TrivialLabel DEF UpdatePhase
  <2>. QED  BY <1>11, <2>2, <2>3, <2>4, <2>5, TakesWritten DEF UpdatePhase
<1>12. CASE UpdatePhaseFails
  <2>1. /\ WriteFails(Advanced, startCurrent) /\ startCurrent \in BOOLEAN
        /\ (startCurrent => workCurrent) /\ (startCurrent => startCurrent)
    BY <1>12 DEF UpdatePhaseFails, IInv, TypeOK, WorkOK
  <2>2. CanWrite => GoodWrite(Advanced)
    BY <1>12, PhaseWrite DEF UpdatePhaseFails
  <2>3. /\ GoodWrite(obj') /\ UNCHANGED work
        /\ cacheCurrent' => cacheCurrent /\ obj' = obj
        /\ workCurrent' => workCurrent /\ obj' = obj
        /\ startCurrent' => workCurrent'
    BY <2>1, <2>2, FailedWrite
  <2>4. Quiet
    BY <1>12, <2>3 DEF UpdatePhaseFails, Quiet, cloudVars
  <2>5. /\ pc # "idle" /\ pc' # "idle"
        /\ pc = "updateSpec" => obj'.id = work.id \/ work.id \in dropped'
    BY <1>12 DEF UpdatePhaseFails
  <2>6. LabelOK'
    BY <1>12, TrivialLabel DEF UpdatePhaseFails
  <2>. QED  BY <2>3, <2>4, <2>5, <2>6, KeepsCopy
<1>13. CASE CheckOnly
  <2>1. GoodWrite(obj')
    BY <1>13, KeptIsGood DEF CheckOnly, storeVars
  <2>2. Quiet
    BY <1>13 DEF CheckOnly, Return, Quiet, storeVars, cloudVars
  <2>3. /\ pc # "idle" /\ pc' # "idle" /\ pc # "updateSpec" /\ UNCHANGED work
        /\ workCurrent' => workCurrent /\ obj' = obj
        /\ startCurrent' => workCurrent'
    BY <1>13 DEF CheckOnly, Return, storeVars, IInv, WorkOK
  <2>4. LabelOK'
    BY <1>13, TrivialLabel DEF CheckOnly, Return
  <2>. QED  BY <2>1, <2>2, <2>3, <2>4, KeepsCopy
<1>14. CASE UpdateStatus
  BY <1>14, CheckSafe
<1>15. CASE UpdateStatusFails
  <2>1. /\ GoodWrite(obj') /\ (cacheCurrent' => cacheCurrent /\ obj' = obj)
        /\ workCurrent' => workCurrent /\ obj' = obj
        /\ startCurrent' => workCurrent'
    BY <1>15, KeptIsGood, SettledCheck DEF UpdateStatusFails, IInv, WorkOK
  <2>2. Quiet
    BY <1>15, <2>1 DEF UpdateStatusFails, Quiet, cloudVars
  <2>3. pc # "idle" /\ pc' # "idle" /\ pc # "updateSpec" /\ UNCHANGED work
    BY <1>15 DEF UpdateStatusFails
  <2>4. LabelOK'
    BY <1>15, TrivialLabel DEF UpdateStatusFails
  <2>. QED  BY <2>1, <2>2, <2>3, <2>4, KeepsCopy
<1>16. CASE UpdateStatusWithRetry
  BY <1>16, CheckSafe
<1>17. CASE NothingToRecord
  <2>1. GoodWrite(obj')
    BY <1>17, KeptIsGood DEF NothingToRecord, storeVars
  <2>2. Quiet
    BY <1>17 DEF NothingToRecord, GoTo, Quiet, storeVars, cloudVars
  <2>3. /\ pc # "idle" /\ pc' # "idle" /\ pc # "updateSpec" /\ UNCHANGED work
        /\ workCurrent' => workCurrent /\ obj' = obj
        /\ startCurrent' => workCurrent'
    BY <1>17 DEF NothingToRecord, GoTo, storeVars, IInv, WorkOK
  <2>4. LabelOK'
    BY <1>17, TrivialLabel DEF NothingToRecord, GoTo
  <2>. QED  BY <2>1, <2>2, <2>3, <2>4, KeepsCopy
<1>18. CASE RecordError
  <2>1. GoodWrite(Recorded)
    BY <1>18, ErrorWrite DEF RecordError, WriteSucceeds
  <2>2. GoodWrite(obj') /\ work' = obj' /\ (cacheCurrent' => cacheCurrent /\ obj' = obj)
    BY <1>18, <2>1, StoreIsGood DEF RecordError, WriteSucceeds, Store
  <2>3. Quiet
    BY <1>18, <2>2 DEF RecordError, Quiet, cloudVars
  <2>4. pc' # "idle" /\ workCurrent'
    BY <1>18 DEF RecordError, WriteSucceeds
  <2>5. LabelOK'
    BY <1>18, TrivialLabel DEF RecordError
  <2>. QED  BY <1>18, <2>2, <2>3, <2>4, <2>5, TakesWritten DEF RecordError
<1>19. CASE RecordErrorFails
  <2>1. /\ GoodWrite(obj') /\ (cacheCurrent' => cacheCurrent /\ obj' = obj)
        /\ workCurrent' => workCurrent /\ obj' = obj
        /\ startCurrent' => workCurrent'
    BY <1>19, KeptIsGood, StoreIsGood, ErrorWrite DEF RecordErrorFails, IInv, WorkOK
  <2>2. Quiet
    BY <1>19, <2>1 DEF RecordErrorFails, Quiet, cloudVars
  <2>3. pc # "idle" /\ pc' # "idle" /\ pc # "updateSpec" /\ UNCHANGED work
    BY <1>19 DEF RecordErrorFails
  <2>4. LabelOK'
    BY <1>19, TrivialLabel DEF RecordErrorFails
  <2>. QED  BY <2>1, <2>2, <2>3, <2>4, KeepsCopy
<1>20. CASE HasFinalizer
  <2>1. GoodWrite(obj') /\ (cacheCurrent' => cacheCurrent /\ obj' = obj)
    BY <1>20, KeptIsGood DEF HasFinalizer, storeVars
  <2>2. Quiet
    BY <1>20, <2>1 DEF HasFinalizer, Finish, Idle, Quiet, storeVars, cloudVars
  <2>3. Idle /\ pc # "updateSpec"
    BY <1>20 DEF HasFinalizer, Finish
  <2>. QED  BY <2>1, <2>2, <2>3, Finishes
<1>21. CASE AddFinalizer
  <2>1. GoodWrite(obj') /\ (cacheCurrent' => cacheCurrent /\ obj' = obj)
    BY <1>21, KeptIsGood, StoreIsGood, SpecWrite DEF AddFinalizer
  <2>2. Quiet
    BY <1>21, <2>1 DEF AddFinalizer, Finish, Idle, Quiet, storeVars, cloudVars
  <2>3. Idle /\ pc # "updateSpec"
    BY <1>21 DEF AddFinalizer, Finish
  <2>. QED  BY <2>1, <2>2, <2>3, Finishes
<1>22. CASE AddFinalizerFails
  <2>1. GoodWrite(obj') /\ (cacheCurrent' => cacheCurrent /\ obj' = obj)
    BY <1>22, KeptIsGood, StoreIsGood, SpecWrite DEF AddFinalizerFails
  <2>2. Quiet
    BY <1>22, <2>1 DEF AddFinalizerFails, Finish, Idle, Quiet, storeVars, cloudVars
  <2>3. Idle /\ pc # "updateSpec"
    BY <1>22 DEF AddFinalizerFails, Finish
  <2>. QED  BY <2>1, <2>2, <2>3, Finishes
<1>. QED  BY <1>1, <1>2, <1>3, <1>4, <1>5, <1>6, <1>7, <1>8, <1>9, <1>10, <1>11,
          <1>12, <1>13, <1>14, <1>15, <1>16, <1>17, <1>18, <1>19, <1>20, <1>21, <1>22
          DEF Change

(* Steps of OnAliConfigRemoved. *)
LEMMA AcceptsOwn ==
  ASSUME IInv, TypeOK', pc = "deleteCluster", AcceptDeletion(work.id), UNCHANGED storeVars,
         UNCHANGED dropped, aliased' => aliased
  PROVE  /\ ObjectOK(obj)' /\ CacheOK' /\ DeletesOnlyItsOwn' /\ SecretBeforeActive'
         /\ NoSilentLeak' /\ work.id \in deletions'
<1>1. /\ UNCHANGED <<obj, cache, cacheCurrent, secret>>
      /\ deletions' = deletions \cup {work.id} /\ work.id \in Clusters
      /\ cloud' = [cloud EXCEPT ![work.id] = "deleting"]
  BY DEF AcceptDeletion, storeVars
<1>2. work.deleting /\ ~work.imported /\ work.phase # NotCreated /\ OlderThan(work, obj)
  BY DEF IInv, LabelOK, WorkOK
<1>3. work.id = obj.id /\ obj.deleting /\ ~obj.imported
  BY <1>2, NamedHeld DEF OlderThan
<1>4. DeletesOnlyItsOwn'
  BY <1>1, <1>3 DEF IInv, DeletesOnlyItsOwn
<1>5. ObjectOK(obj)' /\ CacheOK' /\ SecretBeforeActive'
  BY <1>1 DEF IInv, ObjectOK, CacheOK, OlderThan, SameBut, SecretBeforeActive
<1>6. NoSilentLeak'
  BY <1>1, <1>3 DEF IInv, NoSilentLeak, TypeOK
<1>. QED  BY <1>1, <1>4, <1>5, <1>6

LEMMA RemoveSafe ==
  ASSUME IInv, TypeOK', Remove
  PROVE  IInv' 
<1>1. CASE StartRemove
  <2>1. TakeCached /\ UNCHANGED deletions /\ (secret => secret')
    BY <1>1 DEF StartRemove, TakeCached, cloudVars
  <2>2. pc' # "idle" /\ aliased' = FALSE
    BY <1>1 DEF StartRemove
  <2>3. LabelOK'
    BY <1>1 DEF StartRemove, TakeCached, LabelOK
  <2>. QED  BY <2>1, <2>2, <2>3, TakesCached
<1>2. CASE StartRemoveFails
  <2>1. GoodWrite(obj') /\ (cacheCurrent' => cacheCurrent /\ obj' = obj)
    BY <1>2, KeptIsGood DEF StartRemoveFails, storeVars
  <2>2. Quiet
    BY <1>2, <2>1 DEF StartRemoveFails, Finish, Idle, Quiet, storeVars, cloudVars
  <2>3. Idle /\ pc # "updateSpec"
    BY <1>2 DEF StartRemoveFails, Finish
  <2>. QED  BY <2>1, <2>2, <2>3, Finishes
<1>3. CASE DescribeRemoved
  <2>1. GoodWrite(obj')
    BY <1>3, KeptIsGood DEF DescribeRemoved, storeVars
  <2>2. Quiet
    BY <1>3 DEF DescribeRemoved, GoTo, Quiet, storeVars, cloudVars
  <2>3. /\ pc # "idle" /\ pc' # "idle" /\ pc # "updateSpec" /\ UNCHANGED work
        /\ workCurrent' => workCurrent /\ obj' = obj
        /\ startCurrent' => workCurrent'
    BY <1>3 DEF DescribeRemoved, GoTo, storeVars, IInv, WorkOK
  <2>4. LabelOK'
    BY <1>3, <2>3 DEF DescribeRemoved, GoTo, LabelOK, IInv, cloudVars
  <2>. QED  BY <2>1, <2>2, <2>3, <2>4, KeepsCopy
<1>4. CASE DeleteCluster
  <2>1. /\ pc = "deleteCluster" /\ AcceptDeletion(work.id) /\ UNCHANGED storeVars
        /\ UNCHANGED <<dropped, aliased, work, workCurrent, startCurrent>>
        /\ pc' = "removeFinalizer"
    BY <1>4 DEF DeleteCluster, GoTo
  <2>2. /\ ObjectOK(obj)' /\ CacheOK' /\ DeletesOnlyItsOwn' /\ SecretBeforeActive'
        /\ NoSilentLeak' /\ work.id \in deletions'
    BY <2>1, AcceptsOwn
  <2>3. WorkOK'
    BY <2>1, WorkKept DEF storeVars, IInv, WorkOK
  <2>4. LabelOK'
    BY <2>1, <2>2 DEF IInv, LabelOK
  <2>. QED  BY <2>2, <2>3, <2>4 DEF IInv
<1>5. CASE RemoveFails
  <2>1. Idle /\ pc # "updateSpec" /\ UNCHANGED <<storeVars, dropped>> /\ aliased' = FALSE
    BY <1>5 DEF RemoveFails, Finish, Idle
  <2>2. CASE UNCHANGED cloudVars
    <3>1. GoodWrite(obj')
      BY <2>1, KeptIsGood DEF storeVars
    <3>2. Quiet
      BY <2>1, <2>2 DEF Quiet, storeVars, cloudVars
    <3>. QED  BY <2>1, <3>1, <3>2, Finishes
  <2>3. CASE pc = "deleteCluster" /\ AcceptDeletion(work.id)
    <3>1. /\ ObjectOK(obj)' /\ DeletesOnlyItsOwn' /\ SecretBeforeActive' /\ NoSilentLeak'
          /\ CacheOK'
      BY <2>1, <2>3, AcceptsOwn
    <3>. QED  BY <2>1, <3>1, IdleStep DEF IInv
  <2>. QED  BY <1>5, <2>2, <2>3 DEF RemoveFails
<1>6. CASE RemoveFinalizer
  <2>1. GoodWrite(obj') /\ (cacheCurrent' => cacheCurrent /\ obj' = obj)
    BY <1>6, KeptIsGood, StoreIsGood, LastWrites DEF RemoveFinalizer
  <2>2. Quiet
    BY <1>6, <2>1 DEF RemoveFinalizer, Finish, Idle, Quiet, storeVars, cloudVars
  <2>3. Idle /\ pc # "updateSpec"
    BY <1>6 DEF RemoveFinalizer, Finish
  <2>. QED  BY <2>1, <2>2, <2>3, Finishes
<1>7. CASE RemoveFinalizerFails
  <2>1. GoodWrite(obj') /\ (cacheCurrent' => cacheCurrent /\ obj' = obj)
    BY <1>7, KeptIsGood, StoreIsGood, LastWrites DEF RemoveFinalizerFails
  <2>2. Quiet
    BY <1>7, <2>1 DEF RemoveFinalizerFails, Finish, Idle, Quiet, storeVars, cloudVars
  <2>3. Idle /\ pc # "updateSpec"
    BY <1>7 DEF RemoveFinalizerFails, Finish
  <2>. QED  BY <2>1, <2>2, <2>3, Finishes
<1>. QED  BY <1>1, <1>2, <1>3, <1>4, <1>5, <1>6, <1>7
          DEF Remove

LEMMA StutterSafe ==
  ASSUME IInv, TypeOK',
         UNCHANGED <<obj, cache, cacheCurrent, pc, work, workCurrent, startCurrent, aliased,
                     cloud, deletions, secret, dropped>>
  PROVE  IInv'
<1>1. ObjectOK(obj)' /\ CacheOK' /\ WorkOK'
  BY DEF IInv, ObjectOK, CacheOK, WorkOK, OlderThan, SameBut
<1>2. LabelOK'
  BY DEF IInv, LabelOK
<1>3. DeletesOnlyItsOwn' /\ SecretBeforeActive' /\ NoSilentLeak'
  BY DEF IInv, DeletesOnlyItsOwn, SecretBeforeActive, NoSilentLeak
<1>. QED  BY <1>1, <1>2, <1>3 DEF IInv


(* Steps of the API server, the informer, the users, ACK, and a crash. *)
LEMMA OthersSafe ==
  ASSUME IInv, TypeOK', NEW new, GoodWrite(new), OthersWrite(new)
  PROVE  IInv'
<1>1. /\ obj' = new /\ cacheCurrent' = FALSE /\ workCurrent' = FALSE /\ startCurrent' = FALSE
      /\ UNCHANGED <<cache, pc, work, aliased, cloud, deletions, secret, dropped>>
  BY DEF OthersWrite, cloudVars
<1>2. GoodWrite(obj') /\ Evolves(obj, obj')
  BY <1>1 DEF GoodWrite
<1>3. /\ ObjectOK(obj)' /\ CacheOK' /\ DeletesOnlyItsOwn' /\ SecretBeforeActive'
      /\ OlderThan(work, obj) => OlderThan(work, obj')
  BY <1>1, <1>2, ObjectStep DEF IInv, CacheOK
<1>4. WorkOK'
  BY <1>1, <1>3, WorkKept
<1>5. LabelOK'
  BY <1>1, LabelKept
<1>6. NoSilentLeak'
  BY <1>1, <1>2, LeakStep
<1>. QED  BY <1>3, <1>4, <1>5, <1>6 DEF IInv

LEMMA ProgressSafe ==
  ASSUME IInv, TypeOK', NEW id \in Clusters, NEW from \in {"creating", "deleting", "running"},
         NEW to \in {"running", "failed", "gone"}, Progress(id, from, to)
  PROVE  IInv'
<1>1. /\ UNCHANGED <<obj, cache, cacheCurrent, pc, work, workCurrent, startCurrent, aliased,
                     deletions, secret, dropped>>
      /\ cloud[id] = from /\ cloud' = [cloud EXCEPT ![id] = to]
  BY DEF Progress, storeVars, workerVars
<1>2. \A c \in Clusters : /\ cloud'[c] # "absent" => cloud[c] # "absent"
                          /\ cloud[c] = "gone" => cloud'[c] = "gone"
  BY <1>1 DEF IInv, TypeOK
<1>3. GoodWrite(obj') /\ Evolves(obj, obj')
  BY <1>1, KeptIsGood DEF GoodWrite
<1>4. ObjectOK(obj)' /\ CacheOK' /\ DeletesOnlyItsOwn' /\ SecretBeforeActive'
  BY <1>1, <1>3, ObjectStep DEF IInv, CacheOK
<1>5. WorkOK'
  BY <1>1, WorkKept DEF IInv, WorkOK
<1>6. LabelOK'
  BY <1>1, <1>2, LabelKept
<1>7. NoSilentLeak'
  BY <1>1, <1>2, <1>3, LeakStep
<1>. QED  BY <1>4, <1>5, <1>6, <1>7 DEF IInv

LEMMA EnvironmentSafe ==
  ASSUME IInv, TypeOK', Environment
  PROVE  IInv'
<1>1. CASE Sync
  <2>1. /\ UNCHANGED <<obj, pc, work, workCurrent, startCurrent, cloud, deletions, secret, dropped>>
        /\ cache' = obj /\ aliased' = FALSE
    BY <1>1 DEF Sync, cloudVars
  <2>2. CacheOK'
    BY <2>1, OlderThanItself DEF IInv, TypeOK, CacheOK, OlderThan, SameBut
  <2>3. GoodWrite(obj') /\ Evolves(obj, obj')
    BY <2>1, KeptIsGood DEF GoodWrite
  <2>4. ObjectOK(obj)' /\ DeletesOnlyItsOwn' /\ SecretBeforeActive'
    BY <2>1 DEF IInv, ObjectOK, DeletesOnlyItsOwn, SecretBeforeActive
  <2>5. WorkOK'
    BY <2>1, WorkKept DEF IInv, WorkOK
  <2>6. LabelOK'
    BY <2>1, LabelKept
  <2>7. NoSilentLeak'
    BY <2>1, <2>3, LeakStep
  <2>. QED  BY <2>2, <2>4, <2>5, <2>6, <2>7 DEF IInv
<1>2. CASE UserEdit
  BY <1>2, LastWrites, OthersSafe DEF UserEdit
<1>3. CASE UserDelete
  <2>1. CASE obj.finalizer
    BY <1>3, <2>1, LastWrites, OthersSafe DEF UserDelete
  <2>2. CASE ~obj.finalizer
    BY <1>3, <2>2, LastWrites, OthersSafe DEF UserDelete
  <2>. QED  BY <2>1, <2>2
<1>4. CASE Crash
  <2>1. /\ UNCHANGED <<obj, cloud, deletions, secret>> /\ Idle
        /\ cache' = obj /\ aliased' = FALSE
        /\ dropped' = dropped \cup (IF pc = "updateSpec" THEN Unrecorded ELSE {})
    BY <1>4 DEF Crash, Idle, cloudVars
  <2>2. CacheOK'
    BY <2>1, OlderThanItself DEF IInv, TypeOK, CacheOK, OlderThan, SameBut
  <2>3. GoodWrite(obj') /\ Evolves(obj, obj')
    BY <2>1, KeptIsGood DEF GoodWrite
  <2>4. ObjectOK(obj)' /\ DeletesOnlyItsOwn' /\ SecretBeforeActive'
    BY <2>1 DEF IInv, ObjectOK, DeletesOnlyItsOwn, SecretBeforeActive
  <2>5. pc = "updateSpec" => obj'.id = work.id \/ work.id \in dropped'
    BY <2>1 DEF Unrecorded, IInv, LabelOK
  <2>6. NoSilentLeak'
    BY <2>1, <2>3, <2>5, LeakStep
  <2>. QED  BY <2>1, <2>2, <2>4, <2>6, IdleStep DEF IInv
<1>5. CASE ACK
  <2>. PICK id \in Clusters : ClusterRuns(id) \/ ClusterGone(id)
    BY <1>5 DEF ACK
  <2>. QED  BY ProgressSafe DEF ClusterRuns, ClusterGone
<1>6. CASE \E id \in Clusters : ClusterFails(id) \/ DeletionFails(id) \/ DeletedByOthers(id)
  <2>. PICK id \in Clusters : ClusterFails(id) \/ DeletionFails(id) \/ DeletedByOthers(id)
    BY <1>6
  <2>. QED  BY ProgressSafe DEF ClusterFails, DeletionFails, DeletedByOthers
<1>. QED  BY <1>1, <1>2, <1>3, <1>4, <1>5, <1>6 DEF Environment

-----------------------------------------------------------------------------
LEMMA SafeInit == Init => IInv
<1>. SUFFICES ASSUME Init PROVE IInv
  OBVIOUS
<1>1. TypeOK
  BY TypeInit
<1>2. PICK imported \in BOOLEAN, id \in Clusters \cup {NoID} :
        /\ imported => id # NoID
        /\ obj = [NoConfig EXCEPT !.exists = TRUE, !.imported = imported, !.id = id]
        /\ \E state \in {"creating", "running"} :
             cloud = [c \in Clusters |-> IF c = id THEN state ELSE "absent"]
  BY DEF Init
<1>3. /\ obj.imported = imported /\ obj.id = id /\ obj.phase = NotCreated
      /\ ~obj.deleting
  BY <1>2 DEF NoConfig
<1>4. /\ cache = obj /\ pc = "idle" /\ work = NoConfig
      /\ workCurrent = FALSE /\ startCurrent = FALSE /\ aliased = FALSE
      /\ deletions = {}
  BY DEF Init
<1>5. ObjectOK(obj)
  BY <1>2, <1>3 DEF ObjectOK, NotCreated, Creating, Importing
<1>6. CacheOK
  BY <1>1, <1>4, OlderThanItself DEF TypeOK, CacheOK
<1>7. WorkOK /\ LabelOK
  BY <1>4 DEF WorkOK, LabelOK
<1>8. DeletesOnlyItsOwn
  BY <1>4 DEF DeletesOnlyItsOwn
<1>9. SecretBeforeActive
  BY <1>3 DEF SecretBeforeActive, Settled, NotCreated, Active, Updating
<1>10. NoSilentLeak
  BY <1>2, <1>3 DEF NoSilentLeak
<1>. QED  BY <1>1, <1>5, <1>6, <1>7, <1>8, <1>9, <1>10 DEF IInv

LEMMA SafeStep ==
  ASSUME IInv, [Next]_vars
  PROVE  IInv'
<1>1. TypeOK'
  BY TypeStep DEF IInv
<1>2. CASE NothingToDo
  <2>1. UNCHANGED <<obj, cache, cacheCurrent, pc, work, workCurrent, startCurrent, aliased,
                    cloud, deletions, secret, dropped>>
    BY <1>2 DEF NothingToDo, storeVars, workerVars, cloudVars
  <2>. QED  BY <1>1, <2>1, StutterSafe
<1>3. CASE UNCHANGED vars
  <2>1. UNCHANGED <<obj, cache, cacheCurrent, pc, work, workCurrent, startCurrent, aliased,
                    cloud, deletions, secret, dropped>>
    BY <1>3 DEF vars, storeVars, workerVars, cloudVars
  <2>. QED  BY <1>1, <2>1, StutterSafe
<1>. QED  BY <1>1, <1>2, <1>3, ChangeSafe, RemoveSafe, EnvironmentSafe DEF Next, Worker

(* The inductive invariant, from which the safety properties follow. *)
THEOREM Invariance == Spec => []IInv
<1>. QED  BY SafeInit, SafeStep, PTL DEF Spec

(* OnAliConfigRemoved asks ACK to delete no cluster but the one the object   *)
(* names, and only when it is being deleted and was not imported.            *)
THEOREM DeletionIsOwn == Spec => []DeletesOnlyItsOwn
<1>1. IInv => DeletesOnlyItsOwn
  BY DEF IInv
<1>. QED  BY <1>1, Invariance, PTL

(* A configuration is active or updating only once the CA secret exists.     *)
THEOREM SecretIsThere == Spec => []SecretBeforeActive
<1>1. IInv => SecretBeforeActive
  BY DEF IInv
<1>. QED  BY <1>1, Invariance, PTL

(* create forgets a cluster it made only through a call that did not get     *)
(* through: every other cluster is recorded or about to be.                  *)
THEOREM LeaksAreKnown == Spec => []NoSilentLeak
<1>1. IInv => NoSilentLeak
  BY DEF IInv
<1>. QED  BY <1>1, Invariance, PTL

-----------------------------------------------------------------------------
(* An object that is left alone. *)

(* A step takes no fault back, and no edit. *)
LEMMA BoundsGrow ==
  ASSUME TypeOK, TypeOK', Next
  PROVE  faults <= faults' /\ edits <= edits'
<1>1. faults \in Nat /\ edits \in Nat
  BY BoundsAssumption DEF TypeOK
<1>2. Fault \/ UNCHANGED faults
  <2>1. CASE Change
    BY <2>1 DEF Change, StartChange, TakeCached, CreateCluster, CreateClusterFails,
         UpdateSpec, UpdateSpecFails, WriteSucceeds, WriteFails, ClusterIsRunning,
         ClusterIsNotRunning, DescribeFails, CreateCASecret, CreateCASecretFails,
         UpdatePhase, UpdatePhaseFails, CheckOnly, UpdateStatus, UpdateStatusFails,
         UpdateStatusWithRetry, NothingToRecord, RecordError, RecordErrorFails,
         HasFinalizer, AddFinalizer, AddFinalizerFails
  <2>2. CASE NothingToDo \/ Remove
    BY <2>2 DEF NothingToDo, Remove, StartRemove, StartRemoveFails, DescribeRemoved,
         DeleteCluster, RemoveFails, RemoveFinalizer, RemoveFinalizerFails
  <2>3. CASE Environment
    BY <2>3 DEF Environment, Sync, UserEdit, UserDelete, OthersWrite, Crash, ACK,
         ClusterRuns, ClusterGone, ClusterFails, DeletionFails, DeletedByOthers
  <2>. QED  BY <2>1, <2>2, <2>3 DEF Next, Worker
<1>3. edits' = edits + 1 \/ UNCHANGED edits
  <2>1. CASE Change
    BY <2>1 DEF Change, StartChange, TakeCached, CreateCluster, CreateClusterFails,
         UpdateSpec, UpdateSpecFails, ClusterIsRunning,
         ClusterIsNotRunning, DescribeFails, CreateCASecret, CreateCASecretFails,
         UpdatePhase, UpdatePhaseFails, CheckOnly, UpdateStatus, UpdateStatusFails,
         UpdateStatusWithRetry, NothingToRecord, RecordError, RecordErrorFails,
         HasFinalizer, AddFinalizer, AddFinalizerFails
  <2>2. CASE NothingToDo \/ Remove
    BY <2>2 DEF NothingToDo, Remove, StartRemove, StartRemoveFails, TakeCached,
         DescribeRemoved, DeleteCluster, RemoveFails, RemoveFinalizer, RemoveFinalizerFails
  <2>3. CASE Environment
    BY <2>3 DEF Environment, Sync, UserEdit, UserDelete, Crash, ACK, Progress,
         ClusterRuns, ClusterGone, ClusterFails, DeletionFails, DeletedByOthers
  <2>. QED  BY <2>1, <2>2, <2>3 DEF Next, Worker
<1>. QED  BY <1>1, <1>2, <1>3 DEF Fault

(* Once the id is recorded, a step of the reconcile that goes on with it:    *)
(* only the reconcile that recorded it may see a cache without it.           *)
LEMMA AfterID ==
  ASSUME IInv, AloneOK, GoodWrite(obj'),
         pc \notin {"idle", "createCluster", "updateSpec"},
         pc' \notin {"createCluster", "updateSpec"},
         UNCHANGED <<cache, dropped>>,
         ~queued /\ pc \in {"status", "record", "finalizer"} /\ err = NoError /\ workCurrent
           => /\ ~queued'
              /\ \/ pc' = "idle"
                 \/ pc' \in {"status", "record", "finalizer"} /\ err' = NoError /\ workCurrent'
  PROVE  AloneOK'
<1>1. obj.id # NoID /\ obj'.id = obj.id
  BY DEF AloneOK, GoodWrite, Evolves
<1>2. cache.id \in {NoID, obj.id}
  BY <1>1 DEF AloneOK, IsNew
<1>3. cacheCurrent => cache.id # NoID
  BY <1>1 DEF IInv, CacheOK, SameBut
<1>4. CacheKnowsID'
  BY <1>3 DEF AloneOK, CacheKnowsID
<1>. QED  BY <1>1, <1>2, <1>4 DEF AloneOK

(* Every step makes a later version of the object, or none. *)
LEMMA ObjectEvolves ==
  ASSUME IInv, TypeOK', Next
  PROVE  GoodWrite(obj')
<1>. USE DEF storeVars
<1>1. CASE UNCHANGED obj
  BY <1>1, KeptIsGood
<1>2. CASE Change
  <2>1. CASE UpdateSpec
    BY <2>1, SpecWrite DEF UpdateSpec, WriteSucceeds, Store
  <2>2. CASE UpdateSpecFails
    BY <1>1, <2>2, SpecWrite DEF UpdateSpecFails, WriteFails, Store
  <2>3. CASE UpdatePhase
    BY <2>3, PhaseWrite DEF UpdatePhase, WriteSucceeds, Store
  <2>4. CASE UpdatePhaseFails
    BY <1>1, <2>4, PhaseWrite DEF UpdatePhaseFails, WriteFails, Store
  <2>5. CASE UpdateStatus \/ UpdateStatusWithRetry \/ UpdateStatusFails
    BY <1>1, <2>5, SettledCheck DEF UpdateStatus, UpdateStatusWithRetry, UpdateStatusFails
  <2>6. CASE RecordError
    BY <2>6, ErrorWrite DEF RecordError, WriteSucceeds, Store
  <2>7. CASE RecordErrorFails
    BY <1>1, <2>7, ErrorWrite DEF RecordErrorFails, Store
  <2>8. CASE AddFinalizer \/ AddFinalizerFails
    BY <1>1, <2>8, SpecWrite DEF AddFinalizer, AddFinalizerFails, Store
  <2>9. CASE \/ StartChange \/ CreateCluster \/ CreateClusterFails
             \/ ClusterIsRunning \/ ClusterIsNotRunning \/ DescribeFails
             \/ CreateCASecret \/ CreateCASecretFails
             \/ CheckOnly \/ NothingToRecord \/ HasFinalizer
    BY <1>1, <2>9 DEF StartChange, TakeCached, CreateCluster, CreateClusterFails,
         ClusterIsRunning, ClusterIsNotRunning, DescribeFails, CreateCASecret,
         CreateCASecretFails, CheckOnly, NothingToRecord, HasFinalizer
  <2>. QED  BY <1>2, <2>1, <2>2, <2>3, <2>4, <2>5, <2>6, <2>7, <2>8, <2>9 DEF Change
<1>3. CASE NothingToDo \/ Remove
  BY <1>1, <1>3, LastWrites
     DEF NothingToDo, Remove, StartRemove, StartRemoveFails, TakeCached, DescribeRemoved,
         DeleteCluster, RemoveFails, RemoveFinalizer, RemoveFinalizerFails, Store
<1>4. CASE Environment
  <2>1. CASE UserEdit \/ UserDelete
    BY <2>1, LastWrites DEF UserEdit, UserDelete, OthersWrite
  <2>2. CASE Sync \/ Crash
    BY <1>1, <2>2 DEF Sync, Crash
  <2>3. CASE ACK \/ \E id \in Clusters : ClusterFails(id) \/ DeletionFails(id) \/ DeletedByOthers(id)
    BY <1>1, <2>3 DEF ACK, ClusterRuns, ClusterGone, ClusterFails, DeletionFails,
         DeletedByOthers, Progress
  <2>. QED  BY <1>4, <2>1, <2>2, <2>3 DEF Environment
<1>. QED  BY <1>2, <1>3, <1>4 DEF Next, Worker

(* The cluster is made in the first reconcile, on the stored object. *)
LEMMA CreatesAlone ==
  ASSUME IInv, AloneOK, CreateCluster
  PROVE  AloneOK'
<1>. PICK id \in Clusters :
       work' = WithID(work, id) /\ cache' = IF aliased THEN WithID(cache, id) ELSE cache
  BY DEF CreateCluster
<1>1. /\ pc = "createCluster" /\ pc' = "updateSpec"
      /\ UNCHANGED <<obj, cacheCurrent, queued, workCurrent, err, dropped>>
  BY DEF CreateCluster
<1>2. /\ work \in Config /\ cache \in Config /\ work.id = NoID
      /\ work.phase = NotCreated
  BY <1>1 DEF IInv, TypeOK, LabelOK
<1>3. obj.id = NoID /\ cacheCurrent /\ workCurrent /\ ~queued /\ err = NoError
  BY <1>1, <1>2 DEF AloneOK, IsNew
<1>4. work'.id = id /\ (cache'.id = id \/ UNCHANGED cache)
  BY <1>2, WithIDFields
<1>5. IsNew(id)' /\ work'.id = id
  BY <1>1, <1>3, <1>4 DEF IsNew
<1>6. cache'.id \in {NoID, obj'.id} \/ cache'.id = id
  BY <1>1, <1>4 DEF AloneOK, IsNew
<1>7. CacheKnowsID'
  BY <1>1, <1>3 DEF CacheKnowsID
<1>. QED  BY <1>1, <1>3, <1>5, <1>6, <1>7 DEF AloneOK, IsNew

(* A reconcile begins with what the cache knows. *)
LEMMA StartsAlone ==
  ASSUME IInv, TypeOK', LeftAlone, AloneOK, ~Fault, StartChange
  PROVE  AloneOK'
<1>1. /\ UNCHANGED <<obj, cache, cacheCurrent, dropped>> /\ pc = "idle" /\ queued
      /\ work' = cache /\ workCurrent' = cacheCurrent /\ ~queued'
      /\ pc' = FirstCall(cache) /\ err' = NoError
      /\ TakeCached
  BY DEF StartChange, TakeCached, storeVars
<1>2. /\ cacheCurrent \/ cache.id # NoID
      /\ cache.id \in {NoID, obj.id}
      /\ cacheCurrent => (cache.id = NoID <=> obj.id = NoID)
  BY <1>1 DEF AloneOK, CacheKnowsID, IsNew, IInv, CacheOK, SameBut
<1>3. LabelOK' /\ FirstCall(cache) # "idle"
  BY <1>1, FirstLabel
<1>4. /\ pc' = "createCluster" => cache.id = NoID
      /\ pc' = "updateSpec" => cache.id # NoID
  BY <1>1, <1>3 DEF LabelOK
<1>5. pc' \notin {"createCluster", "updateSpec"} => obj.id # NoID
  <2>1. cache \in Config /\ OlderThan(cache, obj)
    BY DEF IInv, TypeOK, CacheOK
  <2>2. CASE cache.phase # NotCreated
    BY <2>1, <2>2, NamedCluster, ClustersAssumption
  <2>3. CASE cache.phase = NotCreated /\ cache.imported
    BY <2>1, <2>3 DEF IInv, OlderThan, ObjectOK
  <2>4. CASE cache.phase = NotCreated /\ ~cache.imported
    BY <1>1, <2>4 DEF FirstCall, Settled, NotCreated, Active, Updating
  <2>. QED  BY <2>2, <2>3, <2>4
<1>6. CacheKnowsID'
  BY <1>1, <1>2 DEF CacheKnowsID
<1>. QED  BY <1>1, <1>2, <1>3, <1>4, <1>5, <1>6 DEF AloneOK

(* Update records the id, unless a later copy does it has already. *)
LEMMA RecordsAlone ==
  ASSUME IInv, LeftAlone, AloneOK, ~Fault, UpdateSpec \/ UpdateSpecFails
  PROVE  AloneOK'
<1>1. /\ pc = "updateSpec" /\ work.id # NoID /\ UNCHANGED <<cache, queued>>
      /\ cache \in Config /\ work \in Config /\ obj \in Config
  BY DEF UpdateSpec, UpdateSpecFails, IInv, TypeOK, LabelOK
<1>2. work.id = obj.id => cache.id # NoID
  BY <1>1 DEF AloneOK, CacheKnowsID, IInv, CacheOK, SameBut
<1>3. /\ work.id = obj.id \/ IsNew(work.id)
      /\ cache.id \in {NoID, work.id}
  BY <1>1 DEF AloneOK, IsNew
<1>4. CASE UpdateSpec
  <2>1. work.id \in Clusters \cup {NoID}
    BY <1>1, ConfigFields
  <2>2. /\ obj'.id = work.id /\ pc' = "status" /\ workCurrent' /\ UNCHANGED <<dropped, err>>
    BY <1>1, <1>4, <2>1, WithIDFields DEF UpdateSpec, WriteSucceeds, Store, SpecOf
  <2>3. CacheKnowsID'
    BY <1>1, <1>2, <1>3, <2>2 DEF AloneOK, IsNew, CacheKnowsID
  <2>. QED  BY <1>1, <1>3, <2>2, <2>3 DEF AloneOK
<1>5. CASE UpdateSpecFails
  <2>1. /\ ~CanWrite /\ pc' = "record" /\ UNCHANGED obj
        /\ dropped' = dropped \cup Unrecorded
    BY <1>5 DEF UpdateSpecFails, WriteFails
  <2>2. work.id = obj.id
    BY <1>3, <2>1 DEF CanWrite, LeftAlone, IsNew
  <2>3. dropped' = {}
    BY <2>1, <2>2 DEF Unrecorded, AloneOK
  <2>4. CacheKnowsID'
    BY <1>1, <1>2, <2>2 DEF CacheKnowsID
  <2>. QED  BY <1>1, <1>3, <2>1, <2>2, <2>3, <2>4 DEF AloneOK
<1>. QED  BY <1>4, <1>5

LEMMA ChangesAlone ==
  ASSUME IInv, TypeOK', LeftAlone, AloneOK, Clusters # {}, ~Fault, GoodWrite(obj'), Change
  PROVE  AloneOK'
<1>1. CASE StartChange
  BY <1>1, StartsAlone
<1>2. CASE CreateCluster
  BY <1>2, CreatesAlone
<1>3. CASE CreateClusterFails    \* no id is left, so one has been given
  <2>1. pc = "createCluster" /\ \A id \in Clusters : cloud[id] # "absent"
    BY <1>3 DEF CreateClusterFails
  <2>2. obj.id = NoID /\ dropped = {}
    BY <2>1 DEF AloneOK, IsNew, IInv, LabelOK
  <2>. QED  BY <2>1, <2>2, ClustersAssumption DEF IInv, NoSilentLeak
<1>4. CASE UpdateSpec \/ UpdateSpecFails
  BY <1>4, RecordsAlone
<1>5. CASE \/ ClusterIsRunning \/ ClusterIsNotRunning \/ DescribeFails
           \/ CreateCASecret \/ CreateCASecretFails
  BY <1>5, AfterID
     DEF ClusterIsRunning, ClusterIsNotRunning, DescribeFails, CreateCASecret,
         CreateCASecretFails, GoTo, Return, storeVars
<1>6. CASE UpdatePhase
  BY <1>6, AfterID DEF UpdatePhase, WriteSucceeds
<1>7. CASE UpdatePhaseFails
  <2>1. ~CanWrite
    BY <1>7 DEF UpdatePhaseFails, WriteFails
  <2>. QED  BY <1>7, <2>1, AfterID DEF UpdatePhaseFails, CanWrite, LeftAlone
<1>8. CASE CheckOnly \/ UpdateStatus \/ UpdateStatusFails \/ UpdateStatusWithRetry
  BY <1>8, AfterID
     DEF CheckOnly, UpdateStatus, UpdateStatusFails, UpdateStatusWithRetry, Return, storeVars
<1>9. CASE NothingToRecord
  BY <1>9, AfterID DEF NothingToRecord, GoTo, storeVars
<1>10. CASE RecordError
  BY <1>10, AfterID DEF RecordError, WriteSucceeds
<1>11. CASE RecordErrorFails
  BY <1>11, AfterID DEF RecordErrorFails, CanWrite, LeftAlone
<1>12. CASE HasFinalizer \/ AddFinalizer
  BY <1>12, AfterID DEF HasFinalizer, AddFinalizer, Finish, Idle, storeVars
<1>13. CASE AddFinalizerFails
  BY <1>13, AfterID DEF AddFinalizerFails, Finish, Idle, CanWrite, LeftAlone
<1>. QED
  BY <1>1, <1>2, <1>3, <1>4, <1>5, <1>6, <1>7, <1>8, <1>9, <1>10, <1>11, <1>12, <1>13
     DEF Change

LEMMA AloneStep ==
  ASSUME IInv, TypeOK', AloneInv, [Next]_vars
  PROVE  AloneInv'
<1>. SUFFICES ASSUME LeftAlone', Clusters # {} PROVE AloneOK'
  BY DEF AloneInv
<1>1. CASE UNCHANGED vars
  BY <1>1 DEF vars, storeVars, workerVars, AloneInv, LeftAlone, AloneOK, CacheKnowsID, IsNew
<1>2. CASE Next
  <2>1. faults <= faults' /\ edits <= edits' /\ GoodWrite(obj')
    BY <1>2, BoundsGrow, ObjectEvolves DEF IInv
  <2>2. faults = 0 /\ edits = 0 /\ faults' = 0 /\ edits' = 0
    BY <2>1, BoundsAssumption DEF LeftAlone, IInv, TypeOK
  <2>3. LeftAlone /\ AloneOK /\ ~Fault
    BY <2>1, <2>2 DEF LeftAlone, GoodWrite, Evolves, Fault, AloneInv
  <2>4. /\ OlderThan(cache, obj) /\ (pc # "idle" => OlderThan(work, obj))
        /\ cache.exists /\ ~cache.deleting /\ (pc # "idle" => ~work.deleting)
    BY <2>3 DEF IInv, CacheOK, WorkOK, OlderThan, LeftAlone
  <2>5. CASE NothingToDo \/ Remove
    <3>1. pc \notin {"remove", "deleteCluster", "removeFinalizer"}
      BY <2>4 DEF IInv, LabelOK
    <3>. QED
      BY <2>4, <2>5, <3>1
         DEF NothingToDo, Remove, StartRemove, StartRemoveFails, DescribeRemoved,
             DeleteCluster, RemoveFails, RemoveFinalizer, RemoveFinalizerFails
  <2>6. CASE Change
    BY <2>1, <2>3, <2>6, ChangesAlone
  <2>7. CASE Sync
    BY <2>3, <2>7 DEF Sync, AloneOK, CacheKnowsID, IsNew
  <2>8. CASE UserEdit
    BY <2>2, <2>8 DEF UserEdit
  <2>9. CASE UserDelete
    <3>1. obj \in Config
      BY DEF IInv, TypeOK
    <3>. QED
      BY <2>9, <3>1, DeletingFields, RemovedFields DEF UserDelete, OthersWrite, LeftAlone
  <2>10. CASE Crash
    BY <2>3, <2>10 DEF Crash
  <2>11. CASE ACK \/ \E id \in Clusters : ClusterFails(id) \/ DeletionFails(id) \/ DeletedByOthers(id)
    <3>1. UNCHANGED <<obj, cache, cacheCurrent, queued, pc, work, workCurrent, err, dropped>>
      BY <2>11 DEF ACK, ClusterRuns, ClusterGone, ClusterFails, DeletionFails,
           DeletedByOthers, Progress, storeVars, workerVars
    <3>. QED  BY <2>3, <3>1 DEF AloneOK, CacheKnowsID, IsNew
  <2>. QED
    BY <1>2, <2>5, <2>6, <2>7, <2>8, <2>9, <2>10, <2>11 DEF Next, Worker, Environment
<1>. QED  BY <1>1, <1>2

LEMMA AloneInit == Init => AloneInv
<1>. SUFFICES ASSUME Init PROVE AloneOK
  BY DEF AloneInv
<1>1. /\ dropped = {} /\ cache = obj /\ cacheCurrent = TRUE /\ pc = "idle"
  BY DEF Init
<1>. QED  BY <1>1 DEF AloneOK, CacheKnowsID

(* What a reconcile knows of the id while nothing goes wrong and nobody else *)
(* writes the object.                                                        *)
THEOREM AloneInvariance == Spec => []AloneInv
<1>1. IInv /\ IInv' => TypeOK'
  BY DEF IInv
<1>2. IInv /\ IInv' /\ AloneInv /\ [Next]_vars => AloneInv'
  BY <1>1, AloneStep
<1>. QED  BY <1>2, AloneInit, Invariance, PTL DEF Spec

(* create makes one cluster for an object that is left alone: every other    *)
(* one comes of a failed call, a crash or a write of somebody else.          *)
THEOREM AloneIsSafe == Spec => []OneClusterIfLeftAlone
<1>1. IInv /\ AloneInv => OneClusterIfLeftAlone
  <2>. SUFFICES ASSUME IInv, AloneInv, LeftAlone, NEW c \in Clusters, NEW d \in Clusters,
                       cloud[c] # "absent", cloud[d] # "absent"
                PROVE  c = d
    BY DEF OneClusterIfLeftAlone
  <2>1. AloneOK
    BY DEF AloneInv
  <2>2. \A id \in {c, d} : id = obj.id \/ (pc = "updateSpec" /\ id = work.id)
    BY <2>1 DEF IInv, NoSilentLeak, AloneOK
  <2>3. pc = "updateSpec" => work.id = obj.id \/ obj.id = NoID
    BY <2>1 DEF AloneOK, IsNew
  <2>. QED  BY <2>2, <2>3, ClustersAssumption
<1>. QED  BY <1>1, Invariance, AloneInvariance, PTL

=============================================================================
