---------------------------- MODULE NodePoolsProofs ----------------------------
(***************************************************************************)
(* Theorems about PoolConfig and NodePools, for all node pools, everything *)
(* a user may ask for and every bound.                                     *)
(***************************************************************************)
EXTENDS NodePoolsInvariant, TLAPS

-----------------------------------------------------------------------------
(* The comparison of an entry with a pool. *)

LEMMA SettingsFields ==
  ASSUME NEW s \in Settings
  PROVE  /\ s.auto \in BOOLEAN /\ s.min \in Sizes \cup {Nil} /\ s.max \in Sizes \cup {Nil}
         /\ s.size \in Sizes \cup {Nil}
  BY DEF Settings

LEMMA ModifiedType ==
  ASSUME NEW s \in Settings, NEW u \in Settings
  PROVE  Modified(s, u) \in Settings
<1>1. /\ Over(s.min, u.min) \in Sizes \cup {Nil} /\ Over(s.max, u.max) \in Sizes \cup {Nil}
      /\ Over(s.size, u.size) \in Sizes \cup {Nil}
  BY SettingsFields DEF Over
<1>2. CASE s.auto
  BY <1>1, <1>2 DEF Settings, Modified
<1>3. CASE ~s.auto
  BY <1>1, <1>3 DEF Settings, Modified
<1>. QED  BY <1>2, <1>3

LEMMA DrainedType ==
  ASSUME NEW u \in Settings
  PROVE  Drained(u) \in Settings
<1>1. 0 \in Sizes
  BY PoolsAssumption DEF Sizes
<1>2. CASE DrainStep(u) = "size"
  BY <1>1, <1>2 DEF Settings, Drained
<1>3. CASE DrainStep(u) # "size"
  BY <1>1, <1>3 DEF Settings, Drained
<1>. QED  BY <1>2, <1>3

(* needsUpdate and handleUpdateNodePools agree whether a pool has to be      *)
(* changed, but for one case: both autoscale and both have a desired size.   *)
THEOREM UpdateAgrees ==
  ASSUME NEW s \in Settings, NEW u \in Settings,
         ~(s.auto /\ u.auto /\ SizeDiffers(s, u))
  PROVE  NeedsUpdate(s, u) <=> ShouldModify(s, u)
  BY SettingsFields DEF NeedsUpdate, ShouldModify

(* A modified pool needs no other update: the request has every field that   *)
(* is compared, for entries of which those that count are filled in.         *)
THEOREM ModifiedIsUpToDate ==
  ASSUME NEW s \in Settings, NEW u \in Settings,
         IF s.auto THEN s.min # Nil /\ s.max # Nil /\ s.size = Nil ELSE s.size # Nil
  PROVE  ~NeedsUpdate(s, Modified(s, u)) /\ Fits(s, Modified(s, u))
<1>1. CASE s.auto
  <2>1. Modified(s, u).auto = TRUE /\ Modified(s, u).min = s.min /\ Modified(s, u).max = s.max
    BY <1>1 DEF Settings, Modified, Over
  <2>. QED  BY <1>1, <2>1 DEF NeedsUpdate, Fits, LimitsDiffer, SizeDiffers
<1>2. CASE ~s.auto
  <2>1. Modified(s, u).auto = FALSE /\ Modified(s, u).size = s.size
    BY <1>2 DEF Settings, Modified, Over
  <2>2. s.auto = FALSE
    BY <1>2, SettingsFields
  <2>. QED  BY <1>2, <2>1, <2>2 DEF NeedsUpdate, Fits, SizeDiffers
<1>. QED  BY <1>1, <1>2

(* Draining a pool comes to an end: after its size and its limits it is the  *)
(* turn of its nodes.                                                        *)
LEMMA DrainTerminates ==
  ASSUME NEW u \in Settings, DrainStep(u) # "nodes"
  PROVE  \/ DrainStep(Drained(u)) = "nodes"
         \/ DrainStep(u) = "size" /\ DrainStep(Drained(u)) = "limits"
<1>1. CASE DrainStep(u) = "size"
  <2>1. Drained(u).size = 0
    BY <1>1 DEF Settings, Drained
  <2>. QED  BY <1>1, <2>1 DEF DrainStep
<1>2. CASE DrainStep(u) = "limits"
  <2>1. Drained(u).size = u.size /\ Drained(u).min = 0 /\ Drained(u).max = 0
    BY <1>2 DEF Settings, Drained
  <2>2. u.size \in {Nil, 0}
    BY <1>2 DEF DrainStep
  <2>. QED  BY <2>1, <2>2 DEF DrainStep, Val
<1>. QED  BY <1>1, <1>2 DEF DrainStep

-----------------------------------------------------------------------------
(* Matching by name. *)

LEMMA IdOfNamed ==
  ASSUME NEW listed, NamesDiffer(listed), NEW e, NEW l \in listed, l.name = e.name
  PROVE  IdOf(e, listed) = l.id
<1>1. Named(e, listed) = {l}
  BY DEF Named, NamesDiffer
<1>. QED  BY <1>1 DEF IdOf

LEMMA IdOfType ==
  ASSUME NEW listed \in SUBSET Entries, NEW e \in Entries
  PROVE  IdOf(e, listed) \in PoolIDs \cup {NoPool}
<1>1. CASE Named(e, listed) = {}
  BY <1>1 DEF IdOf, Entries
<1>2. CASE Named(e, listed) # {}
  <2>1. (CHOOSE l \in Named(e, listed) : TRUE) \in Entries
    BY <1>2 DEF Named
  <2>. QED  BY <1>2, <2>1 DEF IdOf, Entries
<1>. QED  BY <1>1, <1>2

LEMMA WithId ==
  ASSUME NEW e \in Entries, NEW id \in PoolIDs \cup {NoPool}
  PROVE  /\ [e EXCEPT !.id = id] \in Entries
         /\ [e EXCEPT !.id = id].name = e.name /\ [e EXCEPT !.id = id].id = id
  BY DEF Entries

LEMMA FixedEntries ==
  ASSUME NEW asked \in SUBSET Entries, NEW listed \in SUBSET Entries
  PROVE  LET fixed == FixIDs(asked, listed) IN
         /\ fixed \subseteq Entries
         /\ {e.name : e \in fixed} = {e.name : e \in asked}
         /\ NamesDiffer(asked) => NamesDiffer(fixed)
         /\ \A f \in fixed : \E e \in asked : f.name = e.name /\ f.id = IdOf(e, listed)
         /\ \A e \in asked : \E f \in fixed : f.name = e.name /\ f.id = IdOf(e, listed)
<1>1. \A e \in asked : LET f == [e EXCEPT !.id = IdOf(e, listed)] IN
        f \in Entries /\ f.name = e.name /\ f.id = IdOf(e, listed)
  BY IdOfType, WithId
<1>. DEFINE fixed == FixIDs(asked, listed)
<1>2. fixed \subseteq Entries
  BY <1>1 DEF FixIDs
<1>3. \A f \in fixed : \E e \in asked : f = [e EXCEPT !.id = IdOf(e, listed)]
  BY DEF FixIDs
<1>4. \A f \in fixed : \E e \in asked : f.name = e.name /\ f.id = IdOf(e, listed)
  BY <1>1, <1>3
<1>5. \A e \in asked : \E f \in fixed : f.name = e.name /\ f.id = IdOf(e, listed)
  BY <1>1 DEF FixIDs
<1>6. {e.name : e \in fixed} = {e.name : e \in asked}
  BY <1>4, <1>5
<1>7. ASSUME NamesDiffer(asked), NEW f \in fixed, NEW g \in fixed, f.name = g.name
      PROVE  f = g
  <2>1. PICK d \in asked : f = [d EXCEPT !.id = IdOf(d, listed)]
    BY <1>3
  <2>2. PICK e \in asked : g = [e EXCEPT !.id = IdOf(e, listed)]
    BY <1>3
  <2>3. d = e
    BY <1>1, <1>7, <2>1, <2>2 DEF NamesDiffer
  <2>. QED  BY <2>1, <2>2, <2>3
<1>8. NamesDiffer(asked) => NamesDiffer(fixed)
  BY <1>7 DEF NamesDiffer
<1>. QED  BY <1>2, <1>4, <1>5, <1>6, <1>8

(* A pool is created only when ACK lists none of its name ...                *)
LEMMA CreatesNew ==
  ASSUME NEW asked \in SUBSET Entries, NEW listed \in SUBSET Entries, NamesDiffer(listed),
         \A l \in listed : l.id # NoPool,
         NEW f \in ToCreate(FixIDs(asked, listed)), NEW l \in listed
  PROVE  l.name # f.name
<1>1. PICK e \in asked : f.name = e.name /\ f.id = IdOf(e, listed)
  BY FixedEntries DEF ToCreate
<1>. QED  BY <1>1, IdOfNamed DEF ToCreate

(* ... and deleted only when none of its name is asked for.                  *)
LEMMA DeletesUnwanted ==
  ASSUME NEW asked \in SUBSET Entries, NEW listed \in SUBSET Entries, NamesDiffer(listed),
         NEW l \in ToDelete(FixIDs(asked, listed), listed), NEW e \in asked
  PROVE  l.name # e.name
<1>1. PICK f \in FixIDs(asked, listed) : f.name = e.name /\ f.id = IdOf(e, listed)
  BY FixedEntries
<1>. QED  BY <1>1, IdOfNamed DEF ToDelete

-----------------------------------------------------------------------------
(* What the pools may do without harm. *)

(* No pool appears, is renamed, or begins to be deleted. *)
Steady == \A i \in PoolIDs :
    /\ i \in Live' => i \in Live /\ pools'[i].name = pools[i].name
    /\ pools'[i].state = "deleting" =>
         pools[i].state = "deleting" /\ pools'[i].nodes = pools[i].nodes

LEMMA LiveStates ==
  /\ \A i \in PoolIDs : i \in Live <=> pools[i].state \notin {"none", "gone"}
  /\ \A i \in PoolIDs : i \in Live' <=> pools'[i].state \notin {"none", "gone"}
  BY DEF Live

LEMMA SteadyPools ==
  ASSUME Steady, kept' \subseteq kept, NoneCreatedTwice, DeletionsOK, OneDeletionAtATime'
  PROVE  NoneCreatedTwice' /\ DeletionsOK'
<1>1. \A i \in Live' : i \in Live /\ i \in PoolIDs /\ pools'[i].name = pools[i].name
  BY DEF Steady, Live
<1>2. NoneCreatedTwice'
  BY <1>1 DEF NoneCreatedTwice
<1>3. \A i \in PoolIDs : pools'[i].state = "deleting" =>
        /\ pools[i].state = "deleting" /\ pools'[i].nodes = pools[i].nodes
        /\ pools'[i].name = pools[i].name
  BY LiveStates DEF Steady
<1>5. DeletedEmpty'
  BY <1>3 DEF DeletionsOK, DeletedEmpty
<1>6. KeepsWanted'
  BY <1>3 DEF DeletionsOK, KeepsWanted
<1>. QED  BY <1>2, <1>5, <1>6 DEF DeletionsOK

LEMMA UnchangedPools ==
  ASSUME pools' = pools
  PROVE  Steady /\ Live' = Live /\ (DeletionsOK => OneDeletionAtATime')
  BY DEF Steady, Live, DeletionsOK, OneDeletionAtATime

(* One pool changes. *)
LEMMA OnePool ==
  ASSUME pools \in [PoolIDs -> Pools], NEW i \in PoolIDs, NEW p \in Pools,
         pools' = [pools EXCEPT ![i] = p]
  PROVE  /\ pools' \in [PoolIDs -> Pools] /\ pools'[i] = p
         /\ \A j \in PoolIDs \ {i} : pools'[j] = pools[j]
  OBVIOUS

LEMMA OneSteadyPool ==
  ASSUME pools \in [PoolIDs -> Pools], NEW i \in PoolIDs, NEW p \in Pools,
         pools' = [pools EXCEPT ![i] = p],
         p.state = "gone" \/ (i \in Live /\ p.name = pools[i].name /\ p.state # "deleting")
  PROVE  Steady
<1>1. pools'[i] = p /\ \A j \in PoolIDs \ {i} : pools'[j] = pools[j]
  BY OnePool
<1>. QED  BY <1>1, LiveStates DEF Steady

(* One pool settles, or changes while no other is taken down, or is taken    *)
(* down while no other changes.                                              *)
LEMMA OneDeletionKept ==
  ASSUME pools \in [PoolIDs -> Pools], NEW i \in Live, NEW p \in Pools,
         pools' = [pools EXCEPT ![i] = p],
         \/ OneDeletionAtATime /\ p.state \in {"active", "gone"}
         \/ p.state \notin TakenDown /\ \A j \in Live : pools[j].state \notin TakenDown
         \/ \A j \in Live : pools[j].state = "active"
  PROVE  OneDeletionAtATime'
<1>1. /\ i \in PoolIDs /\ pools'[i] = p
      /\ \A j \in Live' : j = i \/ (j \in Live /\ pools'[j] = pools[j])
  BY DEF Live
<1>2. CASE OneDeletionAtATime /\ p.state \in {"active", "gone"}
  <2>. SUFFICES ASSUME NEW j \in Live', NEW k \in Live', pools'[j].state \in TakenDown, j # k
                PROVE  pools'[k].state = "active"
    BY DEF OneDeletionAtATime
  <2>1. j # i /\ j \in Live /\ pools'[j] = pools[j]
    BY <1>1, <1>2 DEF TakenDown
  <2>2. CASE k = i
    BY <1>1, <1>2, <2>2 DEF Live
  <2>3. CASE k # i
    BY <1>1, <1>2, <2>1, <2>3 DEF OneDeletionAtATime
  <2>. QED  BY <2>2, <2>3
<1>3. CASE p.state \notin TakenDown /\ \A j \in Live : pools[j].state \notin TakenDown
  BY <1>1, <1>3 DEF OneDeletionAtATime
<1>4. CASE \A j \in Live : pools[j].state = "active"
  BY <1>1, <1>4 DEF OneDeletionAtATime, TakenDown
<1>. QED  BY <1>2, <1>3, <1>4

-----------------------------------------------------------------------------
(* Where the worker gives up, or goes on to write the phase. *)

Retreat ==
    /\ obj' \in Objects /\ obj'.managed = obj.managed /\ obj'.pools = obj.pools
    /\ cacheCurrent' \in BOOLEAN /\ queued' \in BOOLEAN
    /\ \/ Idle
       \/ /\ pc' \in {"setActive", "setUpdating"}
          /\ UNCHANGED <<work, workCurrent, given, callVars>>

WorkerOK == PoolsTypeOK /\ CopiesOK /\ CreatingOK /\ QuietOK /\ VictimOK

LEMMA PhaseType ==
  ASSUME NEW o \in Objects, NEW phase \in {Active, Updating}
  PROVE  LET n == [o EXCEPT !.phase = phase] IN
         n \in Objects /\ n.managed = o.managed /\ n.pools = o.pools /\ n.phase = phase
  BY DEF Objects

LEMMA RequeueRetreats ==
  ASSUME PoolsTypeOK, Requeue
  PROVE  Retreat
  BY DEF PoolsTypeOK, Requeue, Retreat

LEMMA EnqueueRetreats ==
  ASSUME PoolsTypeOK, EnqueueUpdate
  PROVE  Retreat
<1>1. CASE Requeue
  BY <1>1, RequeueRetreats
<1>2. CASE GoTo("setUpdating") /\ UNCHANGED callVars
  BY <1>2 DEF PoolsTypeOK, GoTo, Retreat
<1>. QED  BY <1>1, <1>2 DEF EnqueueUpdate

LEMMA ErrorRetreats ==
  ASSUME PoolsTypeOK, ReturnError
  PROVE  Retreat
  BY PhaseType DEF PoolsTypeOK, ReturnError, Retreat

LEMMA FinishRetreats ==
  ASSUME PoolsTypeOK, Finish
  PROVE  Retreat
<1>1. CASE /\ Idle /\ queued' = queued
           /\ obj' = obj /\ cacheCurrent' \in {cacheCurrent, FALSE}
  BY <1>1 DEF PoolsTypeOK, Retreat
<1>2. CASE GoTo("setActive") /\ UNCHANGED callVars
  BY <1>2 DEF PoolsTypeOK, GoTo, Retreat
<1>. QED  BY <1>1, <1>2 DEF Finish

LEMMA IdleType ==
  ASSUME Idle
  PROVE  /\ pc' = "idle" /\ work' \in Objects /\ NamesDiffer(work'.pools)
         /\ workCurrent' \in BOOLEAN /\ given' = FALSE /\ failed' \in BOOLEAN
         /\ todo' \subseteq Entries /\ victim' = NoPool
  BY DEF Idle, Nothing, Objects, NamesDiffer

LEMMA RetreatKeeps ==
  ASSUME WorkerOK, Retreat, pc # "idle",
         cache' \in Objects, CopyOK(cache)', cache'.managed = cache.managed,
         kept' = kept, pools' \in [PoolIDs -> Pools],
         faults' \in 0..MaxFaults, UNCHANGED othersVars
  PROVE  WorkerOK'
<1>1. CASE Idle
  <2>1. PoolsTypeOK'
    BY <1>1, IdleType DEF WorkerOK, PoolsTypeOK, Retreat, Labels, othersVars
  <2>2. CopyOK(obj)'
    BY DEF WorkerOK, CopiesOK, CopyOK, Wanted, Retreat
  <2>3. CopiesOK'
    BY <1>1, <2>2, IdleType DEF CopiesOK
  <2>. QED  BY <1>1, <2>1, <2>3, IdleType
            DEF WorkerOK, CreatingOK, QuietOK, VictimOK, Deleting
<1>2. CASE /\ pc' \in {"setActive", "setUpdating"}
           /\ UNCHANGED <<work, workCurrent, given, callVars>>
  <2>1. PoolsTypeOK'
    BY <1>2 DEF WorkerOK, PoolsTypeOK, Retreat, Labels, othersVars, callVars
  <2>2. CopyOK(obj)'
    BY DEF WorkerOK, CopiesOK, CopyOK, Wanted, Retreat
  <2>3. CopiesOK'
    BY <1>2, <2>2 DEF WorkerOK, CopiesOK, Wanted
  <2>. QED  BY <1>2, <2>1, <2>3 DEF WorkerOK, CreatingOK, QuietOK, VictimOK, Deleting
<1>. QED  BY <1>1, <1>2 DEF Retreat

(* The same when the pools and the copies are left alone. *)
LEMMA RetreatPreserves ==
  ASSUME PoolsInv, Retreat, pc # "idle", cache' = cache, kept' = kept, pools' = pools,
         faults' \in 0..MaxFaults, UNCHANGED othersVars
  PROVE  PoolsInv'
<1>1. WorkerOK
  BY DEF PoolsInv, WorkerOK
<1>2. WorkerOK'
  BY <1>1, RetreatKeeps DEF WorkerOK, PoolsTypeOK, CopiesOK, CopyOK
<1>3. NoneCreatedTwice' /\ DeletionsOK'
  BY UnchangedPools, SteadyPools DEF PoolsInv
<1>. QED  BY <1>2, <1>3 DEF PoolsInv, WorkerOK

LEMMA FaultType ==
  ASSUME PoolsTypeOK, Fault
  PROVE  faults' \in 0..MaxFaults
  BY PoolBoundsAssumption DEF PoolsTypeOK, Fault

-----------------------------------------------------------------------------
(* What the worker decides. *)

LEMMA ListedFacts ==
  ASSUME PoolsTypeOK
  PROVE  /\ Listed \subseteq Entries
         /\ \A l \in Listed : /\ l.id \in Live /\ l.id \in PoolIDs /\ l.id # NoPool
                              /\ l.name = pools[l.id].name /\ l.set = pools[l.id].set
         /\ \A i \in Live : \E l \in Listed : l.id = i /\ l.name = pools[i].name
         /\ NoneCreatedTwice => NamesDiffer(Listed)
<1>1. \A i \in Live : LET l == [name |-> pools[i].name, id |-> i, set |-> pools[i].set] IN
        l \in Entries /\ l \in Listed
  BY DEF PoolsTypeOK, Live, Listed, Pools, Entries
<1>2. \A l \in Listed : /\ l.id \in Live /\ l.id \in PoolIDs
                        /\ l = [name |-> pools[l.id].name, id |-> l.id, set |-> pools[l.id].set]
  BY DEF Listed, Live
<1>3. NoneCreatedTwice => NamesDiffer(Listed)
  BY <1>2 DEF NoneCreatedTwice, NamesDiffer
<1>4. \A l \in Listed : /\ l.id # NoPool /\ l.name = pools[l.id].name
                        /\ l.set = pools[l.id].set /\ l \in Entries
  <2>. TAKE l \in Listed
  <2>. DEFINE i == l.id
  <2>1. i \in Live /\ i \in PoolIDs /\ i # NoPool
    BY <1>2, PoolsAssumption
  <2>2. l = [name |-> pools[i].name, id |-> i, set |-> pools[i].set]
    BY <1>2
  <2>3. l.name = pools[i].name /\ l.set = pools[i].set
    BY <2>2
  <2>4. l \in Entries
    BY <1>1, <2>1, <2>2
  <2>. QED  BY <2>1, <2>3, <2>4
<1>5. \A i \in Live : \E l \in Listed : l.id = i /\ l.name = pools[i].name
  BY <1>1
<1>. QED  BY <1>2, <1>3, <1>4, <1>5

(* The ids found by name, in the cache: the object there asks for the pools  *)
(* it asked for before.                                                      *)
LEMMA CacheFixed ==
  ASSUME PoolsInv, pc # "idle", kept' = kept,
         cache' = IF given THEN [cache EXCEPT !.pools = FixIDs(work.pools, Listed)] ELSE cache
  PROVE  cache' \in Objects /\ CopyOK(cache)' /\ cache'.managed = cache.managed
<1>1. CASE ~given
  BY <1>1 DEF PoolsInv, PoolsTypeOK, CopiesOK, CopyOK
<1>2. CASE given
  <2>. DEFINE fixed == FixIDs(work.pools, Listed)
  <2>1. work.pools \subseteq Entries /\ Listed \subseteq Entries
    BY ListedFacts DEF PoolsInv, PoolsTypeOK, Objects
  <2>2. /\ fixed \subseteq Entries /\ NamesDiffer(fixed)
        /\ {e.name : e \in fixed} = {e.name : e \in work.pools}
    BY <2>1, FixedEntries DEF PoolsInv, CopiesOK
  <2>3. cache' = [cache EXCEPT !.pools = fixed] /\ cache \in Objects
    BY <1>2 DEF PoolsInv, PoolsTypeOK
  <2>4. cache' \in Objects /\ cache'.pools = fixed /\ cache'.managed = cache.managed
    BY <2>2, <2>3 DEF Objects
  <2>5. Wanted(cache)' = Wanted(work)
    BY <1>2, <2>2, <2>4 DEF PoolsInv, CopiesOK, Wanted
  <2>. QED  BY <2>2, <2>4, <2>5 DEF PoolsInv, CopiesOK, CopyOK
<1>. QED  BY <1>1, <1>2

(* The decision is about the pools there are. *)
LEMMA Decides ==
  ASSUME PoolsInv, pc = "classify", work.managed, MakeCalls(FixIDs(work.pools, Listed)),
         UNCHANGED <<pools, kept, faults, othersVars>>,
         cache' \in Objects, CopyOK(cache)', cache'.managed = cache.managed
  PROVE  WorkerOK'
<1>. DEFINE fixed == FixIDs(work.pools, Listed)
<1>1. /\ work.pools \subseteq Entries /\ Listed \subseteq Entries /\ NamesDiffer(Listed)
      /\ \A l \in Listed : l.id # NoPool
  BY ListedFacts DEF PoolsInv, PoolsTypeOK, Objects
<1>2. fixed \subseteq Entries /\ NamesDiffer(fixed)
  BY <1>1, FixedEntries DEF PoolsInv, CopiesOK
<1>3. Live' = Live
  BY DEF Live
<1>quiet. \A i \in Live' : pools'[i].state = "active" /\ pools'[i].state \notin TakenDown
  BY <1>3 DEF PoolsInv, QuietOK, TakenDown
<1>4. ASSUME NEW label \in Labels \ {"idle"}, GoTo(label),
             todo' \subseteq Entries, failed' = failed, victim' \in PoolIDs \cup {NoPool}
      PROVE  PoolsTypeOK' /\ CopiesOK'
  <2>1. PoolsTypeOK'
    BY <1>4 DEF PoolsInv, PoolsTypeOK, GoTo, othersVars
  <2>2. CopyOK(obj)'
    BY <1>4 DEF PoolsInv, CopiesOK, CopyOK, GoTo, Wanted
  <2>3. CopiesOK'
    BY <1>4, <2>2 DEF PoolsInv, CopiesOK, GoTo, Wanted
  <2>. QED  BY <2>1, <2>3
<1>5. CASE Calls("create", ToCreate(fixed))
  <2>1. pc' = "create" /\ todo' = ToCreate(fixed) /\ todo' \subseteq Entries
    BY <1>2, <1>5 DEF Calls, GoTo, ToCreate
  <2>2. PoolsTypeOK' /\ CopiesOK'
    BY <1>4, <1>5, <2>1 DEF Calls, Labels, PoolsInv, PoolsTypeOK
  <2>3. NamesDiffer(todo')
    BY <1>2, <2>1 DEF ToCreate, NamesDiffer
  <2>4. ASSUME NEW e \in todo', NEW i \in Live PROVE pools[i].name # e.name
    <3>1. PICK l \in Listed : l.name = pools[i].name
      BY ListedFacts DEF PoolsInv
    <3>. QED  BY <1>1, <2>1, <3>1, CreatesNew
  <2>5. CreatingOK'
    BY <1>3, <2>3, <2>4 DEF CreatingOK
  <2>. QED  BY <1>quiet, <2>1, <2>2, <2>5 DEF WorkerOK, QuietOK, VictimOK, Deleting
<1>6. CASE Calls("modify", ToModify(fixed, Listed))
  <2>1. pc' = "modify" /\ todo' \subseteq Entries
    BY <1>2, <1>6 DEF Calls, GoTo, ToModify, Pairs
  <2>2. PoolsTypeOK' /\ CopiesOK'
    BY <1>4, <1>6, <2>1 DEF Calls, Labels, PoolsInv, PoolsTypeOK
  <2>. QED  BY <1>quiet, <2>1, <2>2 DEF WorkerOK, CreatingOK, QuietOK, VictimOK, Deleting
<1>7. ASSUME NEW l \in ToDelete(fixed, Listed), GoTo(DrainStep(l.set)), victim' = l.id,
             UNCHANGED <<todo, failed>>
      PROVE  WorkerOK'
  <2>1. l \in Listed /\ l.id \in PoolIDs /\ pools[l.id].set = l.set /\ pools[l.id].name = l.name
    BY ListedFacts DEF PoolsInv, ToDelete
  <2>2. DrainStep(l.set) \in {"size", "limits", "nodes"} /\ pc' = DrainStep(l.set)
    BY <1>7 DEF DrainStep, GoTo
  <2>3. PoolsTypeOK' /\ CopiesOK'
    BY <1>4, <1>7, <2>1, <2>2 DEF Labels, PoolsInv, PoolsTypeOK
  <2>4. \A e \in work.pools : l.name # e.name
    BY <1>1, DeletesUnwanted
  <2>5. l.name \notin Wanted(work)'
    BY <1>7, <2>4 DEF GoTo, Wanted
  <2>6. VictimOK'
    BY <1>7, <2>1, <2>2, <2>5 DEF VictimOK
  <2>7. QuietOK'
    BY <1>quiet, <2>2 DEF QuietOK
  <2>. QED  BY <2>2, <2>3, <2>6, <2>7 DEF WorkerOK, CreatingOK
<1>8. CASE Finish
  <2>1. Retreat
    BY <1>8, FinishRetreats DEF PoolsInv
  <2>. QED  BY <2>1, RetreatKeeps DEF PoolsInv, WorkerOK, PoolsTypeOK
<1>. QED  BY <1>5, <1>6, <1>7, <1>8 DEF MakeCalls

LEMMA ClassifyPreserves ==
  ASSUME PoolsInv, Classify
  PROVE  PoolsInv'
<1>1. pc = "classify" /\ UNCHANGED <<pools, kept, faults, othersVars>>
  BY DEF Classify
<1>2. cache' = IF given THEN [cache EXCEPT !.pools = FixIDs(work.pools, Listed)] ELSE cache
  BY DEF Classify
<1>. DEFINE fixed == FixIDs(work.pools, Listed)
<1>3. Finish \/ EnqueueUpdate \/ (work.managed /\ MakeCalls(fixed))
  <2>1. IF ~work.managed \/ ~Needed(fixed) THEN Finish
        ELSE IF work.phase = Updating THEN MakeCalls(fixed) ELSE EnqueueUpdate
    BY DEF Classify
  <2>2. CASE ~work.managed \/ ~Needed(fixed)
    BY <2>1, <2>2
  <2>3. CASE ~(~work.managed \/ ~Needed(fixed)) /\ work.phase = Updating
    BY <2>1, <2>3
  <2>4. CASE ~(~work.managed \/ ~Needed(fixed)) /\ work.phase # Updating
    BY <2>1, <2>4
  <2>. QED  BY <2>2, <2>3, <2>4
<1>4. cache' \in Objects /\ CopyOK(cache)' /\ cache'.managed = cache.managed
  BY <1>1, <1>2, CacheFixed
<1>5. ASSUME Retreat PROVE WorkerOK'
  <2>1. WorkerOK /\ faults' \in 0..MaxFaults /\ pools' \in [PoolIDs -> Pools]
    BY <1>1 DEF PoolsInv, WorkerOK, PoolsTypeOK
  <2>. QED  BY <1>1, <1>4, <1>5, <2>1, RetreatKeeps
<1>6. ASSUME work.managed /\ MakeCalls(fixed) PROVE WorkerOK'
  BY <1>1, <1>4, <1>6, Decides
<1>7. PoolsTypeOK
  BY DEF PoolsInv
<1>8. WorkerOK'
  BY <1>3, <1>5, <1>6, <1>7, FinishRetreats, EnqueueRetreats
<1>9. NoneCreatedTwice' /\ DeletionsOK'
  BY <1>1, UnchangedPools, SteadyPools DEF PoolsInv
<1>. QED  BY <1>8, <1>9 DEF PoolsInv, WorkerOK

LEMMA StartPreserves ==
  ASSUME PoolsInv, Start
  PROVE  PoolsInv'
<1>1. pc' = "wait" /\ work' = cache /\ given' \in BOOLEAN /\ Live' = Live
  BY PoolBoundsAssumption DEF Start, Live
<1>2. PoolsTypeOK'
  BY <1>1 DEF PoolsInv, PoolsTypeOK, Start, objVars, callVars, othersVars, Labels
<1>3. CopiesOK'
  BY <1>1 DEF PoolsInv, CopiesOK, CopyOK, Start, objVars, Wanted
<1>4. CreatingOK' /\ QuietOK' /\ VictimOK'
  BY <1>1 DEF CreatingOK, QuietOK, VictimOK, Deleting
<1>5. NoneCreatedTwice' /\ DeletionsOK'
  BY UnchangedPools, SteadyPools DEF PoolsInv, Start
<1>. QED  BY <1>2, <1>3, <1>4, <1>5 DEF PoolsInv

(* The worker goes on with the next call to the pools as they are. *)
LEMMA GoesOn ==
  ASSUME PoolsInv, NEW label \in Labels \ {"idle"}, GoTo(label), pc # "idle",
         UNCHANGED callVars, UNCHANGED <<cache, pools, kept, faults, othersVars>>
  PROVE  PoolsTypeOK' /\ CopiesOK' /\ NoneCreatedTwice' /\ DeletionsOK' /\ Live' = Live
<1>1. PoolsTypeOK'
  BY DEF PoolsInv, PoolsTypeOK, GoTo, callVars, othersVars
<1>2. CopyOK(obj)' /\ CopyOK(cache)'
  BY DEF PoolsInv, CopiesOK, CopyOK, GoTo, Wanted
<1>3. CopiesOK'
  BY <1>2 DEF PoolsInv, CopiesOK, GoTo, Wanted
<1>4. NoneCreatedTwice' /\ DeletionsOK'
  BY UnchangedPools, SteadyPools DEF PoolsInv
<1>. QED  BY <1>1, <1>3, <1>4, UnchangedPools

LEMMA WaitPreserves ==
  ASSUME PoolsInv, Wait
  PROVE  PoolsInv'
<1>1. CASE EnqueueUpdate
  BY <1>1, EnqueueRetreats, RetreatPreserves DEF PoolsInv, PoolsTypeOK, Wait
<1>2. CASE /\ GoTo("classify") /\ UNCHANGED callVars
           /\ \A i \in Live : ~WaitForNodePool(pools[i].state)
  <2>1. PoolsTypeOK' /\ CopiesOK' /\ NoneCreatedTwice' /\ DeletionsOK' /\ Live' = Live
    BY <1>2, GoesOn DEF Wait, Labels
  <2>2. \A i \in Live : pools[i].state = "active"
    BY <1>2 DEF PoolsInv, PoolsTypeOK, Live, Pools, States, WaitForNodePool
  <2>. QED  BY <1>2, <2>1, <2>2
            DEF Wait, GoTo, PoolsInv, CreatingOK, QuietOK, VictimOK, Deleting
<1>. QED  BY <1>1, <1>2 DEF Wait

-----------------------------------------------------------------------------
(* The calls. *)

(* A pool with other settings, another state, another number of nodes. *)
LEMMA EditedPool ==
  ASSUME pools \in [PoolIDs -> Pools], NEW i \in PoolIDs
  PROVE  /\ pools[i] \in Pools
         /\ \A state \in States, n \in Sizes :
              LET p == [pools[i] EXCEPT !.state = state, !.nodes = n] IN
              /\ p \in Pools /\ p.name = pools[i].name /\ p.set = pools[i].set
              /\ p.state = state /\ p.nodes = n
         /\ \A s \in Settings, state \in States :
              LET p == [pools[i] EXCEPT !.set = s, !.state = state] IN
              p \in Pools /\ p.name = pools[i].name /\ p.state = state
         /\ \A state \in States :
              LET p == [pools[i] EXCEPT !.state = state] IN
              /\ p \in Pools /\ p.name = pools[i].name /\ p.state = state
              /\ p.nodes = pools[i].nodes
  BY DEF Pools

LEMMA NewPoolKeeps ==
  ASSUME PoolsInv, pc = "create", NEW e \in todo, NEW id \in PoolIDs, NewPool(e, id),
         kept' = kept
  PROVE  /\ pools' \in [PoolIDs -> Pools]
         /\ NoneCreatedTwice' /\ DeletionsOK'
         /\ \A i \in Live' : \/ pools'[i].name = e.name /\ pools'[i].state = "initial"
                             \/ i \in Live /\ pools'[i] = pools[i]
<1>. DEFINE p == [name |-> e.name, set |-> e.set, state |-> "initial", nodes |-> 0]
<1>1. p \in Pools
  <2>1. e \in Entries /\ 0 \in Sizes
    BY PoolsAssumption DEF PoolsInv, PoolsTypeOK, Sizes
  <2>. QED  BY <2>1 DEF Entries, Pools, States, Changing
<1>2. pools' \in [PoolIDs -> Pools] /\ pools'[id] = p /\ \A j \in PoolIDs \ {id} : pools'[j] = pools[j]
  BY <1>1, OnePool DEF NewPool, PoolsInv, PoolsTypeOK
<1>. HIDE DEF p
<1>3. \A i \in Live' : i \in PoolIDs /\ (i = id \/ (i \in Live /\ pools'[i] = pools[i]))
  BY <1>2 DEF Live
<1>4. \A i \in Live : pools[i].name # e.name
  BY DEF PoolsInv, CreatingOK
<1>5. NoneCreatedTwice'
  <2>. SUFFICES ASSUME NEW i \in Live', NEW j \in Live', pools'[i].name = pools'[j].name
                PROVE  i = j
    BY DEF NoneCreatedTwice
  <2>1. pools'[id].name = e.name
    BY <1>2 DEF p
  <2>2. CASE i # id /\ j # id
    BY <1>3, <2>2 DEF NoneCreatedTwice, PoolsInv
  <2>. QED  BY <1>3, <1>4, <2>1, <2>2
<1>6. \A i \in PoolIDs : pools'[i].state = "deleting" => pools'[i] = pools[i]
  BY <1>2 DEF p
<1>7. DeletionsOK'
  <2>1. \A i \in Live' : pools'[i].state \notin TakenDown
    BY <1>2, <1>3 DEF PoolsInv, QuietOK, TakenDown, p
  <2>. QED  BY <1>6, <2>1 DEF PoolsInv, DeletionsOK, OneDeletionAtATime, DeletedEmpty, KeepsWanted
<1>8. \A i \in Live' : \/ pools'[i].name = e.name /\ pools'[i].state = "initial"
                       \/ i \in Live /\ pools'[i] = pools[i]
  BY <1>2, <1>3 DEF p
<1>. QED  BY <1>2, <1>5, <1>7, <1>8

(* One call of a queue of calls, whatever becomes of it. *)
LEMMA QueueType ==
  ASSUME PoolsInv, pc \in {"create", "modify"}, NEW e \in todo, Tick(e), GoTo(pc),
         failed' \in BOOLEAN, pools' \in [PoolIDs -> Pools], faults' \in 0..MaxFaults,
         UNCHANGED <<cache, victim, kept, othersVars>>,
         \A i \in Live' : \/ pools'[i].state \in {"initial", "scaling"}
                          \/ i \in Live /\ pools'[i] = pools[i]
  PROVE  PoolsTypeOK' /\ CopiesOK' /\ QuietOK' /\ VictimOK'
<1>1. pc' = pc /\ todo' \subseteq todo
  BY DEF GoTo, Tick
<1>2. PoolsTypeOK'
  BY <1>1 DEF PoolsInv, PoolsTypeOK, GoTo, othersVars
<1>3. CopyOK(obj)' /\ CopyOK(cache)'
  BY DEF PoolsInv, CopiesOK, CopyOK, GoTo, Wanted
<1>4. CopiesOK'
  BY <1>1, <1>3 DEF PoolsInv, CopiesOK, GoTo, Wanted
<1>5. \A i \in Live' : pools'[i].state \notin TakenDown
  BY DEF PoolsInv, QuietOK, TakenDown
<1>. QED  BY <1>1, <1>2, <1>4, <1>5 DEF QuietOK, VictimOK, Deleting

LEMMA CreateOnePreserves ==
  ASSUME PoolsInv, pc = "create", NEW e \in todo, Tick(e), GoTo(pc),
         failed' \in BOOLEAN, faults' \in 0..MaxFaults,
         UNCHANGED <<cache, victim, kept, othersVars>>,
         UNCHANGED pools \/ \E id \in PoolIDs : NewPool(e, id)
  PROVE  PoolsInv'
<1>1. /\ pools' \in [PoolIDs -> Pools] /\ NoneCreatedTwice' /\ DeletionsOK'
      /\ \A i \in Live' : \/ pools'[i].name = e.name /\ pools'[i].state = "initial"
                          \/ i \in Live /\ pools'[i] = pools[i]
  <2>1. CASE UNCHANGED pools
    BY <2>1, UnchangedPools, SteadyPools DEF PoolsInv, PoolsTypeOK
  <2>. QED  BY <2>1, NewPoolKeeps
<1>2. PoolsTypeOK' /\ CopiesOK' /\ QuietOK' /\ VictimOK'
  BY <1>1, QueueType
<1>3. CreatingOK'
  <2>1. \A f \in todo' : f \in todo /\ f # e
    BY DEF Tick
  <2>2. NamesDiffer(todo) /\ \A f \in todo, i \in Live : pools[i].name # f.name
    BY DEF PoolsInv, CreatingOK
  <2>3. NamesDiffer(todo') /\ \A f \in todo' : f.name # e.name
    BY <2>1, <2>2 DEF NamesDiffer
  <2>. QED  BY <1>1, <2>1, <2>2, <2>3 DEF CreatingOK
<1>. QED  BY <1>1, <1>2, <1>3 DEF PoolsInv

LEMMA ModifyKeeps ==
  ASSUME PoolsInv, pc = "modify", NEW e \in todo, Modify(e)
  PROVE  /\ pools' \in [PoolIDs -> Pools] /\ Steady /\ OneDeletionAtATime'
         /\ \A j \in Live' : pools'[j].state = "scaling" \/ (j \in Live /\ pools'[j] = pools[j])
<1>. DEFINE i == e.id
            s == Modified(e.set, pools[i].set)
            p == [pools[i] EXCEPT !.set = s, !.state = "scaling"]
<1>1. pools \in [PoolIDs -> Pools] /\ i \in PoolIDs /\ i \in Live
  BY DEF Modify, Live, PoolsInv, PoolsTypeOK
<1>2. s \in Settings
  <2>1. e.set \in Settings
    BY DEF PoolsInv, PoolsTypeOK, Entries
  <2>2. pools[i].set \in Settings
    BY <1>1 DEF Pools
  <2>. QED  BY <2>1, <2>2, ModifiedType
<1>. HIDE DEF s
<1>3. p \in Pools /\ p.name = pools[i].name /\ p.state = "scaling"
  BY <1>1, <1>2 DEF Pools, States, Changing
<1>4. pools' = [pools EXCEPT ![i] = p]
  BY <1>1 DEF Modify, Pools, s
<1>. HIDE DEF p
<1>5. /\ pools' \in [PoolIDs -> Pools] /\ pools'[i] = p
      /\ \A j \in PoolIDs \ {i} : pools'[j] = pools[j]
  BY <1>1, <1>3, <1>4, OnePool
<1>6. \A j \in Live' : pools'[j].state = "scaling" \/ (j \in Live /\ pools'[j] = pools[j])
  BY <1>3, <1>5 DEF Live
<1>7. \A j \in Live : pools[j].state \notin TakenDown
  BY DEF PoolsInv, QuietOK
<1>8. OneDeletionAtATime'
  BY <1>1, <1>3, <1>4, <1>7, OneDeletionKept DEF TakenDown
<1>. QED  BY <1>1, <1>3, <1>4, <1>5, <1>6, <1>8, OneSteadyPool

LEMMA ModifyOnePreserves ==
  ASSUME PoolsInv, pc = "modify", NEW e \in todo, Tick(e), GoTo(pc),
         failed' \in BOOLEAN, faults' \in 0..MaxFaults,
         UNCHANGED <<cache, victim, kept, othersVars>>,
         UNCHANGED pools \/ Modify(e)
  PROVE  PoolsInv'
<1>1. /\ pools' \in [PoolIDs -> Pools] /\ Steady /\ OneDeletionAtATime'
      /\ \A j \in Live' : pools'[j].state = "scaling" \/ (j \in Live /\ pools'[j] = pools[j])
  BY UnchangedPools, ModifyKeeps DEF PoolsInv, PoolsTypeOK
<1>2. PoolsTypeOK' /\ CopiesOK' /\ QuietOK' /\ VictimOK'
  BY <1>1, QueueType
<1>3. NoneCreatedTwice' /\ DeletionsOK'
  BY <1>1, SteadyPools DEF PoolsInv
<1>. QED  BY <1>2, <1>3 DEF PoolsInv, CreatingOK, GoTo

LEMMA QueuePreserves ==
  ASSUME PoolsInv,
         CreateNodePool \/ CreateNodePoolFails \/ ModifyNodePool \/ ModifyNodePoolFails
  PROVE  PoolsInv'
<1>1. faults \in 0..MaxFaults /\ (Fault => faults' \in 0..MaxFaults) /\ failed \in BOOLEAN
  BY FaultType DEF PoolsInv, PoolsTypeOK
<1>2. CASE CreateNodePool
  BY <1>1, <1>2, CreateOnePreserves DEF CreateNodePool
<1>3. CASE CreateNodePoolFails
  BY <1>1, <1>3, CreateOnePreserves DEF CreateNodePoolFails
<1>4. CASE ModifyNodePool
  BY <1>1, <1>4, ModifyOnePreserves DEF ModifyNodePool
<1>5. CASE ModifyNodePoolFails
  BY <1>1, <1>5, ModifyOnePreserves DEF ModifyNodePoolFails
<1>. QED  BY <1>2, <1>3, <1>4, <1>5

LEMMA CallsMadePreserves ==
  ASSUME PoolsInv, CallsMade
  PROVE  PoolsInv'
  BY ErrorRetreats, RequeueRetreats, RetreatPreserves DEF PoolsInv, PoolsTypeOK, CallsMade

LEMMA DescribePreserves ==
  ASSUME PoolsInv, DescribeClusterNodes
  PROVE  PoolsInv'
<1>1. /\ pc = "nodes" /\ victim \in Live /\ pc # "idle"
      /\ UNCHANGED <<cache, pools, kept, faults, othersVars>>
  BY DEF DescribeClusterNodes
<1>2. CASE Requeue
  BY <1>1, <1>2, RequeueRetreats, RetreatPreserves DEF PoolsInv, PoolsTypeOK
<1>3. ASSUME NEW label \in {"delete", "removeNodes"}, GoTo(label), UNCHANGED callVars,
             label = "delete" => pools[victim].nodes = 0
      PROVE  PoolsInv'
  <2>1. PoolsTypeOK' /\ CopiesOK' /\ NoneCreatedTwice' /\ DeletionsOK' /\ Live' = Live
    BY <1>1, <1>3, GoesOn DEF Labels
  <2>2. QuietOK' /\ VictimOK'
    BY <1>1, <1>3, <2>1 DEF PoolsInv, QuietOK, VictimOK, Deleting, GoTo, callVars
  <2>. QED  BY <1>3, <2>1, <2>2 DEF PoolsInv, CreatingOK, GoTo
<1>. QED  BY <1>2, <1>3 DEF DescribeClusterNodes

(* A step towards the deletion of a pool. *)
LEMMA DrainKeeps ==
  ASSUME PoolsInv, DrainCall, kept' = kept
  PROVE  pools' \in [PoolIDs -> Pools] /\ NoneCreatedTwice' /\ DeletionsOK'
<1>. DEFINE p == AfterCall(pools[victim])
<1>1. /\ pools \in [PoolIDs -> Pools] /\ victim \in PoolIDs /\ victim \in Live
      /\ pools[victim] \in Pools
  BY DEF DrainCall, Live, PoolsInv, PoolsTypeOK
<1>2. Drained(pools[victim].set) \in Settings
  BY <1>1, DrainedType DEF Pools
<1>calm. \A j \in Live : pools[j].state = "active"
  BY DEF DrainCall, PoolsInv, QuietOK, Deleting
<1>3. CASE pc = "delete"
  <2>1. p = [pools[victim] EXCEPT !.state = "deleting"]
    BY <1>3 DEF AfterCall
  <2>2. /\ p \in Pools /\ p.name = pools[victim].name /\ p.state = "deleting"
        /\ p.nodes = pools[victim].nodes
    BY <1>1, <2>1 DEF Pools, States, Changing
  <2>. HIDE DEF p
  <2>3. pools' = [pools EXCEPT ![victim] = p]
    BY DEF DrainCall, p
  <2>4. /\ pools' \in [PoolIDs -> Pools] /\ pools'[victim] = p
        /\ \A j \in PoolIDs \ {victim} : pools'[j] = pools[j]
    BY <1>1, <2>2, <2>3, OnePool
  <2>5. \A j \in Live : pools[j].state # "deleting"
    BY <1>3 DEF PoolsInv, QuietOK, Deleting
  <2>6. \A j \in PoolIDs : pools'[j].state = "deleting" => j = victim
    BY <2>4, <2>5, LiveStates
  <2>7. pools[victim].nodes = 0 /\ pools[victim].name \notin kept
    BY <1>1, <1>3 DEF PoolsInv, VictimOK, CopiesOK, Deleting
  <2>8. DeletionsOK'
    BY <1>1, <1>calm, <2>2, <2>3, <2>4, <2>6, <2>7, OneDeletionKept
       DEF DeletionsOK, DeletedEmpty, KeepsWanted
  <2>9. \A j \in Live' : j \in Live /\ pools'[j].name = pools[j].name
    BY <1>1, <2>2, <2>4 DEF Live
  <2>10. NoneCreatedTwice'
    BY <2>9 DEF PoolsInv, NoneCreatedTwice
  <2>. QED  BY <2>4, <2>8, <2>10
<1>4. CASE pc # "delete"
  <2>1. p \in Pools /\ p.name = pools[victim].name /\ p.state \in {"removing_nodes", "scaling"}
    <3>1. CASE pc = "removeNodes"
      BY <1>1, <3>1 DEF AfterCall, Pools, States, Changing
    <3>2. CASE pc # "removeNodes"
      BY <1>1, <1>2, <1>4, <3>2 DEF AfterCall, Pools, States, Changing
    <3>. QED  BY <3>1, <3>2
  <2>. HIDE DEF p
  <2>2. pools' = [pools EXCEPT ![victim] = p]
    BY DEF DrainCall, p
  <2>3. pools' \in [PoolIDs -> Pools] /\ Steady
    BY <1>1, <2>1, <2>2, OnePool, OneSteadyPool
  <2>4. OneDeletionAtATime'
    BY <1>1, <1>calm, <2>1, <2>2, OneDeletionKept
  <2>. QED  BY <2>3, <2>4, SteadyPools DEF PoolsInv
<1>. QED  BY <1>3, <1>4

LEMMA DeletePreserves ==
  ASSUME PoolsInv, DeleteNodePool \/ CallFails
  PROVE  PoolsInv'
<1>1. Retreat /\ pc # "idle" /\ cache' = cache /\ kept' = kept /\ UNCHANGED othersVars
  BY RequeueRetreats, ErrorRetreats DEF DeleteNodePool, CallFails, DrainCall, PoolsInv
<1>2. faults' \in 0..MaxFaults
  BY FaultType DEF DeleteNodePool, CallFails, PoolsInv, PoolsTypeOK
<1>3. CASE DrainCall
  <2>1. pools' \in [PoolIDs -> Pools] /\ NoneCreatedTwice' /\ DeletionsOK'
    BY <1>1, <1>3, DrainKeeps
  <2>2. WorkerOK /\ cache' \in Objects /\ CopyOK(cache)'
    BY <1>1 DEF PoolsInv, WorkerOK, PoolsTypeOK, CopiesOK, CopyOK, Wanted
  <2>3. WorkerOK'
    BY <1>1, <1>2, <2>1, <2>2, RetreatKeeps
  <2>. QED  BY <2>1, <2>3 DEF PoolsInv, WorkerOK
<1>4. CASE pools' = pools
  BY <1>1, <1>2, <1>4, RetreatPreserves
<1>. QED  BY <1>3, <1>4 DEF DeleteNodePool, CallFails

LEMMA SetPhasePreserves ==
  ASSUME PoolsInv, SetPhase \/ SetPhaseFails
  PROVE  PoolsInv'
<1>1. PhaseToSet \in {Active, Updating}
  BY DEF PhaseToSet
<1>2. Retreat
  BY <1>1, PhaseType DEF Retreat, SetPhase, SetPhaseFails, PoolsInv, PoolsTypeOK
<1>3. faults' \in 0..MaxFaults
  BY FaultType DEF SetPhase, SetPhaseFails, PoolsInv, PoolsTypeOK
<1>. QED  BY <1>2, <1>3, RetreatPreserves DEF SetPhase, SetPhaseFails

-----------------------------------------------------------------------------
(* Everybody else. *)

LEMMA SyncPreserves ==
  ASSUME PoolsInv, Sync
  PROVE  PoolsInv'
<1>1. PoolsTypeOK'
  BY DEF PoolsInv, PoolsTypeOK, Sync, callVars, othersVars
<1>2. CopiesOK'
  BY DEF PoolsInv, CopiesOK, CopyOK, Wanted, Sync
<1>3. CreatingOK' /\ QuietOK' /\ VictimOK'
  BY UnchangedPools DEF PoolsInv, CreatingOK, QuietOK, VictimOK, Sync, callVars
<1>. QED  BY <1>1, <1>2, <1>3, UnchangedPools, SteadyPools DEF PoolsInv, Sync

LEMMA UserEditPreserves ==
  ASSUME PoolsInv, UserEdit
  PROVE  PoolsInv'
<1>1. PICK w \in Asked : obj' = [obj EXCEPT !.managed = w.managed, !.pools = w.pools]
  BY DEF UserEdit
<1>2. w.managed \in BOOLEAN /\ w.pools \subseteq Entries /\ NamesDiffer(w.pools)
  BY WishesAssumption DEF Wishes, NamesDiffer
<1>3. obj' \in Objects /\ obj'.pools = w.pools
  BY <1>1, <1>2 DEF PoolsInv, PoolsTypeOK, Objects
<1>4. kept' \subseteq kept /\ kept' \subseteq Wanted(obj)' /\ edits' \in 0..MaxEdits
      /\ misled' \in BOOLEAN
  BY PoolBoundsAssumption DEF UserEdit, PoolsInv, PoolsTypeOK, Wanted
<1>5. PoolsTypeOK'
  BY <1>3, <1>4 DEF PoolsInv, PoolsTypeOK, UserEdit, callVars
<1>6. CopyOK(obj)'
  BY <1>2, <1>3, <1>4 DEF CopyOK
<1>7. CopyOK(cache)'
  BY <1>4 DEF PoolsInv, CopiesOK, CopyOK, Wanted, UserEdit
<1>8. CopiesOK'
  BY <1>4, <1>6, <1>7 DEF PoolsInv, CopiesOK, Wanted, UserEdit
<1>9. CreatingOK' /\ QuietOK' /\ VictimOK'
  BY <1>4, UnchangedPools DEF PoolsInv, CreatingOK, QuietOK, VictimOK, UserEdit, callVars
<1>. QED  BY <1>4, <1>5, <1>8, <1>9, UnchangedPools, SteadyPools DEF PoolsInv, UserEdit

LEMMA CrashPreserves ==
  ASSUME PoolsInv, Crash
  PROVE  PoolsInv'
<1>1. faults' \in 0..MaxFaults
  BY FaultType DEF PoolsInv, Crash
<1>2. PoolsTypeOK'
  BY <1>1, IdleType DEF PoolsInv, PoolsTypeOK, Crash, othersVars, Labels
<1>3. CopyOK(obj)' /\ CopyOK(cache)'
  BY DEF PoolsInv, CopiesOK, CopyOK, Wanted, Crash
<1>4. CopiesOK'
  BY <1>3, IdleType DEF CopiesOK, Crash
<1>5. CreatingOK' /\ QuietOK' /\ VictimOK'
  BY IdleType DEF CreatingOK, QuietOK, VictimOK, Deleting, Crash
<1>. QED  BY <1>2, <1>4, <1>5, UnchangedPools, SteadyPools DEF PoolsInv, Crash

LEMMA SetPoolPreserves ==
  ASSUME PoolsInv, NEW i \in PoolIDs, NEW state \in {"active", "gone"}, NEW n \in Sizes,
         SetPool(i, state, n), removals' \in 0..MaxRemovals, misled' \in BOOLEAN,
         i \in Live, pc = "delete" /\ i = victim => n = 0
  PROVE  PoolsInv'
<1>. DEFINE p == [pools[i] EXCEPT !.state = state, !.nodes = n]
<1>1. pools \in [PoolIDs -> Pools] /\ pools[i] \in Pools
  BY DEF PoolsInv, PoolsTypeOK
<1>2. /\ p \in Pools /\ p.name = pools[i].name /\ p.set = pools[i].set
      /\ p.state = state /\ p.nodes = n
  BY <1>1 DEF Pools, States
<1>3. pools' = [pools EXCEPT ![i] = p]
  BY <1>1 DEF SetPool
<1>. HIDE DEF p
<1>4. /\ pools' \in [PoolIDs -> Pools] /\ pools'[i] = p
      /\ \A j \in PoolIDs \ {i} : pools'[j] = pools[j]
  BY <1>1, <1>2, <1>3, OnePool
<1>5. Steady
  BY <1>1, <1>2, <1>3, OneSteadyPool
<1>6. PoolsTypeOK'
  BY <1>4 DEF PoolsInv, PoolsTypeOK, SetPool, objVars, workerVars, callVars
<1>7. CopiesOK'
  BY DEF PoolsInv, CopiesOK, CopyOK, Wanted, SetPool, objVars, workerVars
<1>8. \A j \in Live' : /\ j \in Live /\ j \in PoolIDs /\ pools'[j].name = pools[j].name
                       /\ pools'[j].set = pools[j].set
                       /\ pools'[j].state \in {pools[j].state, "active"}
  BY <1>2, <1>4 DEF Live
<1>9. CreatingOK' /\ QuietOK'
  <2>1. pc' = pc /\ todo' = todo
    BY DEF SetPool, workerVars, callVars
  <2>2. CreatingOK'
    BY <1>8, <2>1 DEF PoolsInv, CreatingOK
  <2>3. QuietOK'
    BY <1>8, <2>1 DEF PoolsInv, QuietOK, TakenDown
  <2>. QED  BY <2>2, <2>3
<1>10. VictimOK'
  <2>1. pc = "delete" /\ victim \in Live' => pools'[victim].nodes = 0
    BY <1>2, <1>4, <1>8 DEF PoolsInv, VictimOK, Deleting
  <2>2. pc' = pc /\ victim' = victim /\ Wanted(work)' = Wanted(work)
    BY DEF SetPool, workerVars, callVars, Wanted
  <2>3. victim \in Live' => /\ victim \in Live /\ pools'[victim].name = pools[victim].name
                            /\ pools'[victim].set = pools[victim].set
    BY <1>8
  <2>. QED  BY <2>1, <2>2, <2>3 DEF PoolsInv, VictimOK
<1>11. NoneCreatedTwice' /\ DeletionsOK'
  <2>1. OneDeletionAtATime'
    BY <1>1, <1>2, <1>3, OneDeletionKept DEF PoolsInv, DeletionsOK
  <2>. QED  BY <1>5, <2>1, SteadyPools DEF PoolsInv, SetPool
<1>. QED  BY <1>6, <1>7, <1>9, <1>10, <1>11 DEF PoolsInv

LEMMA ValType ==
  ASSUME NEW x \in Sizes \cup {Nil}
  PROVE  Val(x) \in Sizes
  BY PoolsAssumption DEF Val, Sizes

LEMMA SettlePreserves ==
  ASSUME PoolsInv, NEW i \in PoolIDs, Settle(i)
  PROVE  PoolsInv'
<1>. DEFINE p == pools[i]
<1>1. p \in Pools /\ p.set \in Settings /\ p.nodes \in Sizes
  BY DEF PoolsInv, PoolsTypeOK, Pools
<1>2. /\ p.set.auto \in BOOLEAN /\ p.set.size \in Sizes \cup {Nil}
      /\ p.set.min \in Sizes \cup {Nil}
  BY <1>1, SettingsFields
<1>3. Val(p.set.min) \in Sizes /\ Val(p.set.size) \in Sizes /\ 0 \in Sizes
  <2>1. 0 \in Sizes
    BY PoolsAssumption DEF Sizes
  <2>. QED  BY <1>2, <2>1, ValType
<1>4. p.state \in {"initial", "scaling", "removing_nodes", "deleting"}
  BY DEF Settle
<1>5. i \in Live
  BY <1>4 DEF Live
<1>6. pc # "delete"
  BY <1>4, <1>5 DEF PoolsInv, QuietOK, Deleting
<1>7. removals' \in 0..MaxRemovals /\ misled' \in BOOLEAN
  BY DEF Settle, PoolsInv, PoolsTypeOK
<1>8. ASSUME NEW state \in {"active", "gone"}, NEW n \in Sizes, SetPool(i, state, n)
      PROVE  PoolsInv'
  BY <1>5, <1>6, <1>7, <1>8, SetPoolPreserves
<1>9. CASE p.state = "initial"
  <2>1. SetPool(i, "active", Val(IF p.set.auto THEN p.set.min ELSE p.set.size))
    BY <1>9 DEF Settle
  <2>2. Val(IF p.set.auto THEN p.set.min ELSE p.set.size) \in Sizes
    BY <1>3
  <2>. QED  BY <1>8, <2>1, <2>2
<1>10. CASE p.state = "scaling"
  <2>1. SetPool(i, "active", IF p.set.auto \/ p.set.size = Nil THEN p.nodes ELSE p.set.size)
    BY <1>10 DEF Settle
  <2>2. (IF p.set.auto \/ p.set.size = Nil THEN p.nodes ELSE p.set.size) \in Sizes
    BY <1>1, <1>2
  <2>. QED  BY <1>8, <2>1, <2>2
<1>11. CASE p.state = "removing_nodes"
  BY <1>3, <1>8, <1>11 DEF Settle
<1>12. CASE p.state = "deleting"
  BY <1>3, <1>8, <1>12 DEF Settle
<1>. QED  BY <1>4, <1>9, <1>10, <1>11, <1>12

(* A pool whose nodes are looked at gets none back from the autoscaler.      *)
LEMMA AutoscalePreserves ==
  ASSUME PoolsInv, NEW i \in PoolIDs, Autoscale(i)
  PROVE  PoolsInv'
<1>. DEFINE u == pools[i].set
<1>1. PICK n \in Val(u.min)..Val(u.max) : SetPool(i, "active", n)
  BY DEF Autoscale
<1>2. i \in Live
  BY DEF Autoscale, Live
<1>3. u.min \in Sizes \cup {Nil} /\ u.max \in Sizes \cup {Nil}
  BY SettingsFields DEF PoolsInv, PoolsTypeOK, Pools
<1>4. Val(u.min) \in Sizes /\ Val(u.max) \in Sizes
  BY <1>3, ValType
<1>5. n \in Sizes
  BY <1>1, <1>4, PoolsAssumption DEF Sizes
<1>6. ASSUME pc = "delete", i = victim PROVE n = 0
  <2>1. DrainStep(u) = "nodes"
    BY <1>2, <1>6 DEF PoolsInv, VictimOK, Deleting
  <2>2. Val(u.max) = 0
    BY <2>1 DEF DrainStep
  <2>. QED  BY <1>1, <1>4, <2>2, PoolsAssumption DEF Sizes
<1>7. removals' \in 0..MaxRemovals /\ misled' \in BOOLEAN
  BY DEF Autoscale, PoolsInv, PoolsTypeOK
<1>. QED  BY <1>1, <1>2, <1>5, <1>6, <1>7, SetPoolPreserves

LEMMA RemovedPreserves ==
  ASSUME PoolsInv, NEW i \in PoolIDs, RemovedByOthers(i)
  PROVE  PoolsInv'
<1>1. 0 \in Sizes /\ removals' \in 0..MaxRemovals /\ misled' \in BOOLEAN
  BY PoolsAssumption, PoolBoundsAssumption DEF Sizes, RemovedByOthers, PoolsInv, PoolsTypeOK
<1>. QED  BY <1>1, SetPoolPreserves DEF RemovedByOthers

-----------------------------------------------------------------------------
(* The invariant. *)

LEMMA InitPoolsInv ==
  ASSUME Init
  PROVE  PoolsInv
<1>1. PICK w \in Asked, phase \in {Active, Updating} :
        obj = [managed |-> w.managed, pools |-> w.pools, phase |-> phase]
  BY DEF Init
<1>2. w.managed \in BOOLEAN /\ w.pools \subseteq Entries /\ NamesDiffer(w.pools)
  BY WishesAssumption DEF Wishes, NamesDiffer
<1>3. obj \in Objects /\ NamesDiffer(obj.pools)
  BY <1>1, <1>2 DEF Objects
<1>4. Nothing \in Objects /\ NamesDiffer(Nothing.pools)
  BY DEF Nothing, Objects, NamesDiffer
<1>5. Wanted(obj) \subseteq Names
  BY <1>3 DEF Wanted, Objects, Entries
<1>6. pools \in [PoolIDs -> Pools] /\ \A i \in PoolIDs : pools[i].state \in {"none", "active"}
  BY PoolsAtFirstAssumption DEF Init
<1>7. PoolsTypeOK
  <2>1. 0 \in 0..MaxFaults /\ 0 \in 0..MaxEdits /\ 0 \in 0..MaxRemovals
    BY PoolBoundsAssumption
  <2>2. obj \in Objects /\ cache \in Objects /\ work \in Objects /\ kept \subseteq Names
    BY <1>3, <1>4, <1>5 DEF Init
  <2>3. /\ cacheCurrent \in BOOLEAN /\ workCurrent \in BOOLEAN /\ given \in BOOLEAN
        /\ queued \in BOOLEAN /\ failed \in BOOLEAN /\ pc \in Labels
        /\ todo \subseteq Entries /\ victim \in PoolIDs \cup {NoPool}
    BY DEF Init, Labels
  <2>4. faults = 0 /\ edits = 0 /\ removals = 0 /\ misled \in BOOLEAN
    BY DEF Init
  <2>. QED  BY <1>6, <2>1, <2>2, <2>3, <2>4 DEF PoolsTypeOK
<1>8. CopiesOK
  BY <1>3, <1>4 DEF Init, CopiesOK, CopyOK
<1>9. NoneCreatedTwice
  BY <1>6, PoolsAtFirstAssumption DEF Init, NoneCreatedTwice, Live
<1>10. DeletionsOK
  BY <1>6 DEF DeletionsOK, OneDeletionAtATime, DeletedEmpty, KeepsWanted, Live, TakenDown
<1>. QED  BY <1>7, <1>8, <1>9, <1>10 DEF Init, PoolsInv, CreatingOK, QuietOK, VictimOK, Deleting

LEMMA NextPreservesPoolsInv ==
  ASSUME PoolsInv, [Next]_vars
  PROVE  PoolsInv'
<1>1. CASE Worker
  BY <1>1, StartPreserves, WaitPreserves, ClassifyPreserves, QueuePreserves,
     CallsMadePreserves, DescribePreserves, DeletePreserves, SetPhasePreserves DEF Worker
<1>2. CASE Sync \/ UserEdit \/ Crash
  BY <1>2, SyncPreserves, UserEditPreserves, CrashPreserves
<1>3. CASE ACK
  BY <1>3, SettlePreserves, AutoscalePreserves DEF ACK
<1>4. CASE \E i \in PoolIDs : RemovedByOthers(i)
  BY <1>4, RemovedPreserves
<1>5. CASE UNCHANGED vars
  <2>1. /\ UNCHANGED <<obj, cache, cacheCurrent, queued, pc, work, workCurrent, given>>
        /\ UNCHANGED <<todo, failed, victim, pools, kept, faults, edits, removals, misled>>
    BY <1>5 DEF vars, objVars, workerVars, callVars, othersVars
  <2>2. Live' = Live
    BY <2>1 DEF Live
  <2>3. PoolsTypeOK' /\ NoneCreatedTwice' /\ DeletionsOK'
    BY <2>1, <2>2, UnchangedPools, SteadyPools DEF PoolsInv, PoolsTypeOK
  <2>4. CopiesOK' /\ CreatingOK' /\ QuietOK' /\ VictimOK'
    BY <2>1, <2>2
       DEF PoolsInv, CopiesOK, CopyOK, Wanted, CreatingOK, QuietOK, VictimOK, Deleting
  <2>. QED  BY <2>3, <2>4 DEF PoolsInv
<1>. QED  BY <1>1, <1>2, <1>3, <1>4, <1>5 DEF Next

(* What the worker has learnt about the pools stays true until it has made   *)
(* its calls, whatever the user, ACK, crashes and failing calls do.          *)
THEOREM PoolsInvariance == Spec => []PoolsInv
<1>1. Init => PoolsInv
  BY InitPoolsInv
<1>2. PoolsInv /\ [Next]_vars => PoolsInv'
  BY NextPreservesPoolsInv
<1>. QED  BY <1>1, <1>2, PTL DEF Spec

(* Every variable of NodePools has its type. *)
THEOREM PoolsTypeCorrect == Spec => []PoolsTypeOK
<1>1. PoolsInv => PoolsTypeOK
  BY DEF PoolsInv
<1>. QED  BY <1>1, PoolsInvariance, PTL

(* No answer that is lost and no crash in the middle of the calls makes the  *)
(* handler create a second pool of a name.                                   *)
THEOREM PoolsUnique == Spec => []NoneCreatedTwice
<1>1. PoolsInv => NoneCreatedTwice
  BY DEF PoolsInv
<1>. QED  BY <1>1, PoolsInvariance, PTL

(* "deletion needs to be done one by one": while ACK takes nodes off a pool  *)
(* or deletes it, no other pool is changing in any way, over however many    *)
(* reconciles, failed calls and crashes the deletions are spread.            *)
THEOREM DeletionsOneByOne == Spec => []OneDeletionAtATime
<1>1. PoolsInv => OneDeletionAtATime
  BY DEF PoolsInv, DeletionsOK
<1>. QED  BY <1>1, PoolsInvariance, PTL

(* A pool that is being deleted runs no node: neither its size, nor its      *)
(* limits, nor the autoscaler brought one back after it was looked at.       *)
THEOREM DeletionsEmpty == Spec => []DeletedEmpty
<1>1. PoolsInv => DeletedEmpty
  BY DEF PoolsInv, DeletionsOK
<1>. QED  BY <1>1, PoolsInvariance, PTL

(* A pool that has been asked for all the time is not deleted, however old   *)
(* the copy of the object is that the worker compares with the pools.        *)
THEOREM DeletionsWanted == Spec => []KeepsWanted
<1>1. PoolsInv => KeepsWanted
  BY DEF PoolsInv, DeletionsOK
<1>. QED  BY <1>1, PoolsInvariance, PTL

-----------------------------------------------------------------------------
(* What it means that nothing has to be done. *)

LEMMA NoUpdateFits ==
  ASSUME NEW s \in Settings, NEW u \in Settings, ~NeedsUpdate(s, u)
  PROVE  Fits(s, u)
  BY SettingsFields DEF NeedsUpdate, Fits

LEMMA NeedsNoUpdateOfItself ==
  ASSUME NEW s \in Settings
  PROVE  ~NeedsUpdate(s, s)
  BY DEF NeedsUpdate, LimitsDiffer, SizeDiffers

(* When nothing has to be created or deleted and what is there fits, the     *)
(* pools are what the copy of the object asks for, but for entries with the  *)
(* id of a pool that is gone.                                                *)
LEMMA DoneIsInSync ==
  ASSUME PoolsInv,
         ToCreate(FixIDs(work.pools, Listed)) = {},
         ToDelete(FixIDs(work.pools, Listed), Listed) = {},
         \A f \in FixIDs(work.pools, Listed), l \in Listed :
           f.id = l.id => Fits(f.set, l.set),
         \A e \in work.pools : e.id = NoPool \/ \E i \in Live : pools[i].name = e.name
  PROVE  InSync(work)
<1>. DEFINE fixed == FixIDs(work.pools, Listed)
<1>1. /\ work.pools \subseteq Entries /\ Listed \subseteq Entries /\ NamesDiffer(Listed)
      /\ \A l \in Listed : l.id \in Live /\ l.id # NoPool /\ l.name = pools[l.id].name
                           /\ l.set = pools[l.id].set
      /\ \A i \in Live : \E l \in Listed : l.id = i /\ l.name = pools[i].name
  BY ListedFacts DEF PoolsInv, PoolsTypeOK, Objects
<1>2. \A f \in fixed : f.id # NoPool
  BY DEF ToCreate
<1>3. \A f \in fixed, l \in Listed : f.id = l.id => Fits(f.set, l.set)
  OBVIOUS
<1>4. \A l \in Listed : \E f \in fixed : f.id = l.id
  BY DEF ToDelete
<1>. HIDE DEF fixed
<1>ids. /\ \A f \in fixed : \E e \in work.pools : f.name = e.name /\ f.id = IdOf(e, Listed)
      /\ \A e \in work.pools : \E f \in fixed : f.name = e.name /\ f.id = IdOf(e, Listed)
  <2>1. work.pools \in SUBSET Entries /\ Listed \in SUBSET Entries
    BY <1>1
  <2>. QED  BY <2>1, FixedEntries DEF fixed
<1>5. ASSUME NEW e \in work.pools
      PROVE  \E l \in Listed : l.name = e.name
  <2>1. \E f \in fixed : f.name = e.name /\ f.id = IdOf(e, Listed)
    BY <1>ids
  <2>2. IdOf(e, Listed) # NoPool
    BY <1>2, <2>1
  <2>3. CASE e.id = NoPool
    BY <2>2, <2>3 DEF IdOf, Named
  <2>4. CASE \E i \in Live : pools[i].name = e.name
    BY <1>1, <2>4
  <2>. QED  BY <2>3, <2>4
<1>6. ASSUME NEW e \in work.pools
      PROVE  \E i \in Live : pools[i].name = e.name /\ Fits(e.set, pools[i].set)
  <2>1. PICK l \in Listed : l.name = e.name
    BY <1>5
  <2>. DEFINE f == [e EXCEPT !.id = IdOf(e, Listed)]
  <2>2. f \in fixed
    BY DEF FixIDs, fixed
  <2>3. f.id = l.id /\ f.set = e.set
    <3>1. IdOf(e, Listed) = l.id
      BY <1>1, <2>1, IdOfNamed
    <3>. QED  BY <1>1, <3>1 DEF Entries
  <2>. HIDE DEF f
  <2>4. Fits(e.set, l.set)
    BY <1>3, <2>2, <2>3
  <2>. QED  BY <1>1, <2>1, <2>4
<1>7. ASSUME NEW i \in Live
      PROVE  \E e \in work.pools : e.name = pools[i].name
  <2>1. PICK l \in Listed : l.id = i /\ l.name = pools[i].name
    BY <1>1
  <2>2. PICK f \in fixed : f.id = l.id
    BY <1>4
  <2>3. PICK e \in work.pools : f.id = IdOf(e, Listed)
    BY <1>ids
  <2>4. PICK m \in Listed : m.name = e.name
    BY <1>5
  <2>5. m.id = l.id
    BY <1>1, <2>2, <2>3, <2>4, IdOfNamed
  <2>. QED  BY <1>1, <2>1, <2>4, <2>5
<1>. QED  BY <1>6, <1>7 DEF InSync

(* So it is when updateNodePools finds nothing to do.                        *)
THEOREM NothingToDoIsInSync ==
  ASSUME PoolsInv, ~Needed(FixIDs(work.pools, Listed)),
         \A e \in work.pools : e.id = NoPool \/ \E i \in Live : pools[i].name = e.name
  PROVE  InSync(work)
<1>. DEFINE fixed == FixIDs(work.pools, Listed)
<1>1. ASSUME NEW f \in fixed, NEW l \in Listed, f.id = l.id
      PROVE  Fits(f.set, l.set)
  <2>1. fixed \subseteq Entries /\ Listed \subseteq Entries
    BY FixedEntries, ListedFacts DEF PoolsInv, PoolsTypeOK, Objects
  <2>2. f.set \in Settings /\ l.set \in Settings
    BY <2>1 DEF Entries
  <2>3. <<f, l>> \in Pairs(fixed, Listed) /\ ~UpdateNeeded(fixed, Listed)
    BY <1>1 DEF Pairs, Needed
  <2>4. ~NeedsUpdate(f.set, l.set)
    BY <2>3 DEF UpdateNeeded
  <2>. QED  BY <2>2, <2>4, NoUpdateFits
<1>. QED  BY <1>1, DoneIsInSync DEF Needed

LEMMA ModifiesNothingOfItself ==
  ASSUME NEW s \in Settings
  PROVE  ~ShouldModify(s, s)
  BY SettingsFields DEF ShouldModify, LimitsDiffer, SizeDiffers

(* The object BuildUpstreamClusterState makes of the pools there are has no  *)
(* pool created, also when ACK has several pools of one name; only pools     *)
(* that share their name with another one are modified or deleted; and no    *)
(* call at all is made when all differ in name.                              *)
THEOREM ImportedNeedsNothing ==
  ASSUME PoolsTypeOK
  PROVE  LET fixed == FixIDs(UpstreamSpec.pools, Listed) IN
         /\ ToCreate(fixed) = {}
         /\ \A l \in ToDelete(fixed, Listed) : \E m \in Listed : m # l /\ m.name = l.name
         /\ \A f \in ToModify(fixed, Listed) :
              \E l, m \in Listed : m # l /\ m.name = f.name /\ l.name = f.name
         /\ NoneCreatedTwice => ~Needed(fixed)
<1>. DEFINE fixed == FixIDs(Listed, Listed)
            Fixed(l) == [l EXCEPT !.id = IdOf(l, Listed)]
<1>1. /\ Listed \subseteq Entries /\ UpstreamSpec.pools = Listed
      /\ \A l \in Listed : l.id # NoPool
  BY ListedFacts DEF UpstreamSpec
<1>2. \A l, m \in Listed : l.id = m.id => l = m
  BY DEF Listed
<1>3. ASSUME NEW l \in Listed
      PROVE  /\ \E m \in Listed : m.name = l.name /\ IdOf(l, Listed) = m.id
             /\ Fixed(l).name = l.name /\ Fixed(l).set = l.set /\ Fixed(l).id = IdOf(l, Listed)
             /\ Fixed(l) \in fixed
  <2>1. l \in Named(l, Listed)
    BY DEF Named
  <2>2. (CHOOSE m \in Named(l, Listed) : TRUE) \in Named(l, Listed)
    BY <2>1
  <2>3. \E m \in Listed : m.name = l.name /\ IdOf(l, Listed) = m.id
    BY <2>1, <2>2 DEF IdOf, Named
  <2>4. l \in Entries
    BY <1>1
  <2>. QED  BY <2>3, <2>4 DEF Entries, FixIDs
<1>4. \A f \in fixed : \E l \in Listed : f = Fixed(l)
  BY DEF FixIDs
<1>. HIDE DEF fixed, Fixed
<1>5. ToCreate(fixed) = {}
  BY <1>1, <1>3, <1>4 DEF ToCreate
<1>6. ASSUME NEW l \in ToDelete(fixed, Listed)
      PROVE  \E m \in Listed : m # l /\ m.name = l.name
  <2>1. l \in Listed /\ Fixed(l) \in fixed /\ Fixed(l).id # l.id
    BY <1>3 DEF ToDelete
  <2>. QED  BY <1>3, <2>1
<1>7. ASSUME NEW p \in Pairs(fixed, Listed),
             NeedsUpdate(p[1].set, p[2].set) \/ ShouldModify(p[1].set, p[2].set)
      PROVE  \E l, m \in Listed : m # l /\ m.name = p[1].name /\ l.name = p[1].name
  <2>1. p[1] \in fixed /\ p[2] \in Listed /\ p[1].id = p[2].id
    BY DEF Pairs
  <2>2. PICK l \in Listed : p[1] = Fixed(l)
    BY <1>4, <2>1
  <2>3. PICK m \in Listed : m.name = l.name /\ IdOf(l, Listed) = m.id
    BY <1>3
  <2>4. p[2] = m /\ p[1].name = l.name /\ p[1].set = l.set
    BY <1>2, <1>3, <2>1, <2>2, <2>3
  <2>5. l.set \in Settings
    BY <1>1 DEF Entries
  <2>6. l # m
    BY <1>7, <2>4, <2>5, NeedsNoUpdateOfItself, ModifiesNothingOfItself
  <2>. QED  BY <2>3, <2>4, <2>6
<1>8. ASSUME NEW f \in ToModify(fixed, Listed)
      PROVE  \E l, m \in Listed : m # l /\ m.name = f.name /\ l.name = f.name
  <2>1. PICK p \in Pairs(fixed, Listed) : f = p[1] /\ ShouldModify(p[1].set, p[2].set)
    BY <1>8 DEF ToModify
  <2>. QED  BY <1>7, <2>1
<1>9. ASSUME NoneCreatedTwice PROVE ~Needed(fixed)
  <2>1. \A l, m \in Listed : l.name = m.name => l = m
    BY <1>9, ListedFacts DEF NamesDiffer
  <2>2. ToDelete(fixed, Listed) = {}
    <3>1. \A l \in ToDelete(fixed, Listed) : l \in Listed
      BY DEF ToDelete
    <3>. QED  BY <1>6, <2>1, <3>1
  <2>3. ~UpdateNeeded(fixed, Listed)
    BY <1>7, <2>1 DEF UpdateNeeded
  <2>. QED  BY <1>5, <2>2, <2>3 DEF Needed
<1>. QED  BY <1>1, <1>5, <1>6, <1>8, <1>9 DEF fixed

=============================================================================
