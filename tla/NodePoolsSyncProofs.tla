-------------------------- MODULE NodePoolsSyncProofs --------------------------
(***************************************************************************)
(* Theorems about what it means that an object is active: its node pools   *)
(* are what it asks for, until an id in the object misleads the operator.  *)
(***************************************************************************)
EXTENDS NodePoolsProofs

-----------------------------------------------------------------------------
(* Copies that differ in the ids alone. *)

LEMMA SameIsAlike ==
  ASSUME NEW o, NEW c, o.managed = c.managed, o.pools = c.pools
  PROVE  Alike(o, c)
  BY DEF Alike, Asks

LEMMA AlikeChain ==
  ASSUME NEW o, NEW c, NEW d, Alike(o, c), Alike(c, d)
  PROVE  Alike(o, d) /\ Alike(c, o)
  BY DEF Alike

(* What one of them asks for, the other does, too. *)
LEMMA AlikeEntries ==
  ASSUME NEW o, NEW c, Alike(o, c), NEW e \in o.pools
  PROVE  \E f \in c.pools : f.name = e.name /\ f.set = e.set
<1>1. [name |-> e.name, set |-> e.set] \in Asks(c)
  BY DEF Alike, Asks
<1>2. PICK f \in c.pools : [name |-> e.name, set |-> e.set] = [name |-> f.name, set |-> f.set]
  BY <1>1 DEF Asks
<1>3. [name |-> e.name, set |-> e.set].name = e.name
      /\ [name |-> e.name, set |-> e.set].set = e.set
  OBVIOUS
<1>4. [name |-> f.name, set |-> f.set].name = f.name
      /\ [name |-> f.name, set |-> f.set].set = f.set
  OBVIOUS
<1>. QED  BY <1>2, <1>3, <1>4

LEMMA AlikeInSync ==
  ASSUME NEW o, NEW c, Alike(o, c), InSync(o)
  PROVE  InSync(c)
<1>. SUFFICES ASSUME c.managed
              PROVE  /\ \A e \in c.pools : \E i \in Live :
                          pools[i].name = e.name /\ Fits(e.set, pools[i].set)
                     /\ \A i \in Live : \E e \in c.pools : e.name = pools[i].name
  BY DEF InSync
<1>1. /\ \A e \in o.pools : \E i \in Live :
           pools[i].name = e.name /\ Fits(e.set, pools[i].set)
      /\ \A i \in Live : \E e \in o.pools : e.name = pools[i].name
  BY DEF Alike, InSync
<1>2. \A e \in c.pools : \E f \in o.pools : f.name = e.name /\ f.set = e.set
  <2>1. Alike(c, o)
    BY DEF Alike
  <2>. QED  BY <2>1, AlikeEntries
<1>3. \A e \in o.pools : \E f \in c.pools : f.name = e.name /\ f.set = e.set
  BY AlikeEntries
<1>. QED  BY <1>1, <1>2, <1>3

LEMMA FixedAsks ==
  ASSUME NEW asked \in SUBSET Entries, NEW listed \in SUBSET Entries
  PROVE  {[name |-> f.name, set |-> f.set] : f \in FixIDs(asked, listed)}
           = {[name |-> e.name, set |-> e.set] : e \in asked}
<1>1. \A e \in asked : LET f == [e EXCEPT !.id = IdOf(e, listed)] IN
        f.name = e.name /\ f.set = e.set
  BY DEF Entries
<1>2. \A f \in FixIDs(asked, listed) : \E e \in asked : f.name = e.name /\ f.set = e.set
  BY <1>1 DEF FixIDs
<1>3. \A e \in asked : \E f \in FixIDs(asked, listed) : f.name = e.name /\ f.set = e.set
  BY <1>1 DEF FixIDs
<1>. QED  BY <1>2, <1>3

-----------------------------------------------------------------------------
(* Pools that are found stay found. *)

(* All but the pool v stay where they are, unless they are being deleted.    *)
KeepsBut(v) == \A i \in PoolIDs \ {v} :
    i \in Live /\ pools[i].state # "deleting" =>
        i \in Live' /\ pools'[i].name = pools[i].name /\ pools'[i].state # "deleting"

LEMMA FoundKept ==
  ASSUME NEW v, KeepsBut(v), NEW e, Found(e), e.id = NoPool \/ e.id # v
  PROVE  Found(e)'
<1>1. CASE e.id = NoPool
  BY <1>1 DEF Found
<1>2. CASE e.id # NoPool
  <2>1. e.id \in PoolIDs \ {v} /\ e.id \in Live
    BY <1>2 DEF Found, Live
  <2>. QED  BY <1>2, <2>1 DEF Found, KeepsBut
<1>. QED  BY <1>1, <1>2

LEMMA SameKeeps ==
  ASSUME NEW v, pools' = pools
  PROVE  KeepsBut(v) /\ Live' = Live
  BY DEF KeepsBut, Live

(* One pool changes but is neither deleted nor renamed, or is no pool yet,   *)
(* or was deleted before.                                                    *)
LEMMA OneKeeps ==
  ASSUME pools \in [PoolIDs -> Pools], NEW i \in PoolIDs, NEW p \in Pools,
         pools' = [pools EXCEPT ![i] = p],
         \/ p.name = pools[i].name /\ p.state \notin {"none", "gone", "deleting"}
         \/ pools[i].state \in {"none", "gone", "deleting"}
  PROVE  KeepsBut(NoPool)
<1>1. pools'[i] = p /\ \A j \in PoolIDs \ {i} : pools'[j] = pools[j]
  BY OnePool
<1>. QED  BY <1>1, LiveStates DEF KeepsBut

-----------------------------------------------------------------------------
(* The end of a reconcile, and the way to its next call. *)

(* What a step of the worker does to the object and to the rest. *)
Leaves ==
    /\ obj'.managed = obj.managed /\ obj'.pools = obj.pools
    /\ cache' = cache /\ misled' = misled
    /\ cacheCurrent' => cacheCurrent

LEMMA LeavesAlike ==
  ASSUME AlikeOK, Leaves
  PROVE  /\ cacheCurrent' => Alike(cache', obj')
         /\ \A c : Alike(c, obj) => Alike(c, obj')
<1>1. Alike(obj, obj')
  BY SameIsAlike DEF Leaves
<1>. QED  BY <1>1, AlikeChain DEF AlikeOK, Leaves

LEMMA KeepsItself ==
  ASSUME NEW o \in Objects
  PROVE  Keeps(o, o) /\ \A e \in o.pools : e.name \in Wanted(o)
  BY DEF Keeps, Wanted, Objects, Entries

(* No copy has the id of a pool that is being deleted.                       *)
LEMMA SpareVictim ==
  ASSUME PoolsInv, FoundOK, KeepsOK, pc \in Deleting,
         NEW e \in obj.pools \cup cache.pools \cup work.pools
  PROVE  e.id = NoPool \/ e.id # victim
<1>. SUFFICES ASSUME e.id # NoPool, e.id = victim PROVE FALSE
  OBVIOUS
<1>1. victim \in Live /\ pools[victim].name = e.name
  BY DEF FoundOK, Found
<1>2. e.name \in Wanted(work)
  <2>1. CASE e \in obj.pools \cup cache.pools
    BY <2>1 DEF KeepsOK, Keeps, Deleting
  <2>2. CASE e \in work.pools
    BY <2>2, KeepsItself DEF PoolsInv, PoolsTypeOK
  <2>. QED  BY <2>1, <2>2
<1>. QED  BY <1>1, <1>2 DEF PoolsInv, VictimOK

LEMMA IdleSync ==
  ASSUME PoolsInv, SyncInv, Idle, Leaves,
         KeepsBut(NoPool) \/ (pc \in Deleting /\ KeepsBut(victim))
  PROVE  SyncInv'
<1>1. pc' = "idle" /\ work' = Nothing /\ workCurrent' = FALSE /\ given' = FALSE
  BY DEF Idle
<1>2. AlikeOK'
  BY <1>1, LeavesAlike DEF SyncInv, AlikeOK
<1>3. ASSUME ~misled' PROVE FoundOK' /\ KeepsOK' /\ ActivateOK'
  <2>1. FoundOK /\ KeepsOK
    BY <1>3 DEF SyncInv, Leaves
  <2>2. PICK v : KeepsBut(v) /\ (v = NoPool \/ (pc \in Deleting /\ v = victim))
    OBVIOUS
  <2>3. ASSUME NEW e \in obj.pools \cup cache.pools PROVE Found(e)'
    <3>1. Found(e) /\ (e.id = NoPool \/ e.id # v)
      BY <2>1, <2>2, SpareVictim DEF FoundOK
    <3>. QED  BY <2>2, <3>1, FoundKept
  <2>4. Nothing.pools = {}
    BY DEF Nothing
  <2>5. FoundOK'
    BY <1>1, <2>3, <2>4 DEF FoundOK, Leaves
  <2>6. KeepsOK'
    BY <1>1, <2>1 DEF KeepsOK, Keeps, Wanted, Leaves
  <2>. QED  BY <1>1, <2>5, <2>6 DEF ActivateOK
<1>. QED  BY <1>2, <1>3 DEF SyncInv

LEMMA GoToSync ==
  ASSUME SyncInv, pc # "idle", NEW label, label # "setActive", GoTo(label),
         UNCHANGED <<cache, misled>>, KeepsBut(NoPool)
  PROVE  SyncInv'
<1>1. Leaves /\ pc' = label /\ UNCHANGED <<work, workCurrent, given>>
  BY DEF GoTo, Leaves
<1>2. AlikeOK'
  BY <1>1, LeavesAlike DEF SyncInv, AlikeOK, Leaves
<1>3. ASSUME ~misled' PROVE FoundOK' /\ KeepsOK' /\ ActivateOK'
  <2>1. FoundOK /\ KeepsOK
    BY <1>1, <1>3 DEF SyncInv, Leaves
  <2>2. \A e : Found(e) => Found(e)'
    BY FoundKept
  <2>3. FoundOK'
    BY <1>1, <2>1, <2>2 DEF FoundOK, Leaves
  <2>4. KeepsOK'
    BY <1>1, <2>1 DEF KeepsOK, Keeps, Wanted, Leaves
  <2>. QED  BY <1>1, <2>3, <2>4 DEF ActivateOK
<1>. QED  BY <1>2, <1>3 DEF SyncInv

-----------------------------------------------------------------------------
(* Comparing the pools with the object. *)

LEMMA NoModifyFits ==
  ASSUME NEW s \in Settings, NEW u \in Settings, ~ShouldModify(s, u)
  PROVE  Fits(s, u)
  BY SettingsFields DEF ShouldModify, Fits

(* The ids found by name are those of pools that are there. *)
LEMMA FixedFound ==
  ASSUME PoolsInv, pc = "classify", \A e \in work.pools : Found(e),
         NEW f \in FixIDs(work.pools, Listed)
  PROVE  Found(f)
<1>1. /\ work.pools \subseteq Entries /\ Listed \subseteq Entries /\ NamesDiffer(Listed)
      /\ \A l \in Listed : /\ l.id \in Live /\ l.id # NoPool
                           /\ l.name = pools[l.id].name
      /\ \A i \in Live : \E l \in Listed : l.id = i /\ l.name = pools[i].name
  BY ListedFacts DEF PoolsInv, PoolsTypeOK, Objects
<1>2. PICK e \in work.pools : f.name = e.name /\ f.id = IdOf(e, Listed)
  <2>1. work.pools \in SUBSET Entries /\ Listed \in SUBSET Entries
    BY <1>1
  <2>. QED  BY <2>1, FixedEntries
<1>3. CASE \E l \in Listed : l.name = e.name
  <2>1. PICK l \in Listed : l.name = e.name
    BY <1>3
  <2>2. f.id = l.id /\ l.id \in Live /\ pools[l.id].name = f.name
    BY <1>1, <1>2, <2>1, IdOfNamed
  <2>3. pools[l.id].state = "active"
    BY <2>2 DEF PoolsInv, QuietOK
  <2>. QED  BY <2>2, <2>3 DEF Found
<1>4. CASE ~\E l \in Listed : l.name = e.name
  <2>1. f.id = e.id
    BY <1>2, <1>4 DEF IdOf, Named
  <2>2. e.id = NoPool
    BY <1>1, <1>4 DEF Found
  <2>. QED  BY <2>1, <2>2 DEF Found
<1>. QED  BY <1>3, <1>4

(* When updateUpstreamClusterState has come to its end, the pools are what   *)
(* the copy of the object asks for.                                          *)
LEMMA FinishInSync ==
  ASSUME PoolsInv, Classify, Finish, \A e \in work.pools : Found(e)
  PROVE  InSync(work)
<1>. DEFINE fixed == FixIDs(work.pools, Listed)
<1>1. \A e \in work.pools : e.id = NoPool \/ \E i \in Live : pools[i].name = e.name
  BY DEF Found
<1>2. CASE ~work.managed
  BY <1>2 DEF InSync
<1>3. CASE ~Needed(fixed)
  BY <1>1, <1>3, NothingToDoIsInSync
<1>4. CASE work.managed /\ Needed(fixed)
  <2>1. IF work.phase = Updating THEN MakeCalls(fixed) ELSE EnqueueUpdate
    BY <1>4 DEF Classify
  <2>2. work.phase = Updating
    <3>. SUFFICES ASSUME work.phase # Updating PROVE FALSE
      OBVIOUS
    <3>1. work.phase = Active
      BY DEF PoolsInv, PoolsTypeOK, Objects
    <3>. QED  BY <2>1, <3>1 DEF EnqueueUpdate, Finish, Idle, GoTo
  <2>3. pc' = "setActive" /\ MakeCalls(fixed)
    BY <2>1, <2>2 DEF Finish, GoTo, Active, Updating
  <2>4. ToCreate(fixed) = {} /\ ToDelete(fixed, Listed) = {}
        /\ ~(UpdateNeeded(fixed, Listed) /\ ToModify(fixed, Listed) # {})
    BY <2>3 DEF MakeCalls, Calls, GoTo, DrainStep
  <2>5. ASSUME NEW f \in fixed, NEW l \in Listed, f.id = l.id
        PROVE  Fits(f.set, l.set)
    <3>1. fixed \subseteq Entries /\ Listed \subseteq Entries
      BY FixedEntries, ListedFacts DEF PoolsInv, PoolsTypeOK, Objects
    <3>2. f.set \in Settings /\ l.set \in Settings
      BY <3>1 DEF Entries
    <3>3. <<f, l>> \in Pairs(fixed, Listed)
      BY <2>5 DEF Pairs
    <3>4. CASE ~UpdateNeeded(fixed, Listed)
      <4>1. ~NeedsUpdate(f.set, l.set)
        BY <3>3, <3>4 DEF UpdateNeeded
      <4>. QED  BY <3>2, <4>1, NoUpdateFits
    <3>5. CASE ToModify(fixed, Listed) = {}
      <4>1. ~ShouldModify(f.set, l.set)
        BY <3>3, <3>5 DEF ToModify
      <4>. QED  BY <3>2, <4>1, NoModifyFits
    <3>. QED  BY <2>4, <3>4, <3>5
  <2>. QED  BY <1>1, <2>4, <2>5, DoneIsInSync
<1>. QED  BY <1>2, <1>3, <1>4

LEMMA ClassifySync ==
  ASSUME PoolsInv, SyncInv, Classify
  PROVE  SyncInv'
<1>. DEFINE fixed == FixIDs(work.pools, Listed)
<1>1. /\ pc = "classify" /\ UNCHANGED <<pools, misled>> /\ Live' = Live
      /\ cache' = IF given THEN [cache EXCEPT !.pools = fixed] ELSE cache
  BY DEF Classify, othersVars, Live
<1>2. Finish \/ EnqueueUpdate \/ (work.managed /\ MakeCalls(fixed))
  BY DEF Classify
<1>3. /\ obj'.managed = obj.managed /\ obj'.pools = obj.pools
      /\ cacheCurrent' => cacheCurrent
      /\ Idle \/ UNCHANGED <<work, workCurrent, given>>
  BY <1>2 DEF Finish, EnqueueUpdate, Requeue, MakeCalls, Calls, GoTo
<1>4. /\ cache'.managed = cache.managed
      /\ given => cache'.pools = fixed
      /\ ~given => cache'.pools = cache.pools
  BY <1>1 DEF PoolsInv, PoolsTypeOK, Objects
<1>5. Alike(cache', cache) /\ (given => Alike(cache', work))
  <2>1. CASE ~given
    BY <1>4, <2>1, SameIsAlike
  <2>2. CASE given
    <3>1. work.pools \in SUBSET Entries /\ Listed \in SUBSET Entries
      BY ListedFacts DEF PoolsInv, PoolsTypeOK, Objects
    <3>2. {[name |-> f.name, set |-> f.set] : f \in fixed}
            = {[name |-> e.name, set |-> e.set] : e \in work.pools}
      BY <3>1, FixedAsks
    <3>. HIDE DEF fixed
    <3>3. Asks(cache') = Asks(work)
      BY <1>4, <2>2, <3>2 DEF Asks
    <3>4. cache.managed = work.managed /\ Asks(cache) = Asks(work)
      BY <2>2 DEF SyncInv, AlikeOK, Alike
    <3>. QED  BY <1>4, <3>3, <3>4 DEF Alike
  <2>. QED  BY <2>1, <2>2
<1>. HIDE DEF fixed
<1>6. AlikeOK'
  <2>1. Alike(obj, obj')
    BY <1>3, SameIsAlike
  <2>2. /\ cacheCurrent' => Alike(cache', obj')
        /\ workCurrent => Alike(work, obj')
    BY <1>3, <1>5, <2>1, AlikeChain DEF SyncInv, AlikeOK
  <2>3. (workCurrent' => Alike(work', obj')) /\ (given' => Alike(cache', work'))
    <3>1. CASE Idle
      BY <3>1 DEF Idle
    <3>2. CASE UNCHANGED <<work, workCurrent, given>>
      BY <1>5, <2>2, <3>2
    <3>. QED  BY <1>3, <3>1, <3>2
  <2>. QED  BY <2>2, <2>3 DEF AlikeOK
<1>7. ASSUME ~misled' PROVE FoundOK' /\ KeepsOK' /\ ActivateOK'
  <2>1. FoundOK /\ KeepsOK /\ \A e \in work.pools : Found(e)
    BY <1>1, <1>7 DEF SyncInv, FoundOK
  <2>2. \A e : Found(e) => Found(e)'
    BY <1>1 DEF Found
  <2>3. \A e \in cache'.pools : Found(e)
    <3>1. CASE given
      BY <1>1, <1>4, <2>1, <3>1, FixedFound DEF fixed
    <3>2. CASE ~given
      BY <1>4, <2>1, <3>2 DEF FoundOK
    <3>. QED  BY <3>1, <3>2
  <2>4. \A e \in work'.pools : Found(e)
    BY <1>3, <2>1 DEF Idle, Nothing
  <2>5. FoundOK'
    BY <1>3, <2>1, <2>2, <2>3, <2>4 DEF FoundOK
  <2>6. Keeps(obj, cache') /\ Keeps(cache', work)
    <3>1. CASE given
      <4>1. work.pools \in SUBSET Entries /\ Listed \in SUBSET Entries
        BY ListedFacts DEF PoolsInv, PoolsTypeOK, Objects
      <4>2. {f.name : f \in fixed} = {e.name : e \in work.pools}
        BY <4>1, FixedEntries DEF fixed
      <4>3. cache'.managed = work.managed
        BY <1>4, <3>1 DEF PoolsInv, CopiesOK
      <4>4. Wanted(cache') = Wanted(work)
        BY <1>4, <3>1, <4>2, <4>3 DEF Wanted
      <4>5. \A f \in fixed : \E e \in work.pools : f.name = e.name
        BY <4>2
      <4>6. Keeps(cache', work)
        BY <1>4, <3>1, <4>5, KeepsItself DEF Keeps, PoolsInv, PoolsTypeOK
      <4>. QED  BY <1>1, <2>1, <4>4, <4>6 DEF KeepsOK, Keeps
    <3>2. CASE ~given
      BY <1>1, <1>4, <2>1, <3>2 DEF KeepsOK, Keeps, Wanted
    <3>. QED  BY <3>1, <3>2
  <2>7. KeepsOK'
    <3>1. Keeps(obj', cache')
      BY <1>3, <2>6 DEF Keeps
    <3>2. CASE Idle
      BY <3>1, <3>2 DEF KeepsOK, Keeps, Wanted, Idle
    <3>3. CASE work' = work
      <4>1. Keeps(obj', work) /\ Keeps(cache', work)
        BY <1>1, <1>3, <2>1, <2>6 DEF KeepsOK, Keeps
      <4>. QED  BY <3>1, <3>3, <4>1 DEF KeepsOK, Keeps, Wanted
    <3>. QED  BY <1>3, <3>2, <3>3
  <2>8. ActivateOK'
    <3>. SUFFICES ASSUME pc' = "setActive"
                  PROVE  InSync(work)' /\ \A i \in Live' : pools'[i].state = "active"
      BY DEF ActivateOK
    <3>1. Finish
      <4>1. CASE Finish
        BY <4>1
      <4>2. CASE EnqueueUpdate
        BY <4>2 DEF EnqueueUpdate, Requeue, Idle, GoTo
      <4>3. CASE work.managed /\ MakeCalls(fixed)
        BY <4>3 DEF MakeCalls, Calls, GoTo, DrainStep
      <4>. QED  BY <1>2, <4>1, <4>2, <4>3
    <3>2. InSync(work) /\ work' = work
      BY <1>3, <2>1, <3>1, FinishInSync DEF Idle
    <3>3. InSync(work)'
      BY <1>1, <3>2 DEF InSync
    <3>. QED  BY <1>1, <3>3 DEF PoolsInv, QuietOK
  <2>. QED  BY <2>5, <2>7, <2>8
<1>. QED  BY <1>6, <1>7 DEF SyncInv

-----------------------------------------------------------------------------
(* The other steps. *)

LEMMA StartSync ==
  ASSUME PoolsInv, SyncInv, Start
  PROVE  SyncInv'
<1>1. /\ pc' = "wait" /\ work' = cache /\ workCurrent' = cacheCurrent
      /\ UNCHANGED <<obj, cache, cacheCurrent, pools, misled>> /\ Live' = Live
  BY DEF Start, objVars, othersVars, Live
<1>2. AlikeOK'
  BY <1>1, SameIsAlike DEF SyncInv, AlikeOK
<1>3. ASSUME ~misled' PROVE FoundOK' /\ KeepsOK' /\ ActivateOK'
  <2>1. FoundOK /\ KeepsOK
    BY <1>1, <1>3 DEF SyncInv
  <2>2. \A e : Found(e) => Found(e)'
    BY <1>1 DEF Found
  <2>3. FoundOK'
    BY <1>1, <2>1, <2>2 DEF FoundOK
  <2>4. Keeps(cache, cache)
    BY KeepsItself DEF PoolsInv, PoolsTypeOK
  <2>5. KeepsOK'
    BY <1>1, <2>1, <2>4 DEF KeepsOK, Keeps, Wanted
  <2>. QED  BY <1>1, <2>3, <2>5 DEF ActivateOK
<1>. QED  BY <1>2, <1>3 DEF SyncInv

LEMMA StopLeaves ==
  ASSUME PoolsTypeOK, Requeue \/ ReturnError, UNCHANGED <<cache, misled>>
  PROVE  Idle /\ Leaves
<1>1. CASE Requeue
  <2>1. cacheCurrent' => cacheCurrent
    BY <1>1 DEF PoolsTypeOK, Requeue
  <2>. QED  BY <1>1, <2>1 DEF Requeue, Leaves
<1>2. CASE ReturnError
  <2>1. obj'.managed = obj.managed /\ obj'.pools = obj.pools
    BY <1>2, PhaseType DEF PoolsTypeOK, ReturnError
  <2>2. cacheCurrent' => cacheCurrent
    BY <1>2 DEF PoolsTypeOK, ReturnError
  <2>. QED  BY <1>2, <2>1, <2>2 DEF ReturnError, Leaves
<1>. QED  BY <1>1, <1>2

LEMMA EnqueueSync ==
  ASSUME PoolsInv, SyncInv, pc # "idle", EnqueueUpdate,
         UNCHANGED <<cache, misled, pools>>
  PROVE  SyncInv'
<1>1. KeepsBut(NoPool)
  BY SameKeeps
<1>2. CASE Requeue
  BY <1>1, <1>2, StopLeaves, IdleSync DEF PoolsInv
<1>3. CASE GoTo("setUpdating")
  BY <1>1, <1>3, GoToSync DEF Deleting
<1>. QED  BY <1>2, <1>3 DEF EnqueueUpdate

LEMMA CallKeeps ==
  ASSUME PoolsInv, NEW e \in todo, Modify(e) \/ \E id \in PoolIDs : NewPool(e, id)
  PROVE  KeepsBut(NoPool)
<1>0. e \in Entries /\ 0 \in Sizes /\ pools \in [PoolIDs -> Pools]
  BY PoolsAssumption DEF PoolsInv, PoolsTypeOK, Sizes
<1>1. CASE Modify(e)
  <2>. DEFINE i == e.id
              s == Modified(e.set, pools[i].set)
              p == [pools[i] EXCEPT !.set = s, !.state = "scaling"]
  <2>1. i \in PoolIDs
    BY <1>1 DEF Modify, Live
  <2>2. s \in Settings
    BY <1>0, <2>1, ModifiedType DEF Entries, Pools
  <2>. HIDE DEF s
  <2>3. p \in Pools /\ p.name = pools[i].name /\ p.state = "scaling"
    BY <1>0, <2>1, <2>2 DEF Pools, States, Changing
  <2>4. pools' = [pools EXCEPT ![i] = p]
    BY <1>0, <1>1, <2>1 DEF Modify, Pools, s
  <2>. HIDE DEF p
  <2>. QED  BY <1>0, <2>1, <2>3, <2>4, OneKeeps
<1>2. ASSUME NEW id \in PoolIDs, NewPool(e, id) PROVE KeepsBut(NoPool)
  <2>. DEFINE p == [name |-> e.name, set |-> e.set, state |-> "initial", nodes |-> 0]
  <2>1. p \in Pools
    BY <1>0 DEF Entries, Pools, States, Changing
  <2>2. pools' = [pools EXCEPT ![id] = p] /\ pools[id].state = "none"
    BY <1>2 DEF NewPool
  <2>. HIDE DEF p
  <2>. QED  BY <1>0, <2>1, <2>2, OneKeeps
<1>. QED  BY <1>1, <1>2

LEMMA QueueSync ==
  ASSUME PoolsInv, SyncInv,
         CreateNodePool \/ CreateNodePoolFails \/ ModifyNodePool \/ ModifyNodePoolFails
  PROVE  SyncInv'
<1>1. /\ pc \in {"create", "modify"} /\ GoTo(pc) /\ UNCHANGED <<cache, misled>>
      /\ UNCHANGED pools \/ \E e \in todo : Modify(e) \/ \E id \in PoolIDs : NewPool(e, id)
  BY DEF CreateNodePool, CreateNodePoolFails, ModifyNodePool, ModifyNodePoolFails, othersVars
<1>2. KeepsBut(NoPool)
  BY <1>1, SameKeeps, CallKeeps
<1>. QED  BY <1>1, <1>2, GoToSync DEF Deleting

LEMMA DrainSync ==
  ASSUME PoolsInv, SyncInv, DeleteNodePool \/ CallFails \/ CallsMade
  PROVE  SyncInv'
<1>1. /\ Requeue \/ ReturnError
      /\ UNCHANGED <<cache, misled>>
      /\ UNCHANGED pools \/ DrainCall
  BY DEF DeleteNodePool, CallFails, CallsMade, othersVars
<1>2. CASE UNCHANGED pools
  BY <1>1, <1>2, StopLeaves, SameKeeps, IdleSync DEF PoolsInv
<1>3. CASE DrainCall
  <2>1. pc \in Deleting
    BY <1>3 DEF DrainCall, Deleting
  <2>2. \A i \in PoolIDs \ {victim} : pools'[i] = pools[i]
    BY <1>3 DEF DrainCall, PoolsInv, PoolsTypeOK
  <2>3. KeepsBut(victim)
    BY <2>2 DEF KeepsBut, Live
  <2>. QED  BY <1>1, <2>1, <2>3, StopLeaves, IdleSync DEF PoolsInv
<1>. QED  BY <1>1, <1>2, <1>3

LEMMA DescribeSync ==
  ASSUME PoolsInv, SyncInv, DescribeClusterNodes
  PROVE  SyncInv'
<1>1. pc = "nodes" /\ UNCHANGED <<cache, misled>> /\ KeepsBut(NoPool)
  BY SameKeeps DEF DescribeClusterNodes, othersVars
<1>2. CASE Requeue
  BY <1>1, <1>2, StopLeaves, IdleSync DEF PoolsInv
<1>3. ASSUME NEW label \in {"delete", "removeNodes"}, GoTo(label), UNCHANGED callVars
      PROVE  SyncInv'
  BY <1>1, <1>3, GoToSync DEF Deleting, callVars
<1>. QED  BY <1>2, <1>3 DEF DescribeClusterNodes

LEMMA SetPhaseSync ==
  ASSUME PoolsInv, SyncInv, SetPhase \/ SetPhaseFails
  PROVE  SyncInv'
<1>1. Idle /\ UNCHANGED <<cache, misled, pools>>
      /\ obj'.managed = obj.managed /\ obj'.pools = obj.pools
      /\ (cacheCurrent' => cacheCurrent)
  BY DEF SetPhase, SetPhaseFails, othersVars, PoolsInv, PoolsTypeOK, Objects
<1>. QED  BY <1>1, SameKeeps, IdleSync DEF Leaves

LEMMA WorkerSync ==
  ASSUME PoolsInv, SyncInv, Worker
  PROVE  SyncInv'
<1>1. CASE Wait
  <2>1. pc = "wait" /\ UNCHANGED <<cache, misled, pools>>
    BY <1>1 DEF Wait, othersVars
  <2>2. CASE EnqueueUpdate
    BY <2>1, <2>2, EnqueueSync
  <2>3. CASE GoTo("classify")
    BY <2>1, <2>3, SameKeeps, GoToSync DEF Deleting
  <2>. QED  BY <1>1, <2>2, <2>3 DEF Wait
<1>. QED  BY <1>1, StartSync, ClassifySync, QueueSync, DrainSync, DescribeSync, SetPhaseSync
          DEF Worker

LEMMA SyncSync ==
  ASSUME PoolsInv, SyncInv, Sync
  PROVE  SyncInv'
<1>1. /\ cache' = obj /\ given' = FALSE
      /\ UNCHANGED <<obj, pc, work, workCurrent, pools, misled>>
      /\ Live' = Live
  BY DEF Sync, callVars, othersVars, Live
<1>2. AlikeOK'
  BY <1>1, SameIsAlike DEF SyncInv, AlikeOK
<1>3. ASSUME ~misled' PROVE FoundOK' /\ KeepsOK' /\ ActivateOK'
  <2>1. FoundOK /\ KeepsOK /\ ActivateOK
    BY <1>1, <1>3 DEF SyncInv
  <2>2. \A e : Found(e) => Found(e)'
    BY <1>1 DEF Found
  <2>3. FoundOK'
    BY <1>1, <2>1, <2>2 DEF FoundOK
  <2>4. Keeps(obj, obj)
    BY KeepsItself DEF PoolsInv, PoolsTypeOK
  <2>5. KeepsOK'
    BY <1>1, <2>1, <2>4 DEF KeepsOK, Keeps, Wanted
  <2>6. ActivateOK'
    BY <1>1, <2>1 DEF ActivateOK, InSync
  <2>. QED  BY <2>3, <2>5, <2>6
<1>. QED  BY <1>2, <1>3 DEF SyncInv

(* An id the user writes is that of a pool the operator keeps, or misled     *)
(* says that it is not.                                                      *)
LEMMA EditSync ==
  ASSUME SyncInv, UserEdit
  PROVE  SyncInv'
<1>1. /\ UNCHANGED <<cache, pc, work, given, pools>> /\ Live' = Live
      /\ cacheCurrent' = FALSE /\ workCurrent' = FALSE
      /\ misled' = (misled \/ \E e \in obj'.pools : ~Acknowledged(e))
  BY DEF UserEdit, callVars, Live
<1>2. AlikeOK'
  BY <1>1 DEF SyncInv, AlikeOK
<1>3. ASSUME ~misled' PROVE FoundOK' /\ KeepsOK' /\ ActivateOK'
  <2>1. FoundOK /\ KeepsOK /\ ActivateOK
    BY <1>1, <1>3 DEF SyncInv
  <2>2. \A e \in obj'.pools : Acknowledged(e)
    BY <1>1, <1>3
  <2>3. \A e : Found(e) => Found(e)'
    BY <1>1 DEF Found
  <2>4. FoundOK'
    BY <1>1, <2>1, <2>2, <2>3 DEF FoundOK, Acknowledged
  <2>5. Keeps(obj', cache) /\ (pc # "idle" => Keeps(obj', work))
    BY <2>2 DEF Keeps, Acknowledged
  <2>6. KeepsOK'
    BY <1>1, <2>1, <2>5 DEF KeepsOK, Keeps, Wanted
  <2>7. ActivateOK'
    BY <1>1, <2>1 DEF ActivateOK, InSync
  <2>. QED  BY <2>4, <2>6, <2>7
<1>. QED  BY <1>2, <1>3 DEF SyncInv

LEMMA CrashSync ==
  ASSUME PoolsInv, SyncInv, Crash
  PROVE  SyncInv'
<1>1. /\ cache' = obj /\ pc' = "idle" /\ work' = Nothing
      /\ workCurrent' = FALSE /\ given' = FALSE
      /\ UNCHANGED <<obj, pools, misled>> /\ Live' = Live
  BY DEF Crash, Idle, othersVars, Live
<1>2. AlikeOK'
  BY <1>1, SameIsAlike DEF SyncInv, AlikeOK
<1>3. ASSUME ~misled' PROVE FoundOK' /\ KeepsOK' /\ ActivateOK'
  <2>1. FoundOK
    BY <1>1, <1>3 DEF SyncInv
  <2>2. \A e : Found(e) => Found(e)'
    BY <1>1 DEF Found
  <2>3. FoundOK'
    BY <1>1, <2>1, <2>2 DEF FoundOK, Nothing
  <2>4. Keeps(obj, obj)
    BY KeepsItself DEF PoolsInv, PoolsTypeOK
  <2>5. KeepsOK'
    BY <1>1, <2>4 DEF KeepsOK, Keeps, Wanted
  <2>. QED  BY <1>1, <2>3, <2>5 DEF ActivateOK
<1>. QED  BY <1>2, <1>3 DEF SyncInv

(* A step of ACK or of the autoscaler: a pool becomes active, or it is gone  *)
(* because it was being deleted.                                             *)
LEMMA PoolStepSync ==
  ASSUME PoolsInv, SyncInv, NEW i \in PoolIDs, NEW state, NEW n \in Sizes,
         SetPool(i, state, n), misled' = misled,
         \/ state = "active" /\ pools[i].state \notin {"none", "gone"}
         \/ state = "gone" /\ pools[i].state = "deleting"
  PROVE  SyncInv'
<1>. DEFINE p == [pools[i] EXCEPT !.state = state, !.nodes = n]
<1>1. pools \in [PoolIDs -> Pools] /\ pools[i] \in Pools
  BY DEF PoolsInv, PoolsTypeOK
<1>2. /\ p \in Pools /\ p.name = pools[i].name /\ p.set = pools[i].set /\ p.state = state
  BY <1>1 DEF Pools, States
<1>3. pools' = [pools EXCEPT ![i] = p]
  BY <1>1 DEF SetPool
<1>. HIDE DEF p
<1>4. pools'[i] = p /\ \A j \in PoolIDs \ {i} : pools'[j] = pools[j]
  BY <1>1, <1>2, <1>3, OnePool
<1>5. KeepsBut(NoPool)
  BY <1>1, <1>2, <1>3, OneKeeps
<1>6. /\ UNCHANGED <<obj, cache, cacheCurrent, pc, work, workCurrent, given>>
  BY DEF SetPool, objVars, workerVars, callVars
<1>7. AlikeOK'
  BY <1>6 DEF SyncInv, AlikeOK
<1>8. ASSUME ~misled' PROVE FoundOK' /\ KeepsOK' /\ ActivateOK'
  <2>1. FoundOK /\ KeepsOK /\ ActivateOK
    BY <1>8 DEF SyncInv
  <2>2. \A e : Found(e) => Found(e)'
    BY <1>5, FoundKept
  <2>3. FoundOK' /\ KeepsOK'
    BY <1>6, <2>1, <2>2 DEF FoundOK, KeepsOK, Keeps, Wanted
  <2>4. ASSUME pc = "setActive"
        PROVE  InSync(work)' /\ \A j \in Live' : pools'[j].state = "active"
    <3>1. InSync(work) /\ \A j \in Live : pools[j].state = "active"
      BY <2>1, <2>4 DEF ActivateOK
    <3>2. state = "active" /\ i \in Live
      BY <3>1, LiveStates
    <3>3. /\ Live' = Live
          /\ \A j \in Live : pools'[j].name = pools[j].name /\ pools'[j].set = pools[j].set
      <4>1. \A j \in PoolIDs : j \in Live' <=> j \in Live
        BY <1>2, <1>4, <3>2, LiveStates
      <4>. QED  BY <1>2, <1>4, <4>1 DEF Live
    <3>4. InSync(work)'
      BY <1>6, <3>1, <3>3 DEF InSync
    <3>5. \A j \in Live' : pools'[j].state = "active"
      BY <1>2, <1>4, <3>1, <3>2, <3>3 DEF Live
    <3>. QED  BY <3>4, <3>5
  <2>. QED  BY <1>6, <2>3, <2>4 DEF ActivateOK
<1>. QED  BY <1>7, <1>8 DEF SyncInv

LEMMA ACKSync ==
  ASSUME PoolsInv, SyncInv, NEW i \in PoolIDs, Settle(i) \/ Autoscale(i)
  PROVE  SyncInv'
<1>. DEFINE u == pools[i]
<1>1. /\ u.set.auto \in BOOLEAN /\ u.set.size \in Sizes \cup {Nil} /\ u.nodes \in Sizes
      /\ u.set.min \in Sizes \cup {Nil} /\ u.set.max \in Sizes \cup {Nil}
  BY SettingsFields DEF PoolsInv, PoolsTypeOK, Pools
<1>2. /\ Val(u.set.min) \in Sizes /\ Val(u.set.max) \in Sizes /\ Val(u.set.size) \in Sizes
      /\ 0 \in Sizes
  <2>1. 0 \in Sizes
    BY PoolsAssumption DEF Sizes
  <2>. QED  BY <1>1, <2>1, ValType
<1>3. CASE Settle(i)
  <2>1. misled' = misled
        /\ u.state \in {"initial", "scaling", "removing_nodes", "deleting"}
    BY <1>3 DEF Settle
  <2>2. \E n \in Sizes : SetPool(i, IF u.state = "deleting" THEN "gone" ELSE "active", n)
    <3>1. CASE u.state = "initial"
      <4>1. SetPool(i, "active", Val(IF u.set.auto THEN u.set.min ELSE u.set.size))
        BY <1>3, <3>1 DEF Settle
      <4>2. Val(IF u.set.auto THEN u.set.min ELSE u.set.size) \in Sizes
        BY <1>2
      <4>. QED  BY <3>1, <4>1, <4>2
    <3>2. CASE u.state = "scaling"
      <4>1. SetPool(i, "active",
                    IF u.set.auto \/ u.set.size = Nil THEN u.nodes ELSE u.set.size)
        BY <1>3, <3>2 DEF Settle
      <4>2. (IF u.set.auto \/ u.set.size = Nil THEN u.nodes ELSE u.set.size) \in Sizes
        BY <1>1
      <4>. QED  BY <3>2, <4>1, <4>2
    <3>3. CASE u.state = "removing_nodes"
      BY <1>2, <1>3, <3>3 DEF Settle
    <3>4. CASE u.state = "deleting"
      BY <1>2, <1>3, <3>4 DEF Settle
    <3>. QED  BY <2>1, <3>1, <3>2, <3>3, <3>4
  <2>3. CASE u.state = "deleting"
    BY <2>1, <2>2, <2>3, PoolStepSync
  <2>4. CASE u.state # "deleting"
    <3>1. u.state \notin {"none", "gone"}
      BY <2>1
    <3>. QED  BY <2>1, <2>2, <2>4, <3>1, PoolStepSync
  <2>. QED  BY <2>3, <2>4
<1>4. CASE Autoscale(i)
  <2>1. PICK n \in Val(u.set.min)..Val(u.set.max) : SetPool(i, "active", n)
    BY <1>4 DEF Autoscale
  <2>2. n \in Sizes
    BY <1>2, <2>1, PoolsAssumption DEF Sizes
  <2>3. misled' = misled /\ u.state = "active"
    BY <1>4 DEF Autoscale
  <2>. QED  BY <2>1, <2>2, <2>3, PoolStepSync
<1>. QED  BY <1>3, <1>4

LEMMA RemovedSync ==
  ASSUME SyncInv, NEW i \in PoolIDs, RemovedByOthers(i)
  PROVE  SyncInv'
<1>1. misled'
  BY DEF RemovedByOthers
<1>2. UNCHANGED <<obj, cache, cacheCurrent, work, workCurrent, given>>
  BY DEF RemovedByOthers, SetPool, objVars, workerVars
<1>3. AlikeOK'
  BY <1>2 DEF SyncInv, AlikeOK
<1>. QED  BY <1>1, <1>3 DEF SyncInv

LEMMA StutterSync ==
  ASSUME SyncInv, UNCHANGED vars
  PROVE  SyncInv'
<1>1. /\ UNCHANGED <<obj, cache, cacheCurrent, pc, work, workCurrent, given>>
      /\ UNCHANGED <<pools, misled>> /\ Live' = Live
  BY DEF vars, objVars, workerVars, callVars, othersVars, Live
<1>2. \A e : Found(e) => Found(e)'
  BY <1>1 DEF Found
<1>3. AlikeOK'
  BY <1>1 DEF SyncInv, AlikeOK
<1>4. FoundOK => FoundOK'
  BY <1>1, <1>2 DEF FoundOK
<1>5. (KeepsOK => KeepsOK') /\ (ActivateOK => ActivateOK')
  BY <1>1 DEF KeepsOK, Keeps, Wanted, ActivateOK, InSync
<1>. QED  BY <1>1, <1>3, <1>4, <1>5 DEF SyncInv

-----------------------------------------------------------------------------
(* The invariant. *)

LEMMA InitSync ==
  ASSUME Init
  PROVE  SyncInv
<1>1. /\ cache = obj /\ pc = "idle" /\ work = Nothing /\ workCurrent = FALSE
      /\ given = FALSE /\ misled = (\E e \in obj.pools : ~Found(e))
  BY DEF Init
<1>2. AlikeOK
  BY <1>1, SameIsAlike DEF AlikeOK
<1>3. Keeps(obj, obj)
  BY InitPoolsInv, KeepsItself DEF PoolsInv, PoolsTypeOK
<1>. QED  BY <1>1, <1>2, <1>3 DEF SyncInv, FoundOK, KeepsOK, ActivateOK, Nothing

LEMMA NextPreservesSync ==
  ASSUME PoolsInv, SyncInv, [Next]_vars
  PROVE  SyncInv'
<1>1. CASE ACK
  BY <1>1, ACKSync DEF ACK
<1>2. CASE \E i \in PoolIDs : RemovedByOthers(i)
  BY <1>2, RemovedSync
<1>. QED  BY <1>1, <1>2, WorkerSync, SyncSync, EditSync, CrashSync, StutterSync DEF Next

(* Copies the code takes for the same differ in nothing but ids; and until   *)
(* an id misleads the operator, the ids in every copy are those of pools of  *)
(* the same names that are there and stay, and the worker goes to write      *)
(* "active" only with a copy that the pools still fit.                       *)
THEOREM SyncInvariance == Spec => []SyncInv
<1>1. Init => SyncInv
  BY InitSync
<1>2. PoolsInv /\ SyncInv /\ [Next]_vars => SyncInv'
  BY NextPreservesSync
<1>. QED  BY <1>1, <1>2, PoolsInvariance, PTL DEF Spec

(* An object becomes active only when the pools are what it asks for at that *)
(* moment: what was compared with them was a copy of the stored object, and  *)
(* nothing has changed since.  It is so until a user gives an entry the id   *)
(* of a pool that is not there or not kept, or others delete a pool.         *)
THEOREM ActiveIsInSync == Spec => ActiveInSync
<1>1. ASSUME PoolsInv, SyncInv, [Next]_vars
      PROVE  [obj.phase = Updating /\ obj'.phase = Active /\ ~misled => InSync(obj)]_vars
  <2>. SUFFICES ASSUME obj.phase = Updating, obj'.phase = Active, ~misled
                PROVE  InSync(obj)
    OBVIOUS
  <2>1. obj \in Objects /\ Active # Updating
    BY <1>1 DEF PoolsInv, PoolsTypeOK, Active, Updating
  <2>2. obj' # obj
    BY <2>1
  <2>3. pc = "setActive" /\ workCurrent
    <3>1. CASE SetPhase \/ SetPhaseFails
      <4>1. workCurrent /\ obj' = [obj EXCEPT !.phase = PhaseToSet]
        BY <2>2, <3>1 DEF SetPhase, SetPhaseFails
      <4>2. PhaseToSet = Active
        BY <2>1, <4>1, PhaseType DEF PhaseToSet
      <4>. QED  BY <2>1, <4>1, <4>2 DEF PhaseToSet
    <3>2. CASE ReturnError
      <4>1. obj' = [obj EXCEPT !.phase = Updating]
        BY <2>2, <3>2 DEF ReturnError
      <4>. QED  BY <2>1, <4>1, PhaseType
    <3>3. CASE UserEdit
      BY <2>1, <3>3 DEF UserEdit, Objects
    <3>4. CASE UNCHANGED obj
      BY <2>2, <3>4
    <3>5. CASE Worker
      <4>1. CASE Start
        BY <3>4, <4>1 DEF Start, objVars
      <4>2. CASE Wait
        BY <2>2, <4>2 DEF Wait, EnqueueUpdate, Requeue, GoTo
      <4>3. CASE Classify
        BY <2>2, <4>3 DEF Classify, Finish, EnqueueUpdate, Requeue, MakeCalls, Calls, GoTo
      <4>4. CASE \/ CreateNodePool \/ CreateNodePoolFails
                 \/ ModifyNodePool \/ ModifyNodePoolFails
        BY <2>2, <4>4 DEF CreateNodePool, CreateNodePoolFails, ModifyNodePool,
                          ModifyNodePoolFails, GoTo
      <4>5. CASE CallsMade
        BY <2>2, <3>2, <4>5 DEF CallsMade, Requeue
      <4>6. CASE DescribeClusterNodes
        BY <2>2, <4>6 DEF DescribeClusterNodes, Requeue, GoTo
      <4>7. CASE DeleteNodePool
        BY <2>2, <4>7 DEF DeleteNodePool, Requeue
      <4>8. CASE CallFails
        BY <3>2, <4>8 DEF CallFails
      <4>. QED  BY <3>1, <3>5, <4>1, <4>2, <4>3, <4>4, <4>5, <4>6, <4>7, <4>8 DEF Worker
    <3>6. CASE Sync \/ Crash
      BY <3>4, <3>6 DEF Sync, Crash
    <3>7. CASE ACK
      BY <2>2, <3>7 DEF ACK, Settle, Autoscale, SetPool, objVars
    <3>8. CASE \E i \in PoolIDs : RemovedByOthers(i)
      BY <2>2, <3>8 DEF RemovedByOthers, SetPool, objVars
    <3>9. CASE UNCHANGED vars
      BY <3>4, <3>9 DEF vars, objVars
    <3>. QED  BY <1>1, <3>3, <3>5, <3>6, <3>7, <3>8, <3>9 DEF Next
  <2>4. Alike(work, obj) /\ InSync(work)
    BY <1>1, <2>3 DEF SyncInv, AlikeOK, ActivateOK
  <2>. QED  BY <2>4, AlikeInSync
<1>. QED  BY <1>1, PoolsInvariance, SyncInvariance, PTL DEF Spec, ActiveInSync

(* Until an id misleads the operator, updateUpstreamClusterState comes to    *)
(* its end only when the pools are what the copy of the object asks for: the *)
(* ids in it hide no pool that is missing.                                   *)
THEOREM NoneIsOverlooked ==
  Spec => [][~misled /\ pc = "classify" /\ Classify /\ Finish => InSync(work)]_vars
<1>1. ASSUME PoolsInv, SyncInv, [Next]_vars
      PROVE  [~misled /\ pc = "classify" /\ Classify /\ Finish => InSync(work)]_vars
  <2>1. ~misled => \A e \in work.pools : Found(e)
    BY <1>1 DEF SyncInv, FoundOK
  <2>. QED  BY <1>1, <2>1, FinishInSync
<1>. QED  BY <1>1, PoolsInvariance, SyncInvariance, PTL DEF Spec

=============================================================================
