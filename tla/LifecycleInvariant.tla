-------------------------- MODULE LifecycleInvariant --------------------------
(***************************************************************************)
(* The inductive invariant of ClusterLifecycle: what holds of the cached   *)
(* copy and of the worker's copy of an object, and of the worker at each   *)
(* of its labels.  The safety properties follow from it.                   *)
(***************************************************************************)
EXTENDS ClusterLifecycle

(* `c' was read when the object was no further in its life than `o'. *)
OlderThan(c, o) ==
    /\ Rank(c.phase) <= Rank(o.phase)
    /\ c.imported = o.imported
    /\ o.exists => c.exists
    /\ c.deleting => o.deleting
    /\ c.finalizer => o.finalizer
    /\ c.phase # NotCreated => c.id = o.id

(* `c' is `o' but for an id that `o' does not have yet. *)
SameBut(c, o) ==
    /\ c.exists = o.exists /\ c.deleting = o.deleting /\ c.finalizer = o.finalizer
    /\ c.imported = o.imported /\ c.phase = o.phase /\ c.failure = o.failure
    /\ o.id # NoID => c.id = o.id

(* What the object can be. *)
ObjectOK(o) ==
    /\ o.imported => o.id # NoID
    /\ o.phase # NotCreated => o.id # NoID
    /\ o.phase = Creating => ~o.imported
    /\ o.phase = Importing => o.imported
    /\ o.deleting => o.finalizer

CacheOK ==
    /\ OlderThan(cache, obj)
    /\ cacheCurrent => SameBut(cache, obj)
    /\ aliased => cache.phase = NotCreated /\ cache.id = NoID

WorkOK ==
    /\ pc = "idle" => ~workCurrent
    /\ pc # "idle" => OlderThan(work, obj)
    /\ workCurrent => SameBut(work, obj)
    /\ startCurrent => workCurrent

(* What the worker knows of its copy before each call. *)
LabelOK ==
    /\ pc \in {"createCluster", "updateSpec"} => work.phase = NotCreated /\ ~work.imported
    /\ pc = "createCluster" => work.id = NoID
    /\ pc = "updateSpec" => work.id # NoID
    /\ pc = "status" => /\ work.phase \notin Settled
                        /\ work.phase # NotCreated => secret
                        /\ workCurrent => obj.id # NoID
    /\ pc \in {"describe", "secret"} => work.phase \in {Creating, Importing}
    /\ pc = "checkAndUpdate" => work.phase \in Settled
    /\ pc \in {"remove", "deleteCluster"} =>
           work.deleting /\ ~work.imported /\ work.phase # NotCreated
    /\ pc = "removeFinalizer" =>
           /\ work.deleting
           /\ \/ work.imported \/ work.phase = NotCreated
              \/ work.id \in deletions \/ cloud[work.id] = "gone"

IInv ==
    /\ TypeOK
    /\ ObjectOK(obj) /\ CacheOK /\ WorkOK /\ LabelOK
    /\ DeletesOnlyItsOwn /\ SecretBeforeActive /\ NoSilentLeak

-----------------------------------------------------------------------------
(* The object of an operator that nothing disturbs: no call failed, nobody   *)
(* else has written it.  A crash is a fault, too.                            *)
LeftAlone == faults = 0 /\ edits = 0 /\ obj.exists /\ ~obj.deleting

(* The cached object misses the recorded id only until the watch brings it,  *)
(* and nothing brings the key back before.                                   *)
CacheKnowsID ==
    \/ cacheCurrent \/ cache.id # NoID
    \/ /\ ~queued
       /\ \/ pc = "idle"
          \/ pc \in {"status", "record", "finalizer"} /\ err = NoError /\ workCurrent

(* The id create has just been told, before Update. *)
IsNew(id) == pc = "updateSpec" /\ workCurrent /\ obj.id = NoID /\ id = work.id

AloneOK ==
    /\ dropped = {}
    /\ CacheKnowsID
    /\ cache.id \in {NoID, obj.id} \/ IsNew(cache.id)
    /\ pc \in {"createCluster", "updateSpec"} =>
           work.id = obj.id \/ IsNew(work.id)
    /\ pc \in {"createCluster", "updateSpec"} /\ obj.id = NoID =>
           cacheCurrent /\ workCurrent /\ ~queued /\ err = NoError
    /\ pc \notin {"idle", "createCluster", "updateSpec"} => obj.id # NoID

AloneInv == LeftAlone /\ Clusters # {} => AloneOK

(* create makes one cluster for an object that is left alone, on whatever    *)
(* stale copy a reconcile works: what it takes to make a second one is a     *)
(* failed call, or a write of somebody else between CreateCluster and Update.*)
OneClusterIfLeftAlone ==
    LeftAlone => \A c, d \in Clusters : cloud[c] # "absent" /\ cloud[d] # "absent" => c = d

=============================================================================
