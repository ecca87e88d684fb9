-------------------------- MODULE NodePoolsInvariant --------------------------
(***************************************************************************)
(* The inductive invariant behind the safety properties of NodePools: what *)
(* the worker has learnt about the pools is still true when it makes the   *)
(* calls it has decided on.                                                *)
(***************************************************************************)
EXTENDS NodePools

NamesDiffer(entries) == \A e, f \in entries : e.name = f.name => e = f

(* No copy of the object asks for two pools of one name, and each asks for   *)
(* what has been asked for all the time, however old it is.                  *)
CopyOK(o) == NamesDiffer(o.pools) /\ kept \subseteq Wanted(o)

CopiesOK ==
    /\ CopyOK(obj) /\ CopyOK(cache)
    /\ NamesDiffer(work.pools)
    /\ pc # "idle" => kept \subseteq Wanted(work)
    /\ given => cache.managed = work.managed /\ pc # "idle"

(* What is about to be created is missing: nobody else creates pools.        *)
CreatingOK ==
    pc = "create" =>
        /\ NamesDiffer(todo)
        /\ \A e \in todo, i \in Live : pools[i].name # e.name

(* No pool is changing from the moment all were found settled until the      *)
(* first call is made, and none is taken down until the last is.             *)
Deleting == {"size", "limits", "nodes", "removeNodes", "delete"}

QuietOK ==
    /\ pc \in Deleting \cup {"classify"} => \A i \in Live : pools[i].state = "active"
    /\ pc \in {"create", "modify"} => \A i \in Live : pools[i].state \notin TakenDown

(* The pool that is being deleted is one the copy of the object in hand does *)
(* not ask for; once its nodes are looked at, neither its size nor its       *)
(* limits bring any back.                                                    *)
VictimOK ==
    pc \in Deleting /\ victim \in Live =>
        /\ pools[victim].name \notin Wanted(work)
        /\ pc \in {"nodes", "removeNodes", "delete"} => DrainStep(pools[victim].set) = "nodes"
        /\ pc = "delete" => pools[victim].nodes = 0

DeletionsOK == OneDeletionAtATime /\ DeletedEmpty /\ KeepsWanted

(* The inductive invariant: the safety properties and the reasons for them.  *)
PoolsInv ==
    /\ PoolsTypeOK
    /\ CopiesOK /\ CreatingOK /\ QuietOK /\ VictimOK
    /\ NoneCreatedTwice /\ DeletionsOK

-----------------------------------------------------------------------------
(* What it takes to call an object active only when its pools are there.  An *)
(* entry with the id of a pool that is gone is neither created nor found to  *)
(* differ from anything: so no copy may keep such an id.                     *)

(* Two copies of the object differ in nothing but the ids. *)
Asks(o) == {[name |-> e.name, set |-> e.set] : e \in o.pools}
Alike(o, c) == o.managed = c.managed /\ Asks(o) = Asks(c)

AlikeOK ==
    /\ cacheCurrent => Alike(cache, obj)
    /\ workCurrent => Alike(work, obj)
    /\ given => Alike(cache, work)

(* Some of the ids come from the user, all others were found by name. *)
FoundOK == \A e \in obj.pools \cup cache.pools \cup work.pools : Found(e)

(* The pools whose ids one copy has are those the next one asks for, too: so *)
(* the pool that is being deleted is in no copy.                             *)
Keeps(o, c) == \A e \in o.pools : e.id # NoPool => e.name \in Wanted(c)

KeepsOK ==
    /\ Keeps(obj, cache)
    /\ pc # "idle" => Keeps(obj, work) /\ Keeps(cache, work)

ActivateOK ==
    pc = "setActive" => InSync(work) /\ \A i \in Live : pools[i].state = "active"

(* Inductive together with PoolsInv. *)
SyncInv == AlikeOK /\ (~misled => FoundOK /\ KeepsOK /\ ActivateOK)

=============================================================================
