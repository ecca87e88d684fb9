------------------------------ MODULE PoolConfig ------------------------------
(***************************************************************************)
(* Node pools as an AliClusterConfig asks for them and as ACK lists them,  *)
(* and what pkg/alibaba/nodepool.go and the handler compute from the two:  *)
(* which pools have to be created, changed or deleted, and the requests    *)
(* that do it.                                                             *)
(*                                                                         *)
(* Of a pool only what the handler compares is kept.  Instance types,      *)
(* disks, images and so on are sent with a new pool and never looked at    *)
(* again.                                                                  *)
(***************************************************************************)
EXTENDS Integers

CONSTANTS Names,      \* the names of node pools
          PoolIDs,    \* the ids ACK can give them
          NoPool,     \* NodePoolID = ""
          Nil,        \* a number that is left out
          MaxSize     \* bound on the number of nodes of a pool

Sizes == 0..MaxSize

ASSUME PoolsAssumption == NoPool \notin PoolIDs /\ MaxSize \in Nat /\ Nil \notin Sizes

(* EnableAutoScaling left out is the same as FALSE. *)
Settings == [auto : BOOLEAN, min : Sizes \cup {Nil}, max : Sizes \cup {Nil},
             size : Sizes \cup {Nil}]
Entries  == [name : Names, id : PoolIDs \cup {NoPool}, set : Settings]

Val(x) == IF x = Nil THEN 0 ELSE x          \* tea.Int64Value

-----------------------------------------------------------------------------
(* `s' is what the object asks of a pool, `u' what ACK says of it. *)

LimitsDiffer(s, u) == Val(s.max) # Val(u.max) \/ Val(s.min) # Val(u.min)
SizeDiffers(s, u)  == Nil \notin {s.size, u.size} /\ s.size # u.size

(* Faulty variant: that autoscaling is turned on or off is not noticed. *)
NeedsUpdateWithin(s, u) ==
    \/ s.auto /\ u.auto /\ LimitsDiffer(s, u)
    \/ SizeDiffers(s, u)

(* needsUpdate *)
NeedsUpdate(s, u) ==
    \/ s.auto # u.auto
    \/ s.auto /\ u.auto /\ LimitsDiffer(s, u)
    \/ SizeDiffers(s, u)

(* handleUpdateNodePools *)
ShouldModify(s, u) ==
    IF s.auto THEN ~u.auto \/ LimitsDiffer(s, u) ELSE u.auto \/ SizeDiffers(s, u)

(* UpdateNodePoolConfig; ACK keeps what the request leaves out. *)
Over(new, old) == IF new = Nil THEN old ELSE new

Modified(s, u) ==
    IF s.auto
    THEN [u EXCEPT !.auto = TRUE, !.min = Over(s.min, u.min), !.max = Over(s.max, u.max)]
    ELSE [u EXCEPT !.auto = FALSE, !.size = Over(s.size, u.size)]

(* Faulty variant: the limits are left to the autoscaler. *)
DrainStepSize(u) == IF u.size \notin {Nil, 0} THEN "size" ELSE "nodes"

(* DeleteNodePool: the first thing to do to a pool nobody asks for.  Only    *)
(* when neither its size nor its limits keep nodes in it, the nodes are      *)
(* looked at.                                                                *)
DrainStep(u) ==
    IF u.size \notin {Nil, 0} THEN "size"
    ELSE IF (Nil \notin {u.min, u.max} /\ u.min # 0) \/ Val(u.max) # 0 THEN "limits"
    ELSE "nodes"

Drained(u) ==
    IF DrainStep(u) = "size" THEN [u EXCEPT !.size = 0]
    ELSE [u EXCEPT !.auto = TRUE, !.min = 0, !.max = 0]

-----------------------------------------------------------------------------
(* `asked' is a set of entries, `listed' what ToNodePoolConfig makes of the  *)
(* pools of ACK.  The pools of a cluster differ in their names.              *)

Named(e, listed) == {l \in listed : l.name = e.name}

(* The id of an entry is that of the pool of its name. *)
IdOf(e, listed) ==
    IF Named(e, listed) = {} THEN e.id ELSE (CHOOSE l \in Named(e, listed) : TRUE).id

(* Faulty variant: ids are taken as they stand in the object. *)
IDsAsStored(asked, listed) == asked

FixIDs(asked, listed) == {[e EXCEPT !.id = IdOf(e, listed)] : e \in asked}

(* `fixed' is what FixIDs makes of what is asked for. *)
ToCreate(fixed) == {e \in fixed : e.id = NoPool}

Pairs(fixed, listed) == {p \in fixed \X listed : p[1].id = p[2].id}

UpdateNeeded(fixed, listed) ==
    \E p \in Pairs(fixed, listed) : NeedsUpdate(p[1].set, p[2].set)

ToModify(fixed, listed) ==
    {p[1] : p \in {q \in Pairs(fixed, listed) : ShouldModify(q[1].set, q[2].set)}}

ToDelete(fixed, listed) == {l \in listed : \A e \in fixed : e.id # l.id}

=============================================================================
