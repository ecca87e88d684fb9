------------------------------ MODULE MCNodePools ------------------------------
(* The node pools a user may ask for, and those a cluster may have at first. *)
EXTENDS NodePoolsInvariant

CONSTANTS a, b, p1, p2, p3, p4

Set(auto, min, max, size) == [auto |-> auto, min |-> min, max |-> max, size |-> size]
Fixed(n)       == Set(FALSE, Nil, Nil, n)
Scaled(lo, hi) == Set(TRUE, lo, hi, Nil)

Entry(name, id, set) == [name |-> name, id |-> id, set |-> set]
New(name, set) == Entry(name, NoPool, set)
Ask(entries)   == [managed |-> TRUE, pools |-> entries]
Unmanaged      == [managed |-> FALSE, pools |-> {}]

(* The second pool has the id an import gave it. *)
Wish1 == Ask({New(a, Fixed(1)), Entry(b, p2, Scaled(0, 1))})
Wish2 == Ask({New(a, Scaled(1, 2))})
MCAsked == {Wish1, Wish2, Ask({}), Unmanaged}

Absent == [name |-> a, set |-> Fixed(Nil), state |-> "none", nodes |-> 0]
Running(name, set, n) == [name |-> name, set |-> set, state |-> "active", nodes |-> n]
Cluster(first, second) ==
    [i \in PoolIDs |-> CASE i = p1 -> first [] i = p2 -> second [] OTHER -> Absent]

MCAtFirst == {Cluster(Running(a, Fixed(2), 2), Running(b, Set(FALSE, Nil, 1, Nil), 1)),
              Cluster(Absent, Running(b, Fixed(Nil), 1))}

(* A user who turned autoscaling on and left the desired size in the object. *)
SizedAsked == {Ask({New(a, Set(TRUE, 0, 1, 1))})}
SizedFirst == {Cluster(Running(a, Fixed(2), 2), Absent)}

(* An imported cluster: the object has the ids ACK gave its pools. *)
ImportedAsked == {Ask({Entry(a, p1, Fixed(1)), Entry(b, p2, Scaled(0, 1))})}
ImportedFirst == {Cluster(Running(a, Fixed(1), 1), Running(b, Scaled(0, 1), 0))}
Imported == Spec /\ obj.managed /\ obj.pools = UpstreamSpec.pools
==============================================================================
