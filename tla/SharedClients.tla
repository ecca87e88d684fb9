---------------------------- MODULE SharedClients ----------------------------
(***************************************************************************)
(* The one field of the Handler that is not set by Register: the client of *)
(* the ACK API.  getAlibabaClients sets it at the start of every           *)
(* reconcile, from the region and the credentials of that reconcile's      *)
(* object, and every later call reads it anew.  main starts two workers    *)
(* per controller, which share the Handler.                                *)
(*                                                                         *)
(* What ClusterLifecycle is about is left out here: writes to the API      *)
(* server succeed, the cache is current, no object is imported.  A client  *)
(* is the endpoint of a region with the credentials of an account, and     *)
(* finds the clusters of that account in that region.                      *)
(*                                                                         *)
(* The history variable crossed says for which objects another reconcile   *)
(* has put in a different client while calls of theirs were still to come. *)
(***************************************************************************)
CONSTANTS Configs, Workers, Regions, Accounts,
          Home,          \* the client for the region and credentials of each object
          None

Clients == [region : Regions, account : Accounts]

ASSUME HomeAssumption == Home \in [Configs -> Clients]
ASSUME NoneAssumption == None \notin Configs \cup Clients

VARIABLES client,        \* Handler.alibabaClients
          pc, key,       \* of each worker: its next call, and the object it is for
          removing,      \* whether it runs OnAliConfigRemoved
          phase,         \* of each object: Status.Phase
          deleting, released,
          cloud, place,  \* of its cluster: the state, and the client that finds it
          crossed        \* the objects in whose reconcile the client was replaced

workerVars == <<pc, key, removing>>
objectVars == <<phase, deleting, released>>
vars == <<client, workerVars, objectVars, cloud, place, crossed>>

Calls == {"create", "wait", "kubeconfig", "check", "describe", "delete", "release"}
Requests == Calls \ {"release"}

TypeOK ==
    /\ client \in Clients \cup {None}
    /\ pc \in [Workers -> Calls \cup {"idle", "clients"}]
    /\ key \in [Workers -> Configs \cup {None}]
    /\ removing \in [Workers -> BOOLEAN]
    /\ phase \in [Configs -> {"", "creating", "active"}]
    /\ deleting \in [Configs -> BOOLEAN] /\ released \in [Configs -> BOOLEAN]
    /\ cloud \in [Configs -> {"absent", "creating", "running", "deleting", "gone"}]
    /\ place \in [Configs -> Clients \cup {None}]
    /\ crossed \subseteq Configs

Init ==
    /\ client = None
    /\ pc = [w \in Workers |-> "idle"] /\ key = [w \in Workers |-> None]
    /\ removing = [w \in Workers |-> FALSE]
    /\ phase = [c \in Configs |-> ""]
    /\ deleting = [c \in Configs |-> FALSE] /\ released = [c \in Configs |-> FALSE]
    /\ cloud = [c \in Configs |-> "absent"] /\ place = [c \in Configs |-> None]
    /\ crossed = {}

(* A key comes up again and again; the queue hands it to one worker at a time. *)
Take(w, c) ==
    /\ pc[w] = "idle" /\ ~released[c]
    /\ \A v \in Workers : key[v] # c
    /\ pc' = [pc EXCEPT ![w] = "clients"]
    /\ key' = [key EXCEPT ![w] = c]
    /\ removing' = [removing EXCEPT ![w] = deleting[c]]
    /\ UNCHANGED <<client, objectVars, cloud, place, crossed>>

GoTo(w, call) ==
    /\ pc' = [pc EXCEPT ![w] = call]
    /\ UNCHANGED <<key, removing>>

(* The reconcile ends, with an error or without. *)
Finish(w) ==
    /\ pc' = [pc EXCEPT ![w] = "idle"]
    /\ key' = [key EXCEPT ![w] = None]
    /\ removing' = [removing EXCEPT ![w] = FALSE]
    /\ crossed' = crossed \ {key[w]}

FirstCall(w) ==
    IF removing[w] THEN IF phase[key[w]] = "" THEN "release" ELSE "describe"
    ELSE IF phase[key[w]] = "" THEN "create"
    ELSE IF phase[key[w]] = "creating" THEN "wait" ELSE "check"

(* The objects with requests still to come when the client is replaced. *)
Crossed == IF client' = client THEN {} ELSE {key[w] : w \in {v \in Workers : pc[v] \in Requests}}

(* Faulty variant: a client that is there already is kept. *)
SetClientsOnce(w) ==
    /\ pc[w] = "clients"
    /\ client' = IF client = None THEN Home[key[w]] ELSE client
    /\ crossed' = crossed \cup Crossed
    /\ GoTo(w, FirstCall(w))
    /\ UNCHANGED <<objectVars, cloud, place>>

(* getAlibabaClients *)
SetClients(w) ==
    /\ pc[w] = "clients"
    /\ client' = Home[key[w]]
    /\ crossed' = crossed \cup Crossed
    /\ GoTo(w, FirstCall(w))
    /\ UNCHANGED <<objectVars, cloud, place>>

(* Faulty variant: the error is not looked at. *)
SetClientsFailsOn(w) ==
    /\ pc[w] = "clients"
    /\ GoTo(w, FirstCall(w))
    /\ UNCHANGED <<client, objectVars, cloud, place, crossed>>

SetClientsFails(w) ==
    /\ pc[w] = "clients"
    /\ Finish(w)
    /\ UNCHANGED <<client, objectVars, cloud, place>>

(* Whether the client of the moment knows the cluster of the worker's object. *)
Found(w) == cloud[key[w]] \notin {"absent", "gone"} /\ place[key[w]] = client

(* The request names the region of its own object, the account is the client's. *)
CreateCluster(w) ==
    /\ pc[w] = "create"
    /\ cloud' = [cloud EXCEPT ![key[w]] = "creating"]
    /\ place' = [place EXCEPT ![key[w]] =
                    [region |-> Home[key[w]].region, account |-> client.account]]
    /\ phase' = [phase EXCEPT ![key[w]] = "creating"]
    /\ Finish(w)
    /\ UNCHANGED <<client, deleting, released>>

(* waitForCreationComplete, and createCASecret with a call of its own *)
DescribeCreated(w) ==
    /\ pc[w] = "wait"
    /\ IF Found(w) /\ cloud[key[w]] = "running"
         THEN GoTo(w, "kubeconfig") /\ UNCHANGED crossed
         ELSE Finish(w)
    /\ UNCHANGED <<client, objectVars, cloud, place>>

CreateCASecret(w) ==
    /\ pc[w] = "kubeconfig"
    /\ phase' = IF Found(w) THEN [phase EXCEPT ![key[w]] = "active"] ELSE phase
    /\ Finish(w)
    /\ UNCHANGED <<client, deleting, released, cloud, place>>

(* checkAndUpdate: a client that does not know the cluster refuses its calls, *)
(* the right one leaves the cluster where it is ("active" is "updating" too). *)
CheckAndUpdate(w) ==
    /\ pc[w] = "check"
    /\ Finish(w)
    /\ UNCHANGED <<client, objectVars, cloud, place>>

(* OnAliConfigRemoved: NotFound is taken for a cluster removed before. *)
DescribeRemoved(w) ==
    /\ pc[w] = "describe"
    /\ GoTo(w, IF Found(w) THEN "delete" ELSE "release")
    /\ UNCHANGED <<client, objectVars, cloud, place, crossed>>

DeleteCluster(w) ==
    /\ pc[w] = "delete" /\ Found(w)
    /\ cloud' = [cloud EXCEPT ![key[w]] = "deleting"]
    /\ GoTo(w, "release")
    /\ UNCHANGED <<client, objectVars, place, crossed>>

(* Faulty variant: the finalizer is removed whatever the error. *)
CallFailsReleasing(w) ==
    /\ pc[w] \in Requests
    /\ IF pc[w] \in {"describe", "delete"}
         THEN GoTo(w, "release") /\ UNCHANGED crossed
         ELSE Finish(w)
    /\ UNCHANGED <<client, objectVars, cloud, place>>

(* A call is refused or does not get through, DeleteCluster on another       *)
(* client for one: the error goes back to the queue.                         *)
CallFails(w) ==
    /\ pc[w] \in Requests
    /\ Finish(w)
    /\ UNCHANGED <<client, objectVars, cloud, place>>

(* The adapter of OnRemove takes the finalizer off. *)
Release(w) ==
    /\ pc[w] = "release"
    /\ released' = [released EXCEPT ![key[w]] = TRUE]
    /\ Finish(w)
    /\ UNCHANGED <<client, phase, deleting, cloud, place>>

Worker(w) ==
    \/ \E c \in Configs : Take(w, c)
    \/ SetClients(w) \/ SetClientsFails(w)
    \/ CreateCluster(w) \/ DescribeCreated(w) \/ CreateCASecret(w) \/ CheckAndUpdate(w)
    \/ DescribeRemoved(w) \/ DeleteCluster(w) \/ CallFails(w) \/ Release(w)

UserDelete(c) ==
    /\ ~deleting[c] /\ deleting' = [deleting EXCEPT ![c] = TRUE]
    /\ UNCHANGED <<client, workerVars, phase, released, cloud, place, crossed>>

Progress(c, from, to) ==
    /\ cloud[c] = from /\ cloud' = [cloud EXCEPT ![c] = to]
    /\ UNCHANGED <<client, workerVars, objectVars, place, crossed>>

Next ==
    \/ \E w \in Workers : Worker(w)
    \/ \E c \in Configs : \/ UserDelete(c)
                          \/ Progress(c, "creating", "running")
                          \/ Progress(c, "deleting", "gone")

Spec == Init /\ [][Next]_vars

-----------------------------------------------------------------------------
(* The cluster of a configuration is made in the region and the account the  *)
(* configuration names.                                                      *)
MadeAtHome == \A c \in Configs : cloud[c] # "absent" => place[c] = Home[c]

(* OnAliConfigRemoved lets go of a configuration only when its cluster is    *)
(* gone or on its way: no cluster that is there is taken for already removed.*)
RemovedIsGone ==
    \A c \in Configs : released[c] => cloud[c] \in {"absent", "deleting", "gone"}

(* Both fail with the two workers main starts.  What holds, however many     *)
(* workers, regions and accounts there are, is that only a getAlibabaClients *)
(* of another object during the reconcile does the harm: a failed one, one   *)
(* of an object with the same region and credentials, and those before and   *)
(* after do none.                                                            *)

(* A cluster whose reconcile nobody crossed is made where its configuration  *)
(* says.                                                                     *)
CreatedAtHome ==
    [][\A c \in Configs :
          cloud[c] = "absent" /\ cloud'[c] # "absent" => c \in crossed \/ place'[c] = Home[c]]_vars

(* A configuration whose cluster is at home, and whose removal nobody        *)
(* crossed, is let go only when the cluster is gone or on its way.           *)
ReleasedWhenGone ==
    [][\A c \in Configs :
          ~released[c] /\ released'[c] /\ place[c] = Home[c] =>
              c \in crossed \/ cloud[c] \in {"absent", "deleting", "gone"}]_vars

-----------------------------------------------------------------------------
(* The inductive invariant: from getAlibabaClients to the end of a reconcile *)
(* that nobody crosses the client is its object's.                           *)

(* What the worker knows of its object before a call. *)
CallOK(w) ==
    /\ pc[w] # "idle" => key[w] \in Configs
    /\ pc[w] \in Requests => client \in Clients
    /\ pc[w] \in Requests /\ key[w] \notin crossed => client = Home[key[w]]
    /\ pc[w] = "release" /\ key[w] \notin crossed /\ place[key[w]] = Home[key[w]]
          => cloud[key[w]] \in {"absent", "deleting", "gone"}

(* An object in its first phase has no cluster. *)
FirstPhase == \A c \in Configs : phase[c] = "" => cloud[c] = "absent"

KeysDiffer ==
    \A v, w \in Workers : pc[v] # "idle" /\ pc[w] # "idle" /\ key[v] = key[w] => v = w

IInv ==
    /\ TypeOK
    /\ FirstPhase /\ KeysDiffer
    /\ \A w \in Workers : CallOK(w)

=============================================================================
