-------------------------- MODULE SharedClientsProofs --------------------------
(***************************************************************************)
(* The harm the shared client does comes from getAlibabaClients of another *)
(* object during a reconcile and from nothing else, whatever the number of *)
(* workers, objects, regions and accounts and however the workers, the     *)
(* users and ACK interleave.                                               *)
(***************************************************************************)
EXTENDS SharedClients, TLAPS

WorkersOK == KeysDiffer /\ \A w \in Workers : CallOK(w)

LEMMA WorkerType ==
  ASSUME TypeOK, WorkersOK, NEW w \in Workers, Worker(w)
  PROVE  TypeOK'
<1>0. \A v \in Workers : CallOK(v)
  BY DEF WorkersOK
<1>. USE HomeAssumption DEF TypeOK, objectVars, Calls, Requests
<1>1. ASSUME NEW c \in Configs, Take(w, c) PROVE TypeOK'
  BY <1>1 DEF Take
<1>2. CASE SetClients(w)
  <2>1. FirstCall(w) \in Calls
    BY DEF FirstCall
  <2>2. Crossed \subseteq Configs
    <3>1. \A v \in Workers : pc[v] \in Requests => key[v] \in Configs
      BY <1>0 DEF CallOK
    <3>2. ASSUME NEW x \in Crossed PROVE x \in Configs
      <4>1. \E v \in Workers : pc[v] \in Requests /\ x = key[v]
        BY <3>2 DEF Crossed
      <4>. QED  BY <3>1, <4>1
    <3>. QED  BY <3>2
  <2>. QED  BY <1>0, <1>2, <2>1, <2>2 DEF CallOK, SetClients, GoTo
<1>3. CASE SetClientsFails(w)
  BY <1>0, <1>3 DEF CallOK, SetClientsFails, Finish
<1>4. CASE CreateCluster(w)
  <2>1. [region |-> Home[key[w]].region, account |-> client.account] \in Clients
    BY <1>0, <1>4 DEF CreateCluster, Clients, CallOK
  <2>. QED  BY <1>0, <1>4, <2>1 DEF CallOK, CreateCluster, Finish
<1>5. CASE DescribeCreated(w)
  BY <1>0, <1>5 DEF CallOK, DescribeCreated, GoTo, Finish
<1>6. CASE CreateCASecret(w)
  BY <1>0, <1>6 DEF CallOK, CreateCASecret, Finish
<1>7. CASE CheckAndUpdate(w)
  BY <1>0, <1>7 DEF CallOK, CheckAndUpdate, Finish
<1>8. CASE DescribeRemoved(w)
  BY <1>0, <1>8 DEF CallOK, DescribeRemoved, GoTo
<1>9. CASE DeleteCluster(w)
  BY <1>0, <1>9 DEF CallOK, DeleteCluster, GoTo
<1>10. CASE CallFails(w)
  BY <1>0, <1>10 DEF CallOK, CallFails, Finish
<1>11. CASE Release(w)
  BY <1>0, <1>11 DEF CallOK, Release, Finish
<1>. QED  BY <1>1, <1>2, <1>3, <1>4, <1>5, <1>6, <1>7, <1>8, <1>9, <1>10, <1>11 DEF Worker

-----------------------------------------------------------------------------
(* Two ways a call can leave the workers. *)

(* What a busy worker does to its own object is nothing to the others, and a *)
(* client it replaces is noted for all that still have a request to make.    *)
Private(w) ==
    /\ pc[w] # "idle" /\ key[w] \in Configs
    /\ \/ client' = client
       \/ /\ client' = Home[key[w]]
          /\ \A v \in Workers : pc[v] \in Requests => key[v] \in crossed'
    /\ \A c \in Configs \ {key[w]} :
          cloud'[c] = cloud[c] /\ place'[c] = place[c] /\ (c \in crossed => c \in crossed')

LEMMA OthersKept ==
  ASSUME WorkersOK, NEW w \in Workers, Private(w), NEW v \in Workers \ {w},
         pc'[v] = pc[v], key'[v] = key[v]
  PROVE  CallOK(v)'
<1>1. pc[v] # "idle" => key[v] \in Configs \ {key[w]}
  BY DEF WorkersOK, CallOK, KeysDiffer, Private
<1>2. pc[v] \in Requests \cup {"release"} => pc[v] # "idle"
  BY DEF Requests, Calls
<1>3. pc[v] \in Requests =>
        /\ client' \in Clients
        /\ key[v] \notin crossed' => client' = Home[key[v]]
  BY <1>1, <1>2, HomeAssumption DEF WorkersOK, CallOK, Private
<1>4. pc[v] # "idle" =>
        /\ cloud'[key[v]] = cloud[key[v]] /\ place'[key[v]] = place[key[v]]
        /\ key[v] \in crossed => key[v] \in crossed'
  BY <1>1 DEF Private
<1>5. pc[v] = "release" /\ key[v] \notin crossed' /\ place'[key[v]] = Home[key[v]]
        => cloud'[key[v]] \in {"absent", "deleting", "gone"}
  BY <1>2, <1>4 DEF WorkersOK, CallOK
<1>. QED  BY <1>1, <1>3, <1>5 DEF CallOK

LEMMA Finished ==
  ASSUME TypeOK, WorkersOK, NEW w \in Workers, Private(w), Finish(w)
  PROVE  WorkersOK'
<1>1. /\ pc'[w] = "idle"
      /\ \A v \in Workers \ {w} : pc'[v] = pc[v] /\ key'[v] = key[v]
  BY DEF TypeOK, Finish
<1>2. KeysDiffer'
  BY <1>1 DEF WorkersOK, KeysDiffer
<1>3. CallOK(w)'
  BY <1>1 DEF CallOK, Requests, Calls
<1>4. \A v \in Workers \ {w} : CallOK(v)'
  BY <1>1, OthersKept
<1>. QED  BY <1>2, <1>3, <1>4 DEF WorkersOK

LEMMA Continues ==
  ASSUME TypeOK, WorkersOK, NEW w \in Workers, Private(w),
         NEW call, GoTo(w, call), call # "idle",
         call \in Requests => client' \in Clients,
         call \in Requests /\ key[w] \notin crossed' => client' = Home[key[w]],
         call = "release" /\ key[w] \notin crossed' /\ place'[key[w]] = Home[key[w]]
           => cloud'[key[w]] \in {"absent", "deleting", "gone"}
  PROVE  WorkersOK'
<1>1. /\ pc'[w] = call /\ key' = key
      /\ \A v \in Workers \ {w} : pc'[v] = pc[v]
  BY DEF TypeOK, GoTo
<1>2. KeysDiffer'
  BY <1>1 DEF WorkersOK, KeysDiffer, Private
<1>3. CallOK(w)'
  BY <1>1 DEF CallOK, Private
<1>4. \A v \in Workers \ {w} : CallOK(v)'
  BY <1>1, OthersKept
<1>. QED  BY <1>2, <1>3, <1>4 DEF WorkersOK

(* Every call but getAlibabaClients leaves the client alone. *)
CallStep(w) ==
    \/ SetClientsFails(w)
    \/ CreateCluster(w) \/ DescribeCreated(w) \/ CreateCASecret(w) \/ CheckAndUpdate(w)
    \/ DescribeRemoved(w) \/ DeleteCluster(w) \/ CallFails(w) \/ Release(w)

LEMMA CallsArePrivate ==
  ASSUME TypeOK, NEW w \in Workers, CallOK(w), CallStep(w)
  PROVE  Private(w) /\ client' = client
<1>. USE DEF CallStep, SetClientsFails, CreateCluster, DescribeCreated, CreateCASecret,
             CheckAndUpdate, DescribeRemoved, DeleteCluster, CallFails, Release
<1>1. pc[w] \in Calls \cup {"clients"}
  BY DEF Requests, Calls
<1>2. pc[w] # "idle" /\ key[w] \in Configs
  BY <1>1 DEF CallOK, Calls
<1>3. client' = client
  OBVIOUS
<1>4. /\ cloud' = cloud \/ \E x : cloud' = [cloud EXCEPT ![key[w]] = x]
      /\ place' = place \/ \E x : place' = [place EXCEPT ![key[w]] = x]
  OBVIOUS
<1>5. \A c \in Configs \ {key[w]} : cloud'[c] = cloud[c] /\ place'[c] = place[c]
  BY <1>4 DEF TypeOK
<1>6. crossed' = crossed \/ crossed' = crossed \ {key[w]}
  BY DEF Finish
<1>. QED  BY <1>2, <1>3, <1>5, <1>6 DEF Private

LEMMA WorkerStep ==
  ASSUME IInv, NEW w \in Workers, Worker(w)
  PROVE  IInv'
<1>. DEFINE Known(c) == cloud[c] \in {"absent", "deleting", "gone"}
<1>1. TypeOK /\ FirstPhase /\ WorkersOK /\ CallOK(w)
  BY DEF IInv, WorkersOK
<1>2. TypeOK'
  BY <1>1, WorkerType
<1>3. pc[w] # "idle" => key[w] \in Configs
  BY <1>1 DEF CallOK
<1>4. SUFFICES FirstPhase' /\ WorkersOK'
  BY <1>2 DEF IInv, WorkersOK
<1>5. phase' = phase /\ cloud' = cloud => FirstPhase'
  BY <1>1 DEF FirstPhase
<1>6. ASSUME NEW c \in Configs, Take(w, c) PROVE FirstPhase' /\ WorkersOK'
  <2>1. /\ pc'[w] = "clients" /\ key'[w] = c
        /\ \A v \in Workers \ {w} : pc'[v] = pc[v] /\ key'[v] = key[v] /\ key[v] # c
    BY <1>1, <1>6 DEF Take, TypeOK
  <2>2. UNCHANGED <<client, phase, cloud, place, crossed>>
    BY <1>6 DEF Take, objectVars
  <2>3. KeysDiffer'
    BY <1>1, <2>1 DEF WorkersOK, KeysDiffer
  <2>4. CallOK(w)'
    BY <2>1 DEF CallOK, Requests, Calls
  <2>5. \A v \in Workers \ {w} : CallOK(v)'
    BY <1>1, <2>1, <2>2 DEF WorkersOK, CallOK
  <2>. QED  BY <1>5, <2>2, <2>3, <2>4, <2>5 DEF WorkersOK
<1>7. CASE SetClients(w)
  <2>1. /\ pc[w] = "clients" /\ client' = Home[key[w]] /\ GoTo(w, FirstCall(w))
        /\ crossed' = crossed \cup Crossed /\ UNCHANGED <<phase, cloud, place>>
    BY <1>7 DEF SetClients, objectVars
  <2>2. key[w] \in Configs
    BY <1>3, <2>1
  <2>3. client' \in Clients
    BY <2>1, <2>2, HomeAssumption
  <2>4. FirstCall(w) = "release" => phase[key[w]] = ""
    BY DEF FirstCall
  <2>5. FirstCall(w) = "release" => cloud'[key[w]] = "absent"
    BY <1>1, <2>1, <2>2, <2>4 DEF FirstPhase
  <2>6. FirstCall(w) # "idle"
    BY DEF FirstCall
  <2>7. client' = client \/ \A v \in Workers : pc[v] \in Requests => key[v] \in crossed'
    BY <2>1 DEF Crossed
  <2>8. Private(w)
    BY <2>1, <2>2, <2>7 DEF Private
  <2>9. WorkersOK'
    BY <1>1, <2>1, <2>3, <2>5, <2>6, <2>8, Continues
  <2>. QED  BY <1>5, <2>1, <2>9
<1>8. CASE CallStep(w)
  <2>1. Private(w) /\ client' = client
    BY <1>1, <1>8, CallsArePrivate
  <2>2. FirstPhase'
    <3>1. CASE phase' = phase /\ cloud' = cloud
      BY <1>5, <3>1
    <3>2. CASE CreateCluster(w) \/ CreateCASecret(w)
      <4>1. /\ \A c \in Configs \ {key[w]} : phase'[c] = phase[c] /\ cloud'[c] = cloud[c]
            /\ phase'[key[w]] # "" \/ (phase' = phase /\ cloud' = cloud)
        BY <1>1, <2>1, <3>2 DEF CreateCluster, CreateCASecret, TypeOK, Private
      <4>. QED  BY <1>1, <4>1 DEF FirstPhase
    <3>3. CASE DeleteCluster(w)
      <4>1. /\ phase' = phase /\ cloud[key[w]] # "absent"
            /\ \A c \in Configs \ {key[w]} : cloud'[c] = cloud[c]
        BY <2>1, <3>3 DEF DeleteCluster, Found, objectVars, Private
      <4>. QED  BY <1>1, <2>1, <4>1 DEF FirstPhase, Private
    <3>. QED  BY <1>8, <3>1, <3>2, <3>3 DEF CallStep, SetClientsFails, DescribeCreated,
              CheckAndUpdate, DescribeRemoved, CallFails, Release, objectVars
  <2>3. CASE Finish(w)
    BY <1>1, <2>1, <2>2, <2>3, Finished
  <2>4. CASE ~Finish(w)
    <3>1. DescribeCreated(w) \/ DescribeRemoved(w) \/ DeleteCluster(w)
      BY <1>8, <2>4 DEF CallStep, SetClientsFails, CreateCluster, CreateCASecret,
         CheckAndUpdate, CallFails, Release
    <3>2. pc[w] \in Requests
      BY <3>1 DEF DescribeCreated, DescribeRemoved, DeleteCluster, Requests, Calls
    <3>3. crossed' = crossed /\ place' = place
      BY <2>4, <3>1 DEF DescribeCreated, DescribeRemoved, DeleteCluster, Found
    <3>4. /\ client' \in Clients
          /\ key[w] \notin crossed' => client' = Home[key[w]]
      BY <1>1, <2>1, <3>2, <3>3 DEF CallOK
    <3>5. CASE DescribeCreated(w)
      <4>1. GoTo(w, "kubeconfig")
        BY <2>4, <3>5 DEF DescribeCreated
      <4>. QED  BY <1>1, <2>1, <2>2, <3>4, <4>1, Continues
    <3>6. CASE DescribeRemoved(w)
      <4>1. CASE Found(w)
        <5>1. GoTo(w, "delete")
          BY <3>6, <4>1 DEF DescribeRemoved
        <5>. QED  BY <1>1, <2>1, <2>2, <3>4, <5>1, Continues
      <4>2. CASE ~Found(w)
        <5>1. GoTo(w, "release") /\ cloud' = cloud
          BY <3>6, <4>2 DEF DescribeRemoved
        <5>2. key[w] \notin crossed' /\ place'[key[w]] = Home[key[w]]
                => cloud'[key[w]] \in {"absent", "gone"}
          BY <2>1, <3>3, <3>4, <4>2, <5>1 DEF Found
        <5>. QED  BY <1>1, <2>1, <2>2, <3>4, <5>1, <5>2, Continues DEF Requests
      <4>. QED  BY <4>1, <4>2
    <3>7. CASE DeleteCluster(w)
      <4>1. GoTo(w, "release") /\ cloud'[key[w]] = "deleting"
        BY <1>1, <2>1, <3>7 DEF DeleteCluster, TypeOK, Private
      <4>. QED  BY <1>1, <2>1, <2>2, <3>4, <4>1, Continues DEF Requests
    <3>. QED  BY <3>1, <3>5, <3>6, <3>7
  <2>. QED  BY <2>3, <2>4
<1>. QED  BY <1>6, <1>7, <1>8 DEF Worker, CallStep

LEMMA OthersStep ==
  ASSUME IInv, NEW c \in Configs,
         \/ UserDelete(c)
         \/ Progress(c, "creating", "running") \/ Progress(c, "deleting", "gone")
  PROVE  IInv'
<1>1. TypeOK /\ FirstPhase /\ WorkersOK
  BY DEF IInv, WorkersOK
<1>2. CASE UserDelete(c)
  <2>1. TypeOK'
    BY <1>1, <1>2 DEF UserDelete, workerVars, TypeOK
  <2>2. FirstPhase' /\ WorkersOK'
    BY <1>1, <1>2 DEF UserDelete, workerVars, FirstPhase, WorkersOK, KeysDiffer, CallOK
  <2>. QED  BY <2>1, <2>2 DEF IInv, WorkersOK
<1>3. CASE Progress(c, "creating", "running") \/ Progress(c, "deleting", "gone")
  <2>1. TypeOK'
    BY <1>1, <1>3 DEF Progress, workerVars, objectVars, TypeOK
  <2>2. \A d \in Configs : \/ cloud'[d] = cloud[d]
                           \/ cloud[d] = "deleting" /\ cloud'[d] = "gone"
                           \/ cloud[d] = "creating" /\ cloud'[d] = "running"
    BY <1>1, <1>3 DEF Progress, TypeOK
  <2>3. UNCHANGED <<client, pc, key, phase, place, crossed>>
    BY <1>3 DEF Progress, workerVars, objectVars
  <2>4. FirstPhase'
    BY <1>1, <2>2, <2>3 DEF FirstPhase
  <2>5. WorkersOK'
    <3>1. KeysDiffer'
      BY <1>1, <2>3 DEF WorkersOK, KeysDiffer
    <3>. QED  BY <1>1, <2>2, <2>3, <3>1 DEF WorkersOK, CallOK, Requests, Calls
  <2>. QED  BY <2>1, <2>4, <2>5 DEF IInv, WorkersOK
<1>. QED  BY <1>2, <1>3

LEMMA StepSafe ==
  ASSUME IInv, [Next]_vars
  PROVE  IInv'
<1>1. CASE UNCHANGED vars
  BY <1>1 DEF vars, workerVars, objectVars, IInv, TypeOK, FirstPhase, KeysDiffer, CallOK
<1>. QED  BY <1>1, WorkerStep, OthersStep DEF Next

LEMMA InitSafe == Init => IInv
<1>1. ASSUME Init PROVE TypeOK
  <2>1. /\ pc \in [Workers -> Calls \cup {"idle", "clients"}]
        /\ key \in [Workers -> Configs \cup {None}] /\ removing \in [Workers -> BOOLEAN]
    BY <1>1 DEF Init
  <2>2. /\ phase \in [Configs -> {"", "creating", "active"}]
        /\ deleting \in [Configs -> BOOLEAN] /\ released \in [Configs -> BOOLEAN]
    BY <1>1 DEF Init
  <2>3. /\ cloud \in [Configs -> {"absent", "creating", "running", "deleting", "gone"}]
        /\ place \in [Configs -> Clients \cup {None}]
        /\ client \in Clients \cup {None} /\ crossed \subseteq Configs
    BY <1>1 DEF Init
  <2>. QED  BY <2>1, <2>2, <2>3 DEF TypeOK
<1>2. Init => FirstPhase
  BY DEF Init, FirstPhase
<1>3. Init => WorkersOK
  <2>1. "idle" \notin Requests \cup {"clients", "release"}
    BY DEF Requests, Calls
  <2>2. Init => \A w \in Workers : pc[w] = "idle"
    BY DEF Init
  <2>. QED  BY <2>1, <2>2 DEF WorkersOK, KeysDiffer, CallOK
<1>. QED  BY <1>1, <1>2, <1>3 DEF IInv, WorkersOK

(* From getAlibabaClients to the end of a reconcile the client in use is     *)
(* that of the object in hand, unless another reconcile has put in a         *)
(* different one in between.                                                 *)
THEOREM ClientSafe == Spec => []IInv
<1>1. IInv /\ [Next]_vars => IInv'
  BY StepSafe
<1>. QED  BY <1>1, InitSafe, PTL DEF Spec

(* A cluster is made where its configuration says unless another             *)
(* getAlibabaClients came between this reconcile's own and CreateCluster.    *)
THEOREM ClientMadeAtHome == Spec => CreatedAtHome
<1>. DEFINE AtHome ==
       \A c \in Configs :
          cloud[c] = "absent" /\ cloud'[c] # "absent" => c \in crossed \/ place'[c] = Home[c]
<1>1. ASSUME IInv, Next PROVE AtHome
  <2>. SUFFICES ASSUME NEW c \in Configs, cloud[c] = "absent", cloud'[c] # "absent",
                       c \notin crossed
                PROVE  place'[c] = Home[c]
    OBVIOUS
  <2>1. PICK w \in Workers : CreateCluster(w) /\ key[w] = c
    <3>1. ASSUME NEW d \in Configs,
                 \/ UserDelete(d)
                 \/ Progress(d, "creating", "running") \/ Progress(d, "deleting", "gone")
          PROVE  FALSE
      BY <1>1, <3>1 DEF UserDelete, Progress, IInv, TypeOK
    <3>2. ASSUME NEW w \in Workers, Worker(w)
          PROVE  CreateCluster(w) /\ key[w] = c
      BY <1>1, <3>2 DEF Worker, Take, SetClients, SetClientsFails, CreateCluster,
         DescribeCreated, CreateCASecret, CheckAndUpdate, DescribeRemoved, DeleteCluster,
         Found, CallFails, Release, IInv, TypeOK
    <3>. QED  BY <1>1, <3>1, <3>2 DEF Next
  <2>2. client = Home[c] /\ Home[c] \in Clients
    BY <1>1, <2>1, HomeAssumption DEF CreateCluster, IInv, CallOK, Requests, Calls
  <2>3. place'[c] = [region |-> Home[c].region, account |-> client.account]
    BY <1>1, <2>1 DEF CreateCluster, IInv, TypeOK
  <2>. QED  BY <2>2, <2>3 DEF Clients
<1>2. IInv /\ [Next]_vars => [AtHome]_vars
  BY <1>1
<1>. QED  BY <1>2, ClientSafe, PTL DEF Spec, CreatedAtHome

(* OnAliConfigRemoved lets go of no object whose cluster stands where it     *)
(* should, unless another getAlibabaClients came between this reconcile's    *)
(* own and its last request.                                                 *)
THEOREM ClientRemovedIsGone == Spec => ReleasedWhenGone
<1>. DEFINE WhenGone ==
       \A c \in Configs :
          ~released[c] /\ released'[c] /\ place[c] = Home[c] =>
              c \in crossed \/ cloud[c] \in {"absent", "deleting", "gone"}
<1>1. ASSUME IInv, Next PROVE WhenGone
  <2>. SUFFICES ASSUME NEW c \in Configs, ~released[c], released'[c], place[c] = Home[c],
                       c \notin crossed
                PROVE  cloud[c] \in {"absent", "deleting", "gone"}
    OBVIOUS
  <2>1. PICK w \in Workers : Release(w) /\ key[w] = c
    <3>1. ASSUME NEW d \in Configs,
                 \/ UserDelete(d)
                 \/ Progress(d, "creating", "running") \/ Progress(d, "deleting", "gone")
          PROVE  FALSE
      BY <1>1, <3>1 DEF UserDelete, Progress, objectVars
    <3>2. ASSUME NEW w \in Workers, Worker(w)
          PROVE  Release(w) /\ key[w] = c
      BY <1>1, <3>2 DEF Worker, Take, SetClients, SetClientsFails, CreateCluster,
         DescribeCreated, CreateCASecret, CheckAndUpdate, DescribeRemoved, DeleteCluster,
         CallFails, Release, objectVars, IInv, TypeOK
    <3>. QED  BY <1>1, <3>1, <3>2 DEF Next
  <2>. QED  BY <1>1, <2>1 DEF Release, IInv, CallOK
<1>2. IInv /\ [Next]_vars => [WhenGone]_vars
  BY <1>1
<1>. QED  BY <1>2, ClientSafe, PTL DEF Spec, ReleasedWhenGone

=============================================================================
