------------------------ MODULE NodeResources_proofs ------------------------
(***************************************************************************)
(* Proofs about NodeResources, for any nodes, replicas, failures, crashes  *)
(* and interleavings of deploys and deletes: the type invariant, and the   *)
(* relations between a node's StatefulSet and the objects it lives on.     *)
(***************************************************************************)
EXTENDS NodeResources, LoadBalancer_proofs

-----------------------------------------------------------------------------
(* The inductive invariant: for each node, what the API calls its          *)
(* procedure has made so far have established.                             *)

(* The labels of deploy from a given call on.                              *)
FromScripts == DeployLabels \ {"get_peer_info", "put_peer_info",
                               "get_cluster_secret", "put_cluster_secret"}
FromIdentities == FromScripts \ {"put_scripts"}
FromLb == FromIdentities \ {"get_ids", "put_ids"}

DeployProgress(n) ==
  /\ n \in Storage /\ pc[n] \in {"get_cluster_secret", "put_cluster_secret"}
       => Exists(n, "peer-info")
  /\ n \in Storage /\ pc[n] \in FromScripts
       => Exists(n, "peer-info") /\ Exists(n, "cluster-secret")
  /\ pc[n] \in FromIdentities => Exists(n, "startup-scripts")
  /\ pc[n] = "put_ids" => ~Exists(n, "identities")
  /\ pc[n] \in {"get_boot_ids", "get_boot_addrs"} => n \in Storage
  /\ pc[n] \in FromLb
       => Exists(n, "identities") /\ ids[n].key = res[n]["identities"].key
                                  /\ ids[n].size = res[n]["identities"].size
  /\ pc[n] = "put_sts" => Exists(n, "configs") /\ Configurable(n)

DeleteProgress(n) ==
  /\ pos[n] <= Len(DeleteOrder(n))
  /\ pc[n] = "idle" => pos[n] = 1
  /\ pc[n] = "delete"
       => \A j \in 1 .. pos[n] - 1 : ~Exists(n, DeleteOrder(n)[j])
  /\ pc[n] \in {"delete_lb", "cleaned"} => \A k \in Kinds : ~Exists(n, k)

(* A load balancer call runs only where the procedure makes one.           *)
LbPhasesOf(label) ==
  CASE label = "lb" -> {"idle", "removing", "creating", "deployed", "ready",
                        "err"}
    [] label = "delete_lb" -> {"idle", "deleting", "deleted", "err"}
    [] OTHER -> {"idle"}

(* What holds of the objects of n at every label.                          *)
SecretsOfStorage(n) ==
  /\ Exists(n, "peer-info") \/ Exists(n, "cluster-secret") => n \in Storage
  /\ pc[n] \in {"get_peer_info", "put_peer_info", "get_cluster_secret",
                "put_cluster_secret"} => n \in Storage

ObjectsAgree(n) ==
  /\ Exists(n, "sts") => \A k \in Mounts(n) : Exists(n, k)
  /\ Exists(n, "configs") =>
       /\ Exists(n, "identities")
       /\ res[n]["configs"].key = res[n]["identities"].key
       /\ res[n]["configs"].size = res[n]["identities"].size
  /\ Exists(n, "sts") =>
       /\ res[n]["identities"].size <= res[n]["sts"].size
       /\ n \notin Storage =>
            res[n]["sts"].size = res[n]["identities"].size
  /\ Exists(n, "external-addresses") =>
       /\ Exists(n, "identities")
       /\ res[n]["external-addresses"].key = res[n]["identities"].key
  /\ Exists(n, "identities") => res[n]["identities"].key \in Keys

NodeInv(n) ==
  /\ DeployProgress(n)
  /\ DeleteProgress(n)
  /\ lbpc[n] \in LbPhasesOf(pc[n])
  /\ SecretsOfStorage(n)
  /\ ObjectsAgree(n)

ResourcesTypeOK ==
  /\ res \in [Nodes -> [Kinds -> Objects \cup {None}]]
  /\ pc \in [Nodes -> Labels]
  /\ spec \in [Nodes -> Int]
  /\ ids \in [Nodes -> Objects]
  /\ boot \in [Nodes -> Objects]
  /\ pos \in [Nodes -> 1 .. 7]

NrInv ==
  /\ LbInv
  /\ ResourcesTypeOK
  /\ \A n \in Nodes : NodeInv(n)

(* What a step of n needs of it, and keeps.                                *)
StepInv(n) == LbInv /\ ResourcesTypeOK /\ NodeInv(n)

-----------------------------------------------------------------------------
(* The pods of a count of replicas, as a number.                           *)
LEMMA CountValue ==
  ASSUME NEW r \in Int
  PROVE  Count(r) = (IF r > 0 THEN r ELSE 0) /\ Count(r) \in Nat
<1>1. Cardinality(0 .. r - 1) = IF 0 > r - 1 THEN 0 ELSE r - 1 - 0 + 1
  BY FS_Interval
<1> QED
  BY <1>1 DEF Count, Pods

(* The order of delete, call by call.                                      *)
LEMMA DeleteOrderStorage ==
  ASSUME NEW n \in Storage
  PROVE  /\ Len(DeleteOrder(n)) = 7
         /\ DeleteOrder(n)[1] = "sts"
         /\ DeleteOrder(n)[2] = "external-addresses"
         /\ DeleteOrder(n)[3] = "configs"
         /\ DeleteOrder(n)[4] = "identities"
         /\ DeleteOrder(n)[5] = "cluster-secret"
         /\ DeleteOrder(n)[6] = "peer-info"
         /\ DeleteOrder(n)[7] = "startup-scripts"
  BY DEF DeleteOrder

LEMMA DeleteOrderBootstrap ==
  ASSUME NEW n, n \notin Storage
  PROVE  /\ Len(DeleteOrder(n)) = 6
         /\ DeleteOrder(n)[1] = "sts"
         /\ DeleteOrder(n)[2] = "external-addresses"
         /\ DeleteOrder(n)[3] = "configs"
         /\ DeleteOrder(n)[4] = "identities"
         /\ DeleteOrder(n)[5] = "startup-scripts"
         /\ DeleteOrder(n)[6] = "identities"
  BY DEF DeleteOrder

LEMMA DeleteOrderKinds ==
  ASSUME NEW n
  PROVE  /\ Len(DeleteOrder(n)) \in {6, 7}
         /\ \A j \in 1 .. Len(DeleteOrder(n)) : DeleteOrder(n)[j] \in Kinds
<1>1. CASE n \in Storage
  BY <1>1, DeleteOrderStorage DEF Kinds
<1>2. CASE n \notin Storage
  BY <1>2, DeleteOrderBootstrap DEF Kinds
<1> QED
  BY <1>1, <1>2

(* The values the procedures build are objects.                            *)
LEMMA ObjectTypes ==
  /\ \A size \in Nat : Plain(size) \in Objects
  /\ \A key \in Keys \cup {NoKey}, size \in Nat, b \in Keys \cup {NoKey} :
       Object(key, size, b) \in Objects
  /\ Empty \in Objects
  BY DEF Plain, Object, Objects, Empty

(* What a pod of n mounts or reads.                                        *)
LEMMA MountsAre ==
  ASSUME NEW n \in Nodes
  PROVE  /\ Mounts(n) \subseteq Kinds \ {"sts", "external-addresses",
                                         "identities"}
         /\ "configs" \in Mounts(n)
         /\ n \notin Storage => Mounts(n) = {"configs", "startup-scripts"}
  BY NrAssumption
  DEF Mounts, IpfsVolumes, ClusterVolumes, ClusterEnv, Kinds

LEMMA MountsStay == ASSUME NEW n PROVE Mounts(n)' = Mounts(n)
  BY DEF Mounts, IpfsVolumes, ClusterVolumes, ClusterEnv

(* The invariant of m depends on nothing but what belongs to m.            *)
LEMMA NodeFrame ==
  ASSUME NEW m \in Nodes, NodeInv(m),
         \A k \in Kinds : res'[m][k] = res[m][k],
         pc'[m] = pc[m], spec'[m] = spec[m], ids'[m] = ids[m],
         pos'[m] = pos[m], pos[m] \in 1 .. 7,
         lbpc'[m] \in LbPhasesOf(pc[m])
  PROVE  NodeInv(m)'
<1>1. \A k \in Kinds : Exists(m, k)' = Exists(m, k)
  BY DEF Exists
<1>2. Configurable(m)' = Configurable(m)
  BY DEF Configurable, Count
<1>3. DeleteOrder(m)' = DeleteOrder(m) /\ Mounts(m)' = Mounts(m)
  BY MountsStay DEF DeleteOrder
<1>4. Mounts(m) \subseteq Kinds
  BY MountsAre
<1>5. DeployProgress(m)'
  BY <1>1, <1>2 DEF NodeInv, DeployProgress, Kinds
<1>6. DeleteProgress(m)'
  BY <1>1, <1>3, DeleteOrderKinds DEF NodeInv, DeleteProgress
<1>7. LbPhasesOf(pc[m])' = LbPhasesOf(pc[m])
  BY DEF LbPhasesOf
<1>8. SecretsOfStorage(m)'
  BY <1>1 DEF NodeInv, SecretsOfStorage, Kinds
<1>9. ObjectsAgree(m)'
  BY <1>1, <1>3, <1>4 DEF NodeInv, ObjectsAgree, Kinds
<1> QED
  BY <1>5, <1>6, <1>7, <1>8, <1>9 DEF NodeInv

-----------------------------------------------------------------------------
(* Steps of one node.                                                      *)

(* Nothing that belongs to another node changes.                           *)
OnlyNode(n) ==
  \A m \in Nodes \ {n} :
    /\ res'[m] = res[m] /\ pc'[m] = pc[m] /\ spec'[m] = spec[m]
    /\ ids'[m] = ids[m] /\ pos'[m] = pos[m] /\ lbpc'[m] = lbpc[m]

LEMMA OneNodeSuffices ==
  ASSUME NrInv, NEW n \in Nodes, StepInv(n)', OnlyNode(n)
  PROVE  NrInv'
<1>1. ASSUME NEW m \in Nodes, m # n
      PROVE  NodeInv(m)'
  <2>1. NodeInv(m) /\ pos[m] \in 1 .. 7 /\ lbpc[m] \in LbPhasesOf(pc[m])
    BY DEF NrInv, ResourcesTypeOK, NodeInv
  <2>2. /\ \A k \in Kinds : res'[m][k] = res[m][k]
        /\ pc'[m] = pc[m] /\ spec'[m] = spec[m] /\ ids'[m] = ids[m]
        /\ pos'[m] = pos[m] /\ lbpc'[m] = lbpc[m]
    BY <1>1 DEF OnlyNode
  <2> QED
    BY <2>1, <2>2, NodeFrame
<1> QED
  BY <1>1 DEF NrInv, StepInv

(* A request that succeeds or fails does not touch the load balancers.     *)
LEMMA RequestLbInv ==
  ASSUME LbInv, UNCHANGED lbLocals, Fault \/ NoFault
  PROVE  LbInv'
  BY LbAssumption
  DEF LbInv, LbTypeOK, PendingOnOneSide, AsUsize, lbLocals, Fault, NoFault

(* What one write and one change of label do.                              *)
LEMMA PutEffect ==
  ASSUME ResourcesTypeOK, NEW n \in Nodes, NEW k \in Kinds,
         NEW o \in Objects \cup {None}, Put(n, k, o)
  PROVE  /\ res' \in [Nodes -> [Kinds -> Objects \cup {None}]]
         /\ \A m \in Nodes \ {n} : res'[m] = res[m]
         /\ \A j \in Kinds \ {k} : res'[n][j] = res[n][j]
         /\ res'[n][k] = o
  BY DEF Put, ResourcesTypeOK

LEMMA GotoEffect ==
  ASSUME ResourcesTypeOK, NEW n \in Nodes, NEW next \in Labels,
         Goto(n, next)
  PROVE  /\ pc' \in [Nodes -> Labels]
         /\ \A m \in Nodes \ {n} : pc'[m] = pc[m]
         /\ pc'[n] = next
  BY DEF Goto, ResourcesTypeOK

(* What a server-side apply, or a delete, does.                            *)
LEMMA ApplyEffect ==
  ASSUME ResourcesTypeOK, NEW n \in Nodes, NEW k \in Kinds,
         NEW o \in Objects \cup {None}, NEW next \in Labels,
         Apply(n, k, o, next)
  PROVE  /\ Fault \/ NoFault
         /\ res' \in [Nodes -> [Kinds -> Objects \cup {None}]]
         /\ pc' \in [Nodes -> Labels]
         /\ \A m \in Nodes \ {n} : res'[m] = res[m] /\ pc'[m] = pc[m]
         /\ \A j \in Kinds \ {k} : res'[n][j] = res[n][j]
         /\ \/ pc'[n] = next /\ res'[n][k] = o
            \/ pc'[n] = "failed" /\ res'[n][k] \in {o, res[n][k]}
<1>1. "failed" \in Labels
  BY DEF Labels, Results
<1>2. CASE Put(n, k, o) /\ Goto(n, next)
  BY <1>2, PutEffect, GotoEffect DEF Apply
<1>3. CASE Put(n, k, o) /\ Goto(n, "failed")
  BY <1>1, <1>3, PutEffect, GotoEffect DEF Apply
<1>4. CASE UNCHANGED res /\ Goto(n, "failed")
  <2>1. res' \in [Nodes -> [Kinds -> Objects \cup {None}]]
    BY <1>4 DEF ResourcesTypeOK
  <2> QED
    BY <1>1, <1>4, <2>1, GotoEffect DEF Apply
<1> QED
  BY <1>2, <1>3, <1>4 DEF Apply

(* What a read, or a check that fails, does.                               *)
LEMMA ReadEffect ==
  ASSUME ResourcesTypeOK, NEW n \in Nodes, NEW next \in Labels,
         Read(n, next) \/ Fail(n)
  PROVE  /\ Fault \/ NoFault
         /\ pc' \in [Nodes -> Labels]
         /\ \A m \in Nodes \ {n} : pc'[m] = pc[m]
         /\ pc'[n] \in {next, "failed"}
  BY DEF Read, Fail, Goto, ResourcesTypeOK, Labels, Results

(* The relations between objects depend on the objects alone.              *)
LEMMA SameResources ==
  ASSUME NEW n \in Nodes, ObjectsAgree(n), res'[n] = res[n]
  PROVE  ObjectsAgree(n)'
<1>1. \A k : Exists(n, k)' = Exists(n, k)
  BY DEF Exists
<1>2. Mounts(n)' = Mounts(n)
  BY MountsStay
<1> QED
  BY <1>1, <1>2 DEF ObjectsAgree

(* Within deploy, the parts about delete and the load balancers follow.    *)
LEMMA DeployStepNodeInv ==
  ASSUME NEW n \in Nodes, NodeInv(n),
         pc[n] \in DeployLabels \ {"lb"},
         pc'[n] \in DeployLabels \cup {"deployed", "failed"},
         pos' = pos, lbpc'[n] = lbpc[n],
         DeployProgress(n)', SecretsOfStorage(n)', ObjectsAgree(n)'
  PROVE  NodeInv(n)'
<1>1. DeleteProgress(n)'
  BY DEF NodeInv, DeleteProgress, DeployLabels, DeleteOrder
<1>2. lbpc[n] = "idle"
  BY DEF NodeInv, LbPhasesOf, DeployLabels
<1>3. \A l : "idle" \in LbPhasesOf(l)
  BY DEF LbPhasesOf
<1> QED
  BY <1>1, <1>2, <1>3 DEF NodeInv

-----------------------------------------------------------------------------
(* What each step of deploy does, whatever other operators do to the       *)
(* objects of its node.                                                    *)

(* A request for n, made with n's locals.                                  *)
Request(n) ==
  /\ Fault \/ NoFault
  /\ ResourcesTypeOK'
  /\ OnlyNode(n)
  /\ UNCHANGED <<pos, lbLocals>>

(* k is written and `next` goes on, or the call fails, before or after.    *)
Writes(n, k, o, next) ==
  /\ Request(n)
  /\ \A j \in Kinds \ {k} : res'[n][j] = res[n][j]
  /\ \/ pc'[n] = next /\ res'[n][k] = o
     \/ pc'[n] = "failed" /\ res'[n][k] \in {o, res[n][k]}

LEMMA WritesEffect ==
  ASSUME ResourcesTypeOK, NEW n \in Nodes, NEW k \in Kinds,
         NEW o \in Objects, NEW next \in Labels, Apply(n, k, o, next),
         ids' \in [Nodes -> Objects], \A m \in Nodes \ {n} : ids'[m] = ids[m],
         UNCHANGED <<spec, boot, pos, lbLocals>>
  PROVE  Writes(n, k, o, next) /\ o # None
<1>1. /\ Fault \/ NoFault
      /\ res' \in [Nodes -> [Kinds -> Objects \cup {None}]]
      /\ pc' \in [Nodes -> Labels]
      /\ \A m \in Nodes \ {n} : res'[m] = res[m] /\ pc'[m] = pc[m]
      /\ \A j \in Kinds \ {k} : res'[n][j] = res[n][j]
      /\ \/ pc'[n] = next /\ res'[n][k] = o
         \/ pc'[n] = "failed" /\ res'[n][k] \in {o, res[n][k]}
  BY ApplyEffect
<1>2. ResourcesTypeOK' /\ OnlyNode(n)
  BY <1>1 DEF ResourcesTypeOK, OnlyNode, lbLocals
<1> QED
  BY <1>1, <1>2, NoneAssumption DEF Writes, Request

LEMMA FailEffect ==
  ASSUME NEW n \in Nodes, ResourcesTypeOK, Fail(n),
         UNCHANGED <<res, nrLocals, lbLocals>>
  PROVE  Request(n) /\ res' = res /\ pc'[n] = "failed"
<1>1. /\ pc' \in [Nodes -> Labels] /\ pc'[n] = "failed"
      /\ \A m \in Nodes \ {n} : pc'[m] = pc[m]
  BY DEF Fail, Goto, ResourcesTypeOK, Labels, Results
<1>2. ResourcesTypeOK' /\ OnlyNode(n)
  BY <1>1 DEF ResourcesTypeOK, OnlyNode, nrLocals, lbLocals
<1> QED
  BY <1>1, <1>2 DEF Request, Fail, nrLocals

LEMMA GetSecretEffect ==
  ASSUME NEW n \in Nodes, ResourcesTypeOK, UNCHANGED lbLocals,
         GetPeerInfo(n) \/ GetClusterSecret(n)
  PROVE  /\ Request(n) /\ res' = res
         /\ \/ pc[n] = "get_peer_info" /\ pc'[n] = "put_peer_info"
            \/ pc[n] = "get_peer_info" /\ pc'[n] = "get_cluster_secret"
                 /\ Exists(n, "peer-info")
            \/ pc[n] = "get_cluster_secret" /\ pc'[n] = "put_cluster_secret"
            \/ pc[n] = "get_cluster_secret" /\ pc'[n] = "put_scripts"
                 /\ Exists(n, "cluster-secret")
<1>1. ResourcesTypeOK'
  BY DEF ResourcesTypeOK, GetPeerInfo, GetClusterSecret, GetSecret,
         Goto, Labels, DeployLabels, nrLocals
<1>2. OnlyNode(n)
  BY DEF ResourcesTypeOK, OnlyNode, GetPeerInfo, GetClusterSecret,
         GetSecret, Goto, nrLocals, lbLocals
<1>3. Request(n) /\ res' = res
  BY <1>1, <1>2
  DEF Request, GetPeerInfo, GetClusterSecret, GetSecret, nrLocals
<1> QED
  BY <1>3 DEF GetPeerInfo, GetClusterSecret, GetSecret, Goto, ResourcesTypeOK

LEMMA PutSecretEffect ==
  ASSUME NEW n \in Nodes, ResourcesTypeOK, UNCHANGED lbLocals,
         PutPeerInfo(n) \/ PutClusterSecret(n)
  PROVE  \E k \in {"peer-info", "cluster-secret"} : \E o \in Objects \ {None},
            next \in {"get_cluster_secret", "put_scripts"} :
           /\ Writes(n, k, o, next)
           /\ \/ pc[n] = "put_peer_info" /\ k = "peer-info"
                 /\ next = "get_cluster_secret"
              \/ pc[n] = "put_cluster_secret" /\ k = "cluster-secret"
                 /\ next = "put_scripts"
<1>1. PICK k \in {"peer-info", "cluster-secret"},
           next \in {"get_cluster_secret", "put_scripts"}, key \in Keys :
        /\ Apply(n, k, Object(key, 1, NoKey), next)
        /\ \/ pc[n] = "put_peer_info" /\ k = "peer-info"
              /\ next = "get_cluster_secret"
           \/ pc[n] = "put_cluster_secret" /\ k = "cluster-secret"
              /\ next = "put_scripts"
  BY DEF PutPeerInfo, PutClusterSecret, PutSecret, NewKeys
<1>2. /\ k \in Kinds /\ next \in Labels
      /\ Object(key, 1, NoKey) \in Objects
  BY ObjectTypes DEF Kinds, Labels, DeployLabels
<1>3. UNCHANGED nrLocals
  BY DEF PutPeerInfo, PutClusterSecret, PutSecret
<1>4. /\ Writes(n, k, Object(key, 1, NoKey), next)
      /\ Object(key, 1, NoKey) # None
  BY <1>1, <1>2, <1>3, WritesEffect DEF nrLocals, ResourcesTypeOK
<1> QED
  BY <1>1, <1>2, <1>4

LEMMA CopyScriptsEffect ==
  ASSUME NEW n \in Nodes, ResourcesTypeOK, UNCHANGED lbLocals, CopyScripts(n)
  PROVE  /\ pc[n] = "put_scripts" /\ Plain(2) # None
         /\ Writes(n, "startup-scripts", Plain(2), "get_ids")
<1>1. /\ "startup-scripts" \in Kinds /\ "get_ids" \in Labels
      /\ Plain(2) \in Objects
  BY ObjectTypes DEF Kinds, Labels, DeployLabels
<1> QED
  BY <1>1, WritesEffect DEF CopyScripts, nrLocals, ResourcesTypeOK

(* The identities are taken from the ConfigMap if it exists.               *)
LEMMA GetIdentitiesEffect ==
  ASSUME NEW n \in Nodes, ResourcesTypeOK, UNCHANGED lbLocals,
         GetIdentities(n)
  PROVE  /\ pc[n] = "get_ids" /\ Request(n) /\ res' = res
         /\ \/ pc'[n] = "failed"
            \/ pc'[n] = "put_ids" /\ ~Exists(n, "identities")
            \/ pc'[n] = "lb" /\ Exists(n, "identities")
                 /\ ids'[n] = res[n]["identities"]
<1>1. /\ pc[n] = "get_ids" /\ res' = res
      /\ UNCHANGED <<spec, boot, pos>>
  BY DEF GetIdentities
<1>2. PICK next \in {"lb", "put_ids"} :
        /\ Read(n, next) \/ Fail(n)
        /\ \/ pc'[n] = "failed"
           \/ next = "lb" /\ Exists(n, "identities")
                /\ ids' = [ids EXCEPT ![n] = res[n]["identities"]]
           \/ next = "put_ids" /\ ~Exists(n, "identities")
        /\ ids' \in {ids, [ids EXCEPT ![n] = res[n]["identities"]]}
        /\ ids' # ids => Exists(n, "identities")
  BY DEF GetIdentities, HasData, Fail, Goto, ResourcesTypeOK
<1>3. next \in Labels
  BY <1>2 DEF Labels, DeployLabels
<1>4. /\ Fault \/ NoFault
      /\ pc' \in [Nodes -> Labels]
      /\ \A m \in Nodes \ {n} : pc'[m] = pc[m]
      /\ pc'[n] \in {next, "failed"}
  BY <1>2, <1>3, ReadEffect
<1>5. Exists(n, "identities") => res[n]["identities"] \in Objects
  BY DEF Exists, ResourcesTypeOK, Kinds
<1>6. ResourcesTypeOK' /\ OnlyNode(n)
  BY <1>1, <1>2, <1>4, <1>5 DEF ResourcesTypeOK, OnlyNode, lbLocals
<1> QED
  BY <1>1, <1>2, <1>4, <1>6 DEF Request, ResourcesTypeOK

LEMMA PutIdentitiesEffect ==
  ASSUME NEW n \in Nodes, ResourcesTypeOK, UNCHANGED lbLocals,
         PutIdentities(n)
  PROVE  /\ pc[n] = "put_ids"
         /\ \E o \in Objects \ {None} :
              /\ Writes(n, "identities", o, "lb")
              /\ ids'[n] = o /\ o.key \in Keys
<1>1. PICK key \in Keys :
        LET o == Object(key, Count(spec[n]), NoKey) IN
        Apply(n, "identities", o, "lb") /\ ids' = [ids EXCEPT ![n] = o]
  BY DEF PutIdentities
<1> DEFINE o == Object(key, Count(spec[n]), NoKey)
<1>2. o \in Objects /\ o.key \in Keys
  <2>1. Count(spec[n]) \in Nat
    BY CountValue DEF ResourcesTypeOK
  <2> QED
    BY <2>1, ObjectTypes DEF Object
<1>3. "identities" \in Kinds /\ "lb" \in Labels
  BY DEF Kinds, Labels, DeployLabels
<1>4. Apply(n, "identities", o, "lb") /\ ids' = [ids EXCEPT ![n] = o]
  BY <1>1
<1> HIDE DEF o
<1>5. /\ ids' \in [Nodes -> Objects] /\ ids'[n] = o
      /\ \A m \in Nodes \ {n} : ids'[m] = ids[m]
  BY <1>2, <1>4 DEF ResourcesTypeOK
<1>6. Writes(n, "identities", o, "lb") /\ o # None
  BY <1>2, <1>3, <1>4, <1>5, WritesEffect DEF PutIdentities
<1> QED
  BY <1>2, <1>5, <1>6 DEF PutIdentities

LEMMA PutAddressesEffect ==
  ASSUME NEW n \in Nodes, ResourcesTypeOK, UNCHANGED lbLocals,
         PutAddresses(n)
  PROVE  /\ pc[n] = "put_addrs" /\ UNCHANGED nrLocals
         /\ \E o \in Objects \ {None} :
              /\ Writes(n, "external-addresses", o,
                        IF n \in Storage THEN "get_boot_ids"
                                         ELSE "put_configs")
              /\ o.key = ids[n].key
<1> DEFINE o == Object(ids[n].key, Count(spec[n]), NoKey)
           next == IF n \in Storage THEN "get_boot_ids" ELSE "put_configs"
<1>1. o \in Objects /\ o.key = ids[n].key
  <2>1. Count(spec[n]) \in Nat
    BY CountValue DEF ResourcesTypeOK
  <2>2. ids[n].key \in Keys \cup {NoKey}
    BY DEF ResourcesTypeOK, Objects
  <2> QED
    BY <2>1, <2>2, ObjectTypes DEF Object
<1>2. "external-addresses" \in Kinds /\ next \in Labels
  BY DEF Kinds, Labels, DeployLabels
<1>3. Apply(n, "external-addresses", o, next) /\ UNCHANGED nrLocals
  BY DEF PutAddresses
<1> HIDE DEF o, next
<1>4. Writes(n, "external-addresses", o, next) /\ o # None
  BY <1>1, <1>2, <1>3, WritesEffect DEF nrLocals, ResourcesTypeOK
<1> QED
  BY <1>1, <1>3, <1>4 DEF PutAddresses, next

(* The reads of the bootstrap node's ConfigMaps.                           *)
LEMMA GetBootEffect ==
  ASSUME NEW n \in Storage, n \in Nodes, ResourcesTypeOK, UNCHANGED lbLocals,
         GetBootIdentities(n) \/ GetBootAddresses(n)
  PROVE  /\ Request(n) /\ res' = res /\ ids' = ids
         /\ \/ pc[n] = "get_boot_ids" /\ pc'[n] = "get_boot_addrs"
            \/ pc[n] = "get_boot_addrs" /\ pc'[n] = "put_configs"
            \/ pc[n] \in {"get_boot_ids", "get_boot_addrs"}
                 /\ pc'[n] = "failed"
<1>1. /\ UNCHANGED <<res, spec, ids, pos>>
      /\ pc[n] \in {"get_boot_ids", "get_boot_addrs"}
  BY DEF GetBootIdentities, GetBootAddresses, nrLocals
<1>2. PICK next \in {"get_boot_addrs", "put_configs"} :
        /\ Read(n, next) \/ Fail(n)
        /\ \/ pc[n] = "get_boot_ids" /\ next = "get_boot_addrs"
           \/ pc[n] = "get_boot_addrs" /\ next = "put_configs"
  BY DEF GetBootIdentities, GetBootAddresses
<1>3. next \in Labels
  BY <1>2 DEF Labels, DeployLabels
<1>4. /\ Fault \/ NoFault
      /\ pc' \in [Nodes -> Labels]
      /\ \A m \in Nodes \ {n} : pc'[m] = pc[m]
      /\ pc'[n] \in {next, "failed"}
  BY <1>2, <1>3, ReadEffect
<1>5. boot' \in [Nodes -> Objects]
  <2>1. CASE UNCHANGED boot
    BY <2>1 DEF ResourcesTypeOK
  <2>2. CASE /\ HasData(BootstrapOf[n], "identities")
             /\ boot' = [boot EXCEPT ![n] = res[BootstrapOf[n]]["identities"]]
    <3>1. res[BootstrapOf[n]]["identities"] \in Objects
      BY <2>2, NrAssumption DEF ResourcesTypeOK, HasData, Exists, Kinds
    <3> QED
      BY <2>2, <3>1 DEF ResourcesTypeOK
  <2> QED
    BY <2>1, <2>2 DEF GetBootIdentities, GetBootAddresses, nrLocals
<1>6. ResourcesTypeOK' /\ OnlyNode(n)
  BY <1>1, <1>4, <1>5 DEF ResourcesTypeOK, OnlyNode, lbLocals
<1> QED
  BY <1>1, <1>2, <1>4, <1>6 DEF Request

LEMMA PutConfigsEffect ==
  ASSUME NEW n \in Nodes, ResourcesTypeOK, UNCHANGED lbLocals, PutConfigs(n)
  PROVE  /\ pc[n] = "put_configs" /\ UNCHANGED nrLocals
         /\ \/ Request(n) /\ res' = res /\ pc'[n] = "failed"
            \/ /\ Configurable(n)
               /\ \E o \in Objects \ {None} :
                    /\ Writes(n, "configs", o, "put_sts")
                    /\ o.key = ids[n].key /\ o.size = ids[n].size
<1> DEFINE o == Object(ids[n].key, ids[n].size, BootKey(n))
<1>1. o \in Objects /\ o.key = ids[n].key /\ o.size = ids[n].size
  <2>1. ids[n].key \in Keys \cup {NoKey} /\ ids[n].size \in Nat
        /\ boot[n].key \in Keys \cup {NoKey}
    BY DEF ResourcesTypeOK, Objects
  <2>2. BootKey(n) \in Keys \cup {NoKey}
    BY <2>1 DEF BootKey
  <2> QED
    BY <2>1, <2>2, ObjectTypes DEF Object
<1>2. "configs" \in Kinds /\ "put_sts" \in Labels
  BY DEF Kinds, Labels, DeployLabels
<1>3. \/ Configurable(n) /\ Apply(n, "configs", o, "put_sts")
      \/ Fail(n) /\ UNCHANGED res
  BY DEF PutConfigs
<1> HIDE DEF o
<1>4. pc[n] = "put_configs" /\ UNCHANGED nrLocals
  BY DEF PutConfigs
<1>5. CASE Configurable(n) /\ Apply(n, "configs", o, "put_sts")
  <2>1. Writes(n, "configs", o, "put_sts") /\ o # None
    BY <1>1, <1>2, <1>4, <1>5, WritesEffect DEF nrLocals, ResourcesTypeOK
  <2> QED
    BY <1>1, <1>4, <1>5, <2>1
<1>6. CASE Fail(n) /\ UNCHANGED res
  BY <1>4, <1>6, FailEffect
<1> QED
  BY <1>3, <1>5, <1>6

LEMMA PutStatefulSetEffect ==
  ASSUME NEW n \in Nodes, ResourcesTypeOK, UNCHANGED lbLocals,
         PutStatefulSet(n)
  PROVE  /\ pc[n] = "put_sts" /\ UNCHANGED nrLocals
         /\ \/ Request(n) /\ res' = res /\ pc'[n] = "failed"
            \/ \E o \in Objects \ {None} :
                 /\ Writes(n, "sts", o, "deployed")
                 /\ o.size = Count(spec[n])
<1> DEFINE o == Plain(spec[n])
<1>1. "sts" \in Kinds /\ "deployed" \in Labels
  BY DEF Kinds, Labels, Results
<1>2. pc[n] = "put_sts" /\ UNCHANGED nrLocals
  BY DEF PutStatefulSet
<1>3. CASE spec[n] >= 0 /\ Apply(n, "sts", o, "deployed")
  <2>1. o \in Objects /\ o.size = Count(spec[n])
    <3>1. spec[n] \in Nat /\ Count(spec[n]) = spec[n]
      BY <1>3, CountValue DEF ResourcesTypeOK
    <3> QED
      BY <3>1, ObjectTypes DEF Plain, Object
  <2> HIDE DEF o
  <2>2. Writes(n, "sts", o, "deployed") /\ o # None
    BY <1>1, <1>2, <1>3, <2>1, WritesEffect DEF nrLocals, ResourcesTypeOK
  <2> QED
    BY <1>2, <2>1, <2>2
<1>4. CASE Fail(n) /\ UNCHANGED res
  BY <1>2, <1>4, FailEffect
<1> QED
  BY <1>3, <1>4 DEF PutStatefulSet

-----------------------------------------------------------------------------
(* One lemma for each step of deploy: the invariant of its node stays.     *)

LEMMA DeployStepInv ==
  ASSUME NEW n \in Nodes, StepInv(n), Request(n),
         pc[n] \in DeployLabels \ {"lb"},
         pc'[n] \in DeployLabels \cup {"deployed", "failed"},
         DeployProgress(n)', SecretsOfStorage(n)', ObjectsAgree(n)'
  PROVE  StepInv(n)' /\ OnlyNode(n)
<1>1. LbInv'
  BY RequestLbInv DEF StepInv, Request
<1>2. NodeInv(n)'
  BY DeployStepNodeInv DEF StepInv, Request, lbLocals
<1> QED
  BY <1>1, <1>2 DEF StepInv, Request

(* A deploy that stops at an error without a write.                        *)
LEMMA FailInv ==
  ASSUME NEW n \in Nodes, StepInv(n), Request(n), res' = res,
         pc[n] \in DeployLabels \ {"lb"}, pc'[n] = "failed"
  PROVE  StepInv(n)' /\ OnlyNode(n)
<1>1. DeployProgress(n)'
  BY DEF DeployProgress, FromScripts, FromIdentities, FromLb, DeployLabels
<1>2. SecretsOfStorage(n)' /\ ObjectsAgree(n)'
  BY SameResources DEF StepInv, NodeInv, SecretsOfStorage, Exists
<1> QED
  BY <1>1, <1>2, DeployStepInv

LEMMA GetSecretInv ==
  ASSUME NEW n \in Nodes, StepInv(n), UNCHANGED lbLocals,
         GetPeerInfo(n) \/ GetClusterSecret(n)
  PROVE  StepInv(n)' /\ OnlyNode(n)
<1>1. /\ Request(n) /\ res' = res /\ NodeInv(n)
      /\ \/ pc[n] = "get_peer_info" /\ pc'[n] = "put_peer_info"
         \/ pc[n] = "get_peer_info" /\ pc'[n] = "get_cluster_secret"
              /\ Exists(n, "peer-info")
         \/ pc[n] = "get_cluster_secret" /\ pc'[n] = "put_cluster_secret"
         \/ pc[n] = "get_cluster_secret" /\ pc'[n] = "put_scripts"
              /\ Exists(n, "cluster-secret")
  BY GetSecretEffect DEF StepInv
<1>2. n \in Storage
  BY <1>1 DEF NodeInv, SecretsOfStorage
<1>3. DeployProgress(n)'
  BY <1>1 DEF NodeInv, DeployProgress, Exists, FromScripts, FromIdentities,
              FromLb, DeployLabels
<1>4. SecretsOfStorage(n)' /\ ObjectsAgree(n)'
  BY <1>1, <1>2, SameResources DEF NodeInv, SecretsOfStorage
<1> QED
  BY <1>1, <1>3, <1>4, DeployStepInv DEF DeployLabels

LEMMA PutSecretInv ==
  ASSUME NEW n \in Nodes, StepInv(n), UNCHANGED lbLocals,
         PutPeerInfo(n) \/ PutClusterSecret(n)
  PROVE  StepInv(n)' /\ OnlyNode(n)
<1>1. PICK k \in {"peer-info", "cluster-secret"}, o \in Objects \ {None},
           next \in {"get_cluster_secret", "put_scripts"} :
        /\ Writes(n, k, o, next)
        /\ \/ pc[n] = "put_peer_info" /\ k = "peer-info"
              /\ next = "get_cluster_secret"
           \/ pc[n] = "put_cluster_secret" /\ k = "cluster-secret"
              /\ next = "put_scripts"
  BY PutSecretEffect DEF StepInv
<1>2. NodeInv(n) /\ n \in Storage
  BY <1>1 DEF StepInv, NodeInv, SecretsOfStorage
<1>3. \A j \in Kinds : Exists(n, j) => Exists(n, j)'
  BY <1>1 DEF Writes, Exists
<1>4. DeployProgress(n)'
  BY <1>1, <1>2, <1>3
  DEF Writes, NodeInv, DeployProgress, Exists, FromScripts, FromIdentities,
      FromLb, DeployLabels, Kinds
<1>5. SecretsOfStorage(n)'
  BY <1>2 DEF SecretsOfStorage
<1>6. ObjectsAgree(n)'
  BY <1>1, <1>2, <1>3, MountsAre, MountsStay
  DEF Writes, NodeInv, ObjectsAgree, Exists, Kinds
<1> QED
  BY <1>1, <1>4, <1>5, <1>6, DeployStepInv DEF Writes, DeployLabels

LEMMA CopyScriptsInv ==
  ASSUME NEW n \in Nodes, StepInv(n), CopyScripts(n), UNCHANGED lbLocals
  PROVE  StepInv(n)' /\ OnlyNode(n)
<1>1. /\ NodeInv(n) /\ pc[n] = "put_scripts" /\ Plain(2) # None
      /\ Writes(n, "startup-scripts", Plain(2), "get_ids")
  BY CopyScriptsEffect DEF StepInv
<1>2. \A j \in Kinds : Exists(n, j) => Exists(n, j)'
  BY <1>1 DEF Writes, Exists
<1>3. DeployProgress(n)'
  BY <1>1, <1>2
  DEF Writes, NodeInv, DeployProgress, Exists, FromScripts, FromIdentities,
      FromLb, DeployLabels, Kinds
<1>4. SecretsOfStorage(n)'
  BY <1>1 DEF Writes, NodeInv, SecretsOfStorage, Exists, Kinds
<1>5. ObjectsAgree(n)'
  BY <1>1, <1>2, MountsAre, MountsStay
  DEF Writes, NodeInv, ObjectsAgree, Exists, Kinds
<1> QED
  BY <1>1, <1>3, <1>4, <1>5, DeployStepInv DEF Writes, DeployLabels

LEMMA GetIdentitiesInv ==
  ASSUME NEW n \in Nodes, StepInv(n), GetIdentities(n), UNCHANGED lbLocals
  PROVE  StepInv(n)' /\ OnlyNode(n)
<1>1. /\ NodeInv(n) /\ pc[n] = "get_ids" /\ Request(n) /\ res' = res
      /\ \/ pc'[n] = "failed"
         \/ pc'[n] = "put_ids" /\ ~Exists(n, "identities")
         \/ pc'[n] = "lb" /\ Exists(n, "identities")
              /\ ids'[n] = res[n]["identities"]
  BY GetIdentitiesEffect DEF StepInv
<1>2. DeployProgress(n)'
  BY <1>1
  DEF NodeInv, DeployProgress, Exists, FromScripts, FromIdentities, FromLb,
      DeployLabels
<1>3. SecretsOfStorage(n)' /\ ObjectsAgree(n)'
  BY <1>1, SameResources DEF NodeInv, SecretsOfStorage, Exists
<1> QED
  BY <1>1, <1>2, <1>3, DeployStepInv DEF DeployLabels

LEMMA PutIdentitiesInv ==
  ASSUME NEW n \in Nodes, StepInv(n), PutIdentities(n), UNCHANGED lbLocals
  PROVE  StepInv(n)' /\ OnlyNode(n)
<1>1. NodeInv(n) /\ pc[n] = "put_ids"
  BY PutIdentitiesEffect DEF StepInv
<1>2. PICK o \in Objects \ {None} :
        Writes(n, "identities", o, "lb") /\ ids'[n] = o /\ o.key \in Keys
  BY PutIdentitiesEffect DEF StepInv
<1>3. ~Exists(n, "identities") /\ ~Exists(n, "configs") /\ ~Exists(n, "sts")
      /\ ~Exists(n, "external-addresses")
  BY <1>1, MountsAre DEF NodeInv, DeployProgress, ObjectsAgree
<1>4. DeployProgress(n)'
  BY <1>1, <1>2
  DEF Writes, NodeInv, DeployProgress, Exists, FromScripts, FromIdentities,
      FromLb, DeployLabels, Kinds
<1>5. SecretsOfStorage(n)'
  BY <1>1, <1>2 DEF Writes, NodeInv, SecretsOfStorage, Exists, Kinds
<1>6. ObjectsAgree(n)'
  BY <1>2, <1>3 DEF Writes, ObjectsAgree, Exists, Kinds
<1> QED
  BY <1>1, <1>2, <1>4, <1>5, <1>6, DeployStepInv DEF Writes, DeployLabels

LEMMA PutAddressesInv ==
  ASSUME NEW n \in Nodes, StepInv(n), PutAddresses(n), UNCHANGED lbLocals
  PROVE  StepInv(n)' /\ OnlyNode(n)
<1> DEFINE next == IF n \in Storage THEN "get_boot_ids" ELSE "put_configs"
<1>1. NodeInv(n) /\ pc[n] = "put_addrs" /\ UNCHANGED nrLocals
  BY PutAddressesEffect DEF StepInv
<1>2. PICK o \in Objects \ {None} :
        Writes(n, "external-addresses", o, next) /\ o.key = ids[n].key
  BY PutAddressesEffect DEF StepInv
<1>3. \A j \in Kinds \ {"external-addresses"} : Exists(n, j)' = Exists(n, j)
  BY <1>2 DEF Writes, Exists
<1>4. DeployProgress(n)'
  BY <1>1, <1>2, <1>3
  DEF Writes, NodeInv, DeployProgress, FromScripts, FromIdentities, FromLb,
      DeployLabels, Kinds, nrLocals
<1>5. SecretsOfStorage(n)'
  BY <1>1, <1>2, <1>3 DEF Writes, NodeInv, SecretsOfStorage, Kinds
<1>6. ObjectsAgree(n)'
  <2>1. Exists(n, "identities") /\ o.key = res[n]["identities"].key
    BY <1>1, <1>2 DEF NodeInv, DeployProgress, FromLb, FromIdentities,
                      FromScripts, DeployLabels
  <2>2. Exists(n, "external-addresses")' =>
          res'[n]["external-addresses"].key = res[n]["identities"].key
    BY <1>1, <1>2, <2>1 DEF Writes, NodeInv, ObjectsAgree, Exists
  <2> QED
    BY <1>1, <1>2, <1>3, <2>1, <2>2, MountsAre, MountsStay
    DEF Writes, NodeInv, ObjectsAgree, Kinds
<1>7. pc'[n] \in DeployLabels \cup {"failed"}
  BY <1>2 DEF Writes, DeployLabels
<1> QED
  BY <1>1, <1>2, <1>4, <1>5, <1>6, <1>7, DeployStepInv
  DEF Writes, DeployLabels

LEMMA GetBootInv ==
  ASSUME NEW n \in Nodes, StepInv(n), UNCHANGED lbLocals,
         GetBootIdentities(n) \/ GetBootAddresses(n)
  PROVE  StepInv(n)' /\ OnlyNode(n)
<1>1. NodeInv(n) /\ n \in Storage
  BY DEF StepInv, NodeInv, DeployProgress, GetBootIdentities, GetBootAddresses
<1>2. /\ Request(n) /\ res' = res /\ ids' = ids
      /\ \/ pc[n] = "get_boot_ids" /\ pc'[n] = "get_boot_addrs"
         \/ pc[n] = "get_boot_addrs" /\ pc'[n] = "put_configs"
         \/ pc[n] \in {"get_boot_ids", "get_boot_addrs"} /\ pc'[n] = "failed"
  BY <1>1, GetBootEffect DEF StepInv
<1>3. DeployProgress(n)'
  BY <1>1, <1>2
  DEF NodeInv, DeployProgress, Exists, FromScripts, FromIdentities, FromLb,
      DeployLabels
<1>4. SecretsOfStorage(n)' /\ ObjectsAgree(n)'
  BY <1>1, <1>2, SameResources DEF NodeInv, SecretsOfStorage, Exists
<1> QED
  BY <1>2, <1>3, <1>4, DeployStepInv DEF DeployLabels

LEMMA PutConfigsInv ==
  ASSUME NEW n \in Nodes, StepInv(n), PutConfigs(n), UNCHANGED lbLocals
  PROVE  StepInv(n)' /\ OnlyNode(n)
<1>1. NodeInv(n) /\ pc[n] = "put_configs" /\ UNCHANGED nrLocals
  BY PutConfigsEffect DEF StepInv
<1>2. CASE Request(n) /\ res' = res /\ pc'[n] = "failed"
  BY <1>1, <1>2, FailInv DEF DeployLabels
<1>3. ASSUME Configurable(n), NEW o \in Objects \ {None},
             Writes(n, "configs", o, "put_sts"),
             o.key = ids[n].key, o.size = ids[n].size
      PROVE  StepInv(n)' /\ OnlyNode(n)
  <2>1. /\ Exists(n, "identities") /\ ids[n].key = res[n]["identities"].key
        /\ ids[n].size = res[n]["identities"].size
    BY <1>1 DEF NodeInv, DeployProgress, FromLb, FromIdentities, FromScripts,
                DeployLabels
  <2>2. \A j \in Kinds \ {"configs"} : Exists(n, j)' = Exists(n, j)
    BY <1>3 DEF Writes, Exists
  <2>3. /\ Exists(n, "configs") => Exists(n, "configs")'
        /\ pc'[n] = "put_sts" => Exists(n, "configs")'
    BY <1>3 DEF Writes, Exists
  <2>4. Configurable(n)'
    BY <1>1, <1>3 DEF Configurable, Count, nrLocals
  <2>5. DeployProgress(n)'
    BY <1>1, <1>3, <2>1, <2>2, <2>3, <2>4
    DEF Writes, NodeInv, DeployProgress, FromScripts, FromIdentities, FromLb,
        DeployLabels, Kinds, nrLocals
  <2>6. SecretsOfStorage(n)'
    BY <1>1, <1>3, <2>2 DEF Writes, NodeInv, SecretsOfStorage, Kinds
  <2>7. Exists(n, "configs")' =>
          /\ res'[n]["configs"].key = res[n]["identities"].key
          /\ res'[n]["configs"].size = res[n]["identities"].size
    BY <1>1, <1>3, <2>1 DEF Writes, NodeInv, ObjectsAgree, Exists
  <2>8. ObjectsAgree(n)'
    BY <1>1, <1>3, <2>1, <2>2, <2>3, <2>7, MountsAre, MountsStay
    DEF Writes, NodeInv, ObjectsAgree, Kinds
  <2> QED
    BY <1>1, <1>3, <2>5, <2>6, <2>8, DeployStepInv DEF Writes, DeployLabels
<1> QED
  BY <1>2, <1>3, PutConfigsEffect DEF StepInv

LEMMA PutStatefulSetInv ==
  ASSUME NEW n \in Nodes, StepInv(n), PutStatefulSet(n), UNCHANGED lbLocals
  PROVE  StepInv(n)' /\ OnlyNode(n)
<1>1. /\ ResourcesTypeOK /\ NodeInv(n) /\ pc[n] = "put_sts"
      /\ UNCHANGED nrLocals
  BY PutStatefulSetEffect DEF StepInv
<1>2. CASE Request(n) /\ res' = res /\ pc'[n] = "failed"
  BY <1>1, <1>2, FailInv DEF DeployLabels
<1>3. ASSUME NEW o \in Objects \ {None}, Writes(n, "sts", o, "deployed"),
             o.size = Count(spec[n])
      PROVE  StepInv(n)' /\ OnlyNode(n)
  <2>1. \A j \in Kinds \ {"sts"} : Exists(n, j)' = Exists(n, j)
    BY <1>3 DEF Writes, Exists
  <2>2. DeployProgress(n)' /\ SecretsOfStorage(n)'
    BY <1>1, <1>3, <2>1
    DEF Writes, NodeInv, DeployProgress, SecretsOfStorage, FromScripts,
        FromIdentities, FromLb, DeployLabels, Kinds
  <2>3. \A k \in Mounts(n) : Exists(n, k)'
    BY <1>1, <2>1, NrAssumption
    DEF NodeInv, DeployProgress, FromScripts, FromIdentities, DeployLabels,
        Mounts, IpfsVolumes, ClusterVolumes, ClusterEnv, Kinds
  <2>4. /\ res[n]["identities"].size <= Count(spec[n])
        /\ n \notin Storage => Count(spec[n]) = res[n]["identities"].size
    <3>1. ids[n].size \in Nat /\ Count(spec[n]) \in Nat
      BY <1>1, CountValue DEF ResourcesTypeOK, Objects
    <3>2. Configurable(n) /\ ids[n].size = res[n]["identities"].size
      BY <1>1 DEF NodeInv, DeployProgress, FromLb, FromIdentities,
                  FromScripts, DeployLabels
    <3> QED
      BY <3>1, <3>2 DEF Configurable
  <2>5. Mounts(n)' = Mounts(n)
    BY MountsStay
  <2>6. ObjectsAgree(n)'
    BY <1>1, <1>3, <2>1, <2>3, <2>4, <2>5
    DEF Writes, NodeInv, ObjectsAgree, Exists, Kinds
  <2> QED
    BY <1>1, <1>3, <2>2, <2>6, DeployStepInv DEF Writes, DeployLabels
<1> QED
  BY <1>2, <1>3, PutStatefulSetEffect DEF StepInv

-----------------------------------------------------------------------------
(* The steps of delete.                                                    *)

(* The workload is deleted first, the configs before the identities.       *)
LEMMA DeleteOrderSafe ==
  ASSUME NEW n \in Nodes, NEW p \in 1 .. Len(DeleteOrder(n)),
         \A j \in 1 .. p - 1 : ~Exists(n, DeleteOrder(n)[j])
  PROVE  /\ DeleteOrder(n)[p] = "sts" \/ ~Exists(n, "sts")
         /\ DeleteOrder(n)[p] = "identities"
              => ~Exists(n, "configs") /\ ~Exists(n, "external-addresses")
<1>1. CASE n \in Storage
  BY <1>1, DeleteOrderStorage
<1>2. CASE n \notin Storage
  BY <1>2, DeleteOrderBootstrap
<1> QED
  BY <1>1, <1>2

(* What a delete of an object does; Len(DeleteOrder(n)) bounds its place.   *)
LEMMA DeleteObjectEffect ==
  ASSUME NEW n \in Nodes, ResourcesTypeOK, pos[n] <= Len(DeleteOrder(n)),
         DeleteObject(n), UNCHANGED lbLocals
  PROVE  LET p == pos[n]
             k == DeleteOrder(n)[p]
             last == p = Len(DeleteOrder(n))
         IN /\ pc[n] = "delete"
            /\ p \in 1 .. Len(DeleteOrder(n)) /\ k \in Kinds
            /\ Fault \/ NoFault
            /\ ResourcesTypeOK' /\ OnlyNode(n)
            /\ pos'[n] = IF last THEN 1 ELSE p + 1
            /\ \A j \in Kinds \ {k} : res'[n][j] = res[n][j]
            /\ \/ pc'[n] = (IF last THEN "delete_lb" ELSE "delete")
                    /\ res'[n][k] = None
               \/ pc'[n] = "failed" /\ res'[n][k] \in {None, res[n][k]}
<1> DEFINE p == pos[n]
           k == DeleteOrder(n)[p]
           last == p = Len(DeleteOrder(n))
           next == IF last THEN "delete_lb" ELSE "delete"
<1>1. /\ pc[n] = "delete"
      /\ spec' = spec /\ ids' = ids /\ boot' = boot /\ lbpc' = lbpc
      /\ pos' = [pos EXCEPT ![n] = IF last THEN 1 ELSE @ + 1]
      /\ Apply(n, k, None, next)
  BY DEF DeleteObject, lbLocals
<1>2. /\ p \in 1 .. Len(DeleteOrder(n)) /\ Len(DeleteOrder(n)) \in {6, 7}
      /\ k \in Kinds /\ next \in Labels
  <2>1. Len(DeleteOrder(n)) \in {6, 7}
    BY DeleteOrderKinds
  <2>2. p \in 1 .. Len(DeleteOrder(n))
    <3>1. pos[n] \in 1 .. 7
      BY DEF ResourcesTypeOK
    <3> QED
      BY <2>1, <3>1
  <2> QED
    BY <2>1, <2>2, DeleteOrderKinds DEF Labels, DeleteLabels
<1>3. /\ Fault \/ NoFault
      /\ res' \in [Nodes -> [Kinds -> Objects \cup {None}]]
      /\ pc' \in [Nodes -> Labels]
      /\ \A m \in Nodes \ {n} : res'[m] = res[m] /\ pc'[m] = pc[m]
      /\ \A j \in Kinds \ {k} : res'[n][j] = res[n][j]
      /\ \/ pc'[n] = next /\ res'[n][k] = None
         \/ pc'[n] = "failed" /\ res'[n][k] \in {None, res[n][k]}
  <2>1. ASSUME NEW j \in Kinds, NEW label \in Labels, Apply(n, j, None, label)
        PROVE  /\ Fault \/ NoFault
               /\ res' \in [Nodes -> [Kinds -> Objects \cup {None}]]
               /\ pc' \in [Nodes -> Labels]
               /\ \A m \in Nodes \ {n} : res'[m] = res[m] /\ pc'[m] = pc[m]
               /\ \A i \in Kinds \ {j} : res'[n][i] = res[n][i]
               /\ \/ pc'[n] = label /\ res'[n][j] = None
                  \/ pc'[n] = "failed" /\ res'[n][j] \in {None, res[n][j]}
    BY <2>1, ApplyEffect
  <2> HIDE DEF k, next
  <2> QED
    BY <1>1, <1>2, <2>1
<1>4. /\ pos'[n] = IF last THEN 1 ELSE p + 1
      /\ pos' \in [Nodes -> 1 .. 7]
      /\ \A m \in Nodes \ {n} : pos'[m] = pos[m]
  <2>1. /\ pos \in [Nodes -> 1 .. 7]
        /\ (IF last THEN 1 ELSE p + 1) \in 1 .. 7
    <3>1. pos \in [Nodes -> 1 .. 7]
      BY DEF ResourcesTypeOK
    <3>2. ASSUME NEW L \in {6, 7}, NEW q \in 1 .. L
          PROVE  (IF q = L THEN 1 ELSE q + 1) \in 1 .. 7
      OBVIOUS
    <3> QED
      BY <1>2, <3>1, <3>2
  <2>2. pos' = [pos EXCEPT ![n] = IF last THEN 1 ELSE p + 1]
    BY <1>1
  <2> DEFINE v == IF last THEN 1 ELSE p + 1
  <2>3. v \in 1 .. 7 /\ pos' = [pos EXCEPT ![n] = v]
    BY <2>1, <2>2
  <2>4. pos'[n] = v
    BY <2>1, <2>3
  <2> HIDE DEF v
  <2>5. /\ pos' \in [Nodes -> 1 .. 7]
        /\ \A m \in Nodes \ {n} : pos'[m] = pos[m]
    BY <2>1, <2>3
  <2> USE DEF v
  <2> QED
    BY <2>4, <2>5
<1>5. ResourcesTypeOK' /\ OnlyNode(n)
  BY <1>1, <1>3, <1>4 DEF ResourcesTypeOK, OnlyNode
<1> QED
  BY <1>1, <1>2, <1>3, <1>4, <1>5

(* A delete that goes on has deleted what comes before in its order, and   *)
(* one that is through, everything.                                        *)
LEMMA DeleteObjectProgress ==
  ASSUME NEW n \in Nodes, ResourcesTypeOK, DeleteProgress(n),
         Exists(n, "peer-info") \/ Exists(n, "cluster-secret")
           => n \in Storage,
         DeleteObject(n), UNCHANGED lbLocals
  PROVE  DeleteProgress(n)'
<1> DEFINE p == pos[n]
           k == DeleteOrder(n)[p]
           last == p = Len(DeleteOrder(n))
           next == IF last THEN "delete_lb" ELSE "delete"
<1>1. pos[n] <= Len(DeleteOrder(n))
  BY DEF DeleteProgress
<1>2. /\ p \in 1 .. Len(DeleteOrder(n)) /\ Len(DeleteOrder(n)) \in {6, 7}
      /\ k \in Kinds /\ pc[n] = "delete"
  BY <1>1, DeleteObjectEffect, DeleteOrderKinds
<1>3. /\ \A j \in Kinds \ {k} : res'[n][j] = res[n][j]
      /\ \/ pc'[n] = next /\ res'[n][k] = None
         \/ pc'[n] = "failed" /\ res'[n][k] \in {None, res[n][k]}
      /\ pos'[n] = IF last THEN 1 ELSE p + 1
  BY <1>1, DeleteObjectEffect
<1>4. \A j \in Kinds : ~Exists(n, j) => ~Exists(n, j)'
  BY <1>3 DEF Exists
<1>5. \A j \in 1 .. p - 1 : ~Exists(n, DeleteOrder(n)[j])
  BY <1>2 DEF DeleteProgress
<1>6. DeleteOrder(n)' = DeleteOrder(n)
  BY DEF DeleteOrder
<1>7. CASE pc'[n] = "failed"
  BY <1>2, <1>3, <1>6, <1>7 DEF DeleteProgress
<1>8. CASE pc'[n] = next /\ res'[n][k] = None
  <2>1. \A j \in 1 .. p : ~Exists(n, DeleteOrder(n)[j])'
    BY <1>2, <1>4, <1>5, <1>6, <1>8, DeleteOrderKinds DEF Exists
  <2>2. CASE last
    <3>1. \A j \in 1 .. Len(DeleteOrder(n)') : ~Exists(n, DeleteOrder(n)[j])'
      BY <1>6, <2>1, <2>2
    <3>2. \A j \in Kinds : ~Exists(n, j)'
      <4>1. CASE n \in Storage
        BY <1>6, <3>1, <4>1, DeleteOrderStorage DEF Kinds
      <4>2. CASE n \notin Storage
        BY <1>4, <1>6, <3>1, <4>2, DeleteOrderBootstrap DEF Kinds
      <4> QED
        BY <4>1, <4>2
    <3> QED
      BY <1>2, <1>3, <1>6, <1>8, <2>2, <3>2 DEF DeleteProgress
  <2>3. CASE ~last
    BY <1>2, <1>3, <1>6, <1>8, <2>1, <2>3 DEF DeleteProgress
  <2> QED
    BY <2>2, <2>3
<1> QED
  BY <1>3, <1>7, <1>8

LEMMA DeleteObjectInv ==
  ASSUME NEW n \in Nodes, StepInv(n), DeleteObject(n), UNCHANGED lbLocals
  PROVE  StepInv(n)' /\ OnlyNode(n)
<1> DEFINE p == pos[n]
           k == DeleteOrder(n)[p]
           last == p = Len(DeleteOrder(n))
           next == IF last THEN "delete_lb" ELSE "delete"
<1>1. ResourcesTypeOK /\ NodeInv(n) /\ pos[n] <= Len(DeleteOrder(n))
  BY DEF StepInv, NodeInv, DeleteProgress
<1>2. /\ p \in 1 .. Len(DeleteOrder(n)) /\ k \in Kinds /\ pc[n] = "delete"
  BY <1>1, DeleteObjectEffect
<1>3. /\ Fault \/ NoFault
      /\ ResourcesTypeOK' /\ OnlyNode(n)
      /\ \A j \in Kinds \ {k} : res'[n][j] = res[n][j]
      /\ \/ pc'[n] = next /\ res'[n][k] = None
         \/ pc'[n] = "failed" /\ res'[n][k] \in {None, res[n][k]}
  BY <1>1, DeleteObjectEffect
<1>4. LbInv'
  BY <1>3, RequestLbInv DEF StepInv
<1>5. \A j \in Kinds : ~Exists(n, j) => ~Exists(n, j)'
  BY <1>3 DEF Exists
<1>6. SecretsOfStorage(n)'
  BY <1>1, <1>3, <1>5
  DEF NodeInv, SecretsOfStorage, Kinds
<1>7. \A j \in 1 .. p - 1 : ~Exists(n, DeleteOrder(n)[j])
  BY <1>1, <1>2 DEF NodeInv, DeleteProgress
<1>8. DeleteProgress(n)'
  BY <1>1, DeleteObjectProgress DEF NodeInv, SecretsOfStorage
<1>9. DeployProgress(n)'
  BY <1>3
  DEF DeployProgress, FromScripts, FromIdentities, FromLb, DeployLabels
<1>10. ObjectsAgree(n)'
  <2>1. k = "sts" \/ ~Exists(n, "sts")
    BY <1>2, <1>7, DeleteOrderSafe
  <2>2. k = "identities"
          => ~Exists(n, "configs") /\ ~Exists(n, "external-addresses")
    BY <1>2, <1>7, DeleteOrderSafe
  <2>3. CASE k = "sts"
    <3>1. \A j \in Kinds \ {"sts"} : Exists(n, j)' = Exists(n, j)
      BY <1>3, <2>3 DEF Exists
    <3>2. Exists(n, "sts")' => Exists(n, "sts") /\ res'[n] = res[n]
      <4>1. Exists(n, "sts")' => res'[n]["sts"] = res[n]["sts"]
        BY <1>3, <2>3 DEF Exists
      <4>2. Exists(n, "sts")' => res'[n] = res[n]
        <5>1. /\ res[n] \in [Kinds -> Objects \cup {None}]
              /\ res'[n] \in [Kinds -> Objects \cup {None}]
          BY <1>1, <1>3 DEF ResourcesTypeOK
        <5>2. \A j \in Kinds \ {"sts"} : res'[n][j] = res[n][j]
          BY <1>3, <2>3
        <5> HIDE DEF k
        <5> QED
          BY <4>1, <5>1, <5>2
      <4> QED
        BY <4>2 DEF Exists
    <3>3. CASE Exists(n, "sts")'
      BY <1>1, <3>2, <3>3, SameResources DEF NodeInv
    <3>4. CASE ~Exists(n, "sts")'
      BY <1>1, <1>3, <2>3, <3>1, <3>4 DEF NodeInv, ObjectsAgree, Kinds
    <3> QED
      BY <3>3, <3>4
  <2>4. CASE k # "sts"
    <3>1. ~Exists(n, "sts")'
      BY <1>5, <2>1, <2>4 DEF Kinds
    <3> QED
      BY <1>1, <1>3, <1>5, <2>2, <3>1 DEF NodeInv, ObjectsAgree, Exists, Kinds
  <2> QED
    BY <2>3, <2>4
<1>11. NodeInv(n)'
  <2>1. lbpc'[n] \in LbPhasesOf(pc[n])' /\ lbpc'[n] \in LbPhasesOf(pc'[n])
    BY <1>1, <1>2, <1>3 DEF NodeInv, LbPhasesOf, lbLocals
  <2> QED
    BY <1>6, <1>8, <1>9, <1>10, <2>1 DEF NodeInv
<1> QED
  BY <1>3, <1>4, <1>11 DEF StepInv

-----------------------------------------------------------------------------
(* The load balancer calls.                                                *)

(* A step of the call of n: its phase stays one its label allows.          *)
LEMMA CallEffect ==
  ASSUME NEW n \in Nodes, LbInv, ResourcesTypeOK, lbpc[n] \in LbPhasesOf(pc[n]),
         \/ CallLbDeploy(n) \/ CallLbDelete(n)
         \/ LbWork(n) /\ UNCHANGED nrVars
  PROVE  /\ LbInv' /\ OnlyNode(n) /\ UNCHANGED nrVars
         /\ lbpc'[n] \in LbPhasesOf(pc[n])
<1>1. /\ UNCHANGED nrVars
      /\ \/ pc[n] = "lb" /\ LbDeploy(n, spec[n])
         \/ pc[n] = "delete_lb" /\ LbDelete(n)
         \/ LbWork(n)
  BY DEF CallLbDeploy, CallLbDelete
<1>2. LbInv'
  <2>1. spec[n] \in Int
    BY DEF ResourcesTypeOK
  <2> QED
    BY <1>1, <2>1, LbDeployInv, LbDeleteInv, LbWorkInv
<1>3. lbpc \in [Nodes -> LbPhases]
  BY DEF LbInv, LbTypeOK
<1>4. \A m \in Nodes \ {n} : lbpc'[m] = lbpc[m]
  BY <1>1, <1>3
  DEF LbDeploy, LbDelete, LbWork, RemoveService, CreateService,
      DeleteService, WaitIps, LbStep
<1>5. OnlyNode(n)
  BY <1>1, <1>4 DEF OnlyNode, nrVars
<1>6. lbpc'[n] \in LbPhasesOf(pc[n])
  <2>1. CASE pc[n] = "lb" /\ LbDeploy(n, spec[n])
    BY <1>3, <2>1 DEF LbDeploy, LbStep, LbPhasesOf
  <2>2. CASE pc[n] = "delete_lb" /\ LbDelete(n)
    BY <1>3, <2>2 DEF LbDelete, LbStep, While, LbPhasesOf
  <2>3. CASE LbWork(n)
    <3>1. \/ /\ lbpc[n] \in {"removing", "creating", "deployed"}
             /\ lbpc'[n] \in {"removing", "creating", "deployed", "ready",
                              "err"}
          \/ lbpc[n] = "deleting" /\ lbpc'[n] \in {"deleting", "deleted"}
      BY <1>3, <2>3
      DEF LbWork, RemoveService, CreateService, DeleteService, WaitIps,
          LbStep, While
    <3> QED
      BY <3>1 DEF LbPhasesOf
  <2> QED
    BY <1>1, <2>1, <2>2, <2>3
<1> QED
  BY <1>1, <1>2, <1>5, <1>6

LEMMA CallInv ==
  ASSUME NEW n \in Nodes, StepInv(n),
         \/ CallLbDeploy(n) \/ CallLbDelete(n)
         \/ LbWork(n) /\ UNCHANGED nrVars
  PROVE  StepInv(n)' /\ OnlyNode(n)
<1>1. /\ LbInv' /\ OnlyNode(n) /\ UNCHANGED nrVars
      /\ lbpc'[n] \in LbPhasesOf(pc[n])
  BY CallEffect DEF StepInv, NodeInv
<1>2. ResourcesTypeOK'
  BY <1>1 DEF StepInv, ResourcesTypeOK, nrVars
<1>3. NodeInv(n)'
  <2>1. pos[n] \in 1 .. 7
    BY DEF StepInv, ResourcesTypeOK
  <2> QED
    BY <1>1, <2>1, NodeFrame DEF StepInv, nrVars
<1> QED
  BY <1>1, <1>2, <1>3 DEF StepInv

(* A call that returned leaves the procedure with the result it stands     *)
(* for.                                                                    *)
LEMMA LbResultLabel ==
  ASSUME NEW n \in Nodes, lbpc[n] \in LbPhasesOf(pc[n]), LbResult(n)
  PROVE  \/ /\ pc[n] = "lb" /\ lbpc[n] = "ready"
            /\ pc' = [pc EXCEPT ![n] = "put_addrs"]
         \/ /\ pc[n] = "delete_lb" /\ lbpc[n] = "deleted"
            /\ pc' = [pc EXCEPT ![n] = "cleaned"]
         \/ /\ pc[n] \in {"lb", "delete_lb"} /\ lbpc[n] = "err"
            /\ pc' = [pc EXCEPT ![n] = "failed"]
<1>1. lbpc[n] \in LbReturns
  BY DEF LbResult, LbReturn
<1>2. /\ AfterLb["ready"] = "put_addrs"
      /\ AfterLb["deleted"] = "cleaned"
      /\ AfterLb["err"] = "failed"
  BY DEF AfterLb
<1>3. /\ pc[n] \in {"lb", "delete_lb"}
      /\ pc' = [pc EXCEPT ![n] = AfterLb[lbpc[n]]]
  BY DEF LbResult, Goto
<1>4. CASE pc[n] = "lb"
  <2>1. lbpc[n] \in {"ready", "err"}
    BY <1>1, <1>4 DEF LbReturns, LbPhasesOf
  <2> QED
    BY <1>2, <1>3, <1>4, <2>1
<1>5. CASE pc[n] = "delete_lb"
  <2>1. lbpc[n] \in {"deleted", "err"}
    BY <1>1, <1>5 DEF LbReturns, LbPhasesOf
  <2> QED
    BY <1>2, <1>3, <1>5, <2>1
<1> QED
  BY <1>3, <1>4, <1>5

LEMMA LbResultEffect ==
  ASSUME NEW n \in Nodes, LbInv, ResourcesTypeOK, lbpc[n] \in LbPhasesOf(pc[n]),
         LbResult(n)
  PROVE  /\ LbInv' /\ ResourcesTypeOK' /\ OnlyNode(n)
         /\ UNCHANGED <<res, nrLocals>> /\ lbpc'[n] = "idle"
         /\ \/ pc[n] = "lb" /\ pc'[n] = "put_addrs"
            \/ pc[n] = "delete_lb" /\ lbpc[n] = "deleted" /\ pc'[n] = "cleaned"
            \/ pc[n] \in {"lb", "delete_lb"} /\ pc'[n] = "failed"
<1>1. LbReturn(n) /\ res' = res /\ UNCHANGED nrLocals
  BY DEF LbResult
<1>2. LbInv'
  BY <1>1, LbReturnInv
<1>3. /\ pc' \in [Nodes -> Labels]
      /\ \A m \in Nodes \ {n} : pc'[m] = pc[m]
      /\ \/ pc[n] = "lb" /\ pc'[n] = "put_addrs"
         \/ pc[n] = "delete_lb" /\ lbpc[n] = "deleted" /\ pc'[n] = "cleaned"
         \/ pc[n] \in {"lb", "delete_lb"} /\ pc'[n] = "failed"
  BY LbResultLabel DEF ResourcesTypeOK, Labels, Results, DeployLabels
<1>4. ResourcesTypeOK'
  BY <1>1, <1>3 DEF ResourcesTypeOK, nrLocals
<1>5. /\ \A m \in Nodes \ {n} : lbpc'[m] = lbpc[m]
      /\ lbpc'[n] = "idle"
  BY <1>1 DEF LbReturn, LbStep, LbInv, LbTypeOK
<1>6. OnlyNode(n)
  BY <1>1, <1>3, <1>5 DEF OnlyNode, nrLocals
<1> QED
  BY <1>1, <1>2, <1>3, <1>4, <1>5, <1>6

LEMMA LbResultInv ==
  ASSUME NEW n \in Nodes, StepInv(n), LbResult(n)
  PROVE  StepInv(n)' /\ OnlyNode(n)
<1>1. NodeInv(n)
  BY DEF StepInv
<1>2. /\ LbInv' /\ ResourcesTypeOK' /\ OnlyNode(n)
      /\ UNCHANGED <<res, nrLocals>> /\ lbpc'[n] = "idle"
      /\ \/ pc[n] = "lb" /\ pc'[n] = "put_addrs"
         \/ pc[n] = "delete_lb" /\ pc'[n] = "cleaned"
         \/ pc[n] \in {"lb", "delete_lb"} /\ pc'[n] = "failed"
  BY LbResultEffect DEF StepInv, NodeInv
<1>3. DeployProgress(n)'
  BY <1>1, <1>2
  DEF NodeInv, DeployProgress, Exists, FromScripts, FromIdentities, FromLb,
      DeployLabels, nrLocals
<1>4. DeleteProgress(n)'
  BY <1>1, <1>2 DEF NodeInv, DeleteProgress, Exists, DeleteOrder, nrLocals
<1>5. SecretsOfStorage(n)' /\ ObjectsAgree(n)'
  BY <1>1, <1>2, SameResources DEF NodeInv, SecretsOfStorage, Exists
<1>6. NodeInv(n)'
  BY <1>2, <1>3, <1>4, <1>5 DEF NodeInv, LbPhasesOf
<1> QED
  BY <1>2, <1>6 DEF StepInv

-----------------------------------------------------------------------------
(* The beginning and the end of a call, and what surrounds the calls.      *)

LEMMA StartEffect ==
  ASSUME NEW n \in Nodes, LbInv, ResourcesTypeOK, UNCHANGED lbVars,
         (\E r \in Replicas : StartDeploy(n, r)) \/ StartDelete(n)
  PROVE  /\ LbInv' /\ ResourcesTypeOK' /\ OnlyNode(n)
         /\ pc[n] = "idle" /\ UNCHANGED <<res, ids, boot, pos, lbpc>>
         /\ \/ pc'[n] = "get_peer_info" /\ n \in Storage
            \/ pc'[n] = "put_scripts" /\ n \notin Storage
            \/ pc'[n] = "delete"
<1>1. pc[n] = "idle" /\ UNCHANGED <<res, ids, boot, pos, lbpc>>
  BY DEF StartDeploy, StartDelete, nrLocals, lbVars
<1>2. LbInv'
  BY LbStutterInv
<1>3. /\ spec' \in [Nodes -> Int]
      /\ \A m \in Nodes \ {n} : spec'[m] = spec[m]
  BY LbAssumption DEF ResourcesTypeOK, StartDeploy, StartDelete, nrLocals
<1>4. /\ pc' \in [Nodes -> Labels]
      /\ \A m \in Nodes \ {n} : pc'[m] = pc[m]
      /\ \/ pc'[n] = "get_peer_info" /\ n \in Storage
         \/ pc'[n] = "put_scripts" /\ n \notin Storage
         \/ pc'[n] = "delete"
  BY DEF ResourcesTypeOK, StartDeploy, StartDelete, Goto, Labels,
         DeployLabels, DeleteLabels
<1>5. ResourcesTypeOK' /\ OnlyNode(n)
  BY <1>1, <1>3, <1>4 DEF ResourcesTypeOK, OnlyNode
<1> QED
  BY <1>1, <1>2, <1>4, <1>5

LEMMA NodeStartInv ==
  ASSUME NEW n \in Nodes, StepInv(n), UNCHANGED lbVars,
         (\E r \in Replicas : StartDeploy(n, r)) \/ StartDelete(n)
  PROVE  StepInv(n)' /\ OnlyNode(n)
<1>1. NodeInv(n)
  BY DEF StepInv
<1>2. /\ LbInv' /\ ResourcesTypeOK' /\ OnlyNode(n)
      /\ pc[n] = "idle" /\ UNCHANGED <<res, ids, boot, pos, lbpc>>
      /\ \/ pc'[n] = "get_peer_info" /\ n \in Storage
         \/ pc'[n] = "put_scripts" /\ n \notin Storage
         \/ pc'[n] = "delete"
  BY StartEffect DEF StepInv
<1>3. DeployProgress(n)'
  BY <1>2 DEF DeployProgress, FromScripts, FromIdentities, FromLb,
              DeployLabels
<1>4. DeleteProgress(n)'
  <2>1. pos'[n] = 1 /\ 1 <= Len(DeleteOrder(n)) /\ 1 .. 1 - 1 = {}
    BY <1>1, <1>2, DeleteOrderKinds DEF NodeInv, DeleteProgress
  <2>2. DeleteOrder(n)' = DeleteOrder(n)
    BY DEF DeleteOrder
  <2> QED
    BY <1>2, <2>1, <2>2 DEF DeleteProgress
<1>5. SecretsOfStorage(n)' /\ ObjectsAgree(n)'
  BY <1>1, <1>2, SameResources DEF NodeInv, SecretsOfStorage, Exists
<1>6. NodeInv(n)'
  BY <1>1, <1>2, <1>3, <1>4, <1>5 DEF NodeInv, LbPhasesOf
<1> QED
  BY <1>2, <1>6 DEF StepInv

(* A node without a call keeps the relations between its objects.          *)
LEMMA IdleNodeInv ==
  ASSUME NEW n \in Nodes, NodeInv(n), res'[n] = res[n],
         pc'[n] = "idle", pos'[n] = 1, lbpc'[n] = "idle"
  PROVE  NodeInv(n)'
<1>1. DeployProgress(n)'
  BY DEF DeployProgress, FromScripts, FromIdentities, FromLb, DeployLabels
<1>2. DeleteProgress(n)'
  <2>1. DeleteOrder(n)' = DeleteOrder(n) /\ 1 <= Len(DeleteOrder(n))
    BY DeleteOrderKinds DEF DeleteOrder
  <2> QED
    BY <2>1 DEF DeleteProgress
<1>3. SecretsOfStorage(n)' /\ ObjectsAgree(n)'
  BY SameResources DEF NodeInv, SecretsOfStorage, Exists
<1> QED
  BY <1>1, <1>2, <1>3 DEF NodeInv, LbPhasesOf

LEMMA ReturnEffect ==
  ASSUME NEW n \in Nodes, LbInv, ResourcesTypeOK, lbpc[n] \in LbPhasesOf(pc[n]),
         Return(n), UNCHANGED lbVars
  PROVE  /\ LbInv' /\ ResourcesTypeOK' /\ OnlyNode(n) /\ res' = res
         /\ pc'[n] = "idle" /\ pos'[n] = 1 /\ lbpc'[n] = "idle"
<1>1. LbInv' /\ lbpc' = lbpc
  BY LbStutterInv DEF lbVars
<1>2. lbpc[n] = "idle"
  BY DEF LbPhasesOf, Return, Results
<1>3. ResourcesTypeOK'
  BY ObjectTypes DEF ResourcesTypeOK, Return, Goto, Labels
<1>4. OnlyNode(n) /\ pc'[n] = "idle" /\ pos'[n] = 1 /\ res' = res
  BY <1>1 DEF OnlyNode, ResourcesTypeOK, Return, Goto
<1> QED
  BY <1>1, <1>2, <1>3, <1>4

LEMMA NodeReturnInv ==
  ASSUME NEW n \in Nodes, StepInv(n), Return(n), UNCHANGED lbVars
  PROVE  StepInv(n)' /\ OnlyNode(n)
<1>1. /\ LbInv' /\ ResourcesTypeOK' /\ OnlyNode(n) /\ res' = res
      /\ pc'[n] = "idle" /\ pos'[n] = 1 /\ lbpc'[n] = "idle"
  BY ReturnEffect DEF StepInv, NodeInv
<1> QED
  BY <1>1, IdleNodeInv DEF StepInv

LEMMA CrashInv ==
  ASSUME NrInv, Crash
  PROVE  NrInv'
<1>1. LbInv'
  BY LbCrashInv DEF NrInv, Crash
<1>2. ResourcesTypeOK'
  BY ObjectTypes DEF NrInv, ResourcesTypeOK, Crash, Labels
<1>3. ASSUME NEW n \in Nodes PROVE NodeInv(n)'
  <2>1. NodeInv(n) /\ res'[n] = res[n]
    BY DEF NrInv, Crash
  <2>2. pc'[n] = "idle" /\ pos'[n] = 1 /\ lbpc'[n] = "idle"
    BY DEF Crash, LbCrash
  <2> QED
    BY <2>1, <2>2, IdleNodeInv
<1> QED
  BY <1>1, <1>2, <1>3 DEF NrInv

(* Steps that no procedure takes.                                          *)
LEMMA AroundInv ==
  ASSUME NrInv, Surroundings \/ UNCHANGED allVars
  PROVE  NrInv'
<1>1. UNCHANGED nrVars /\ UNCHANGED lbpc
  BY DEF Surroundings, LbAddress, AssignIp, CacheCatchesUp, allVars, lbVars
<1>2. LbInv'
  BY LbAddressInv, CacheCatchesUpInv, LbStutterInv
  DEF NrInv, Surroundings, allVars
<1>3. ResourcesTypeOK'
  BY <1>1 DEF NrInv, ResourcesTypeOK, nrVars
<1>4. ASSUME NEW n \in Nodes PROVE NodeInv(n)'
  <2>1. NodeInv(n) /\ pos[n] \in 1 .. 7 /\ lbpc[n] \in LbPhasesOf(pc[n])
    BY DEF NrInv, ResourcesTypeOK, NodeInv
  <2> QED
    BY <1>1, <2>1, NodeFrame DEF nrVars
<1> QED
  BY <1>2, <1>3, <1>4 DEF NrInv

(* Nor does a request that writes nothing of theirs.                       *)
LEMMA RequestInv ==
  ASSUME NrInv, UNCHANGED lbLocals, UNCHANGED nrVars, Fault \/ NoFault
  PROVE  NrInv'
<1>1. LbInv'
  BY RequestLbInv DEF NrInv
<1>2. ResourcesTypeOK'
  BY DEF NrInv, ResourcesTypeOK, nrVars
<1>3. ASSUME NEW m \in Nodes PROVE NodeInv(m)'
  <2>1. NodeInv(m) /\ pos[m] \in 1 .. 7 /\ lbpc[m] \in LbPhasesOf(pc[m])
    BY DEF NrInv, ResourcesTypeOK, NodeInv
  <2> QED
    BY <2>1, NodeFrame DEF nrVars, lbLocals
<1> QED
  BY <1>1, <1>2, <1>3 DEF NrInv

-----------------------------------------------------------------------------
(* The invariant holds.                                                    *)

LEMMA NrInitInv == NrInit => NrInv
<1> SUFFICES ASSUME NrInit PROVE NrInv
  OBVIOUS
<1>1. LbInv /\ lbpc = [n \in Nodes |-> "idle"]
  BY LbInitInv DEF NrInit, LbInit
<1>2. ResourcesTypeOK
  BY ObjectTypes DEF NrInit, ResourcesTypeOK, Labels
<1>3. ASSUME NEW n \in Nodes PROVE NodeInv(n)
  <2>1. \A k \in Kinds : ~Exists(n, k)
    BY DEF NrInit, Exists
  <2>2. pc[n] = "idle" /\ pos[n] = 1 /\ lbpc[n] = "idle"
    BY <1>1 DEF NrInit
  <2>3. DeployProgress(n)
    BY <2>2 DEF DeployProgress, FromScripts, FromIdentities, FromLb,
                DeployLabels
  <2>4. DeleteProgress(n)
    <3>1. 1 <= Len(DeleteOrder(n))
      BY DeleteOrderKinds
    <3> QED
      BY <2>2, <3>1 DEF DeleteProgress
  <2>5. SecretsOfStorage(n) /\ ObjectsAgree(n)
    BY <2>1, <2>2 DEF SecretsOfStorage, ObjectsAgree, Kinds
  <2> QED
    BY <2>2, <2>3, <2>4, <2>5 DEF NodeInv, LbPhasesOf
<1> QED
  BY <1>1, <1>2, <1>3 DEF NrInv

LEMMA ObjectStepInv ==
  ASSUME NEW n \in Nodes, StepInv(n), ObjectStep(n), UNCHANGED lbLocals
  PROVE  StepInv(n)' /\ OnlyNode(n)
  BY GetSecretInv, PutSecretInv, CopyScriptsInv, GetIdentitiesInv,
     PutIdentitiesInv, PutAddressesInv, GetBootInv, PutConfigsInv,
     PutStatefulSetInv, DeleteObjectInv
  DEF ObjectStep

LEMMA NodeWorkInv ==
  ASSUME NEW n \in Nodes, StepInv(n), Work(n)
  PROVE  StepInv(n)' /\ OnlyNode(n)
  BY ObjectStepInv, CallInv, LbResultInv DEF Work

(* And so for all nodes.                                                   *)
LEMMA StepInvOf == ASSUME NrInv, NEW n \in Nodes PROVE StepInv(n)
  BY DEF NrInv, StepInv

LEMMA WorkInv ==
  ASSUME NrInv, NEW n \in Nodes, Work(n)
  PROVE  NrInv'
  BY StepInvOf, NodeWorkInv, OneNodeSuffices

LEMMA StartInv ==
  ASSUME NrInv, NEW n \in Nodes, UNCHANGED lbVars,
         (\E r \in Replicas : StartDeploy(n, r)) \/ StartDelete(n)
  PROVE  NrInv'
  BY StepInvOf, NodeStartInv, OneNodeSuffices

LEMMA ReturnInv ==
  ASSUME NrInv, NEW n \in Nodes, Return(n), UNCHANGED lbVars
  PROVE  NrInv'
  BY StepInvOf, NodeReturnInv, OneNodeSuffices

LEMMA NrNextInv == NrInv /\ [NrNext]_allVars => NrInv'
<1> SUFFICES ASSUME NrInv, [NrNext]_allVars PROVE NrInv'
  OBVIOUS
<1>1. ASSUME NEW n \in Nodes, UNCHANGED lbVars,
             (\E r \in Replicas : StartDeploy(n, r)) \/ StartDelete(n)
      PROVE  NrInv'
  BY <1>1, StartInv
<1>2. ASSUME NEW n \in Nodes, Work(n) PROVE NrInv'
  BY <1>2, WorkInv
<1>3. ASSUME NEW n \in Nodes, Return(n), UNCHANGED lbVars PROVE NrInv'
  BY <1>3, ReturnInv
<1>4. CASE Surroundings \/ Crash \/ UNCHANGED allVars
  BY <1>4, AroundInv, CrashInv
<1> QED
  BY <1>1, <1>2, <1>3, <1>4 DEF NrNext

THEOREM NrInvariant == NrSpec => []NrInv
  BY NrInitInv, NrNextInv, PTL DEF NrSpec

-----------------------------------------------------------------------------
(* What follows for every state.                                           *)

(* Type correctness of deploy and delete.                                  *)
THEOREM NrTypeCorrect == NrSpec => []NrTypeOK
<1>1. NrInv => NrTypeOK
  BY DEF NrInv, LbInv, ResourcesTypeOK, NrTypeOK
<1> QED
  BY <1>1, NrInvariant, PTL

(* Whatever call failed and whenever the operator died, a workload has the *)
(* ConfigMaps and the Secrets its pods mount.                              *)
THEOREM WorkloadsCanStart == NrSpec => []WorkloadMountsExist
<1>1. NrInv => WorkloadMountsExist
  BY DEF NrInv, NodeInv, ObjectsAgree, WorkloadMountsExist
<1> QED
  BY <1>1, NrInvariant, PTL

(* The configs of a node carry the keys of its identities.                 *)
THEOREM ConfigsMatchIdentities == NrSpec => []ConfigsCarryIdentities
<1>1. NrInv => ConfigsCarryIdentities
  BY DEF NrInv, NodeInv, ObjectsAgree, ConfigsCarryIdentities
<1> QED
  BY <1>1, NrInvariant, PTL

LEMMA PodsCover == NrInv => PodsCoverIdentities
<1> SUFFICES ASSUME NrInv, NEW n \in Nodes, Exists(n, "sts")
    PROVE /\ res[n]["identities"].size <= res[n]["sts"].size
          /\ n \notin Storage =>
               /\ res[n]["sts"].size = res[n]["identities"].size
               /\ res[n]["sts"].size = res[n]["configs"].size
  BY DEF PodsCoverIdentities
<1>1. ObjectsAgree(n)
  BY DEF NrInv, NodeInv
<1>2. Exists(n, "configs")
  BY <1>1, MountsAre DEF ObjectsAgree
<1> QED
  BY <1>1, <1>2 DEF ObjectsAgree

(* Every identity has its pod, and on a bootstrap node every pod its       *)
(* identity and its config.                                                *)
THEOREM PodsMatchIdentities == NrSpec => []PodsCoverIdentities
  BY PodsCover, NrInvariant, PTL

-----------------------------------------------------------------------------
(* Only PutIdentities writes identities, where there are none.             *)
LEMMA ObjectStepKeeps ==
  ASSUME NrInv, NEW n \in Nodes, ObjectStep(n), NEW m \in Nodes
  PROVE  KeepsIdentities(m)
<1>1. ResourcesTypeOK /\ NodeInv(n)
  BY DEF NrInv
<1>2. CASE PutIdentities(n)
  <2>1. pc[n] = "put_ids" /\ ~Exists(n, "identities")
    BY <1>1, <1>2 DEF PutIdentities, NodeInv, DeployProgress
  <2>2. m # n => res'[m] = res[m]
    BY <1>1, <1>2 DEF PutIdentities, Apply, Put, ResourcesTypeOK
  <2> QED
    BY <2>1, <2>2 DEF KeepsIdentities
<1>3. CASE UNCHANGED res
  BY <1>3 DEF KeepsIdentities
<1>4. ASSUME NEW k \in Kinds \ {"identities"}, NEW o, Put(n, k, o)
      PROVE  KeepsIdentities(m)
  BY <1>1, <1>4 DEF Put, ResourcesTypeOK, KeepsIdentities, Kinds
<1>5. ASSUME NEW k, Put(n, k, None)
      PROVE  KeepsIdentities(m)
  BY <1>1, <1>5 DEF Put, ResourcesTypeOK, KeepsIdentities, Kinds
<1>6. CASE GetPeerInfo(n) \/ GetClusterSecret(n) \/ GetIdentities(n)
           \/ GetBootIdentities(n) \/ GetBootAddresses(n)
  BY <1>3, <1>6
  DEF GetPeerInfo, GetClusterSecret, GetSecret, GetIdentities,
      GetBootIdentities, GetBootAddresses
<1>7. CASE PutPeerInfo(n) \/ PutClusterSecret(n)
  BY <1>3, <1>4, <1>7
  DEF PutPeerInfo, PutClusterSecret, PutSecret, Apply, Kinds
<1>8. CASE CopyScripts(n) \/ PutAddresses(n) \/ PutConfigs(n)
           \/ PutStatefulSet(n)
  BY <1>3, <1>4, <1>8
  DEF CopyScripts, PutAddresses, PutConfigs, PutStatefulSet, Apply, Kinds
<1>9. CASE DeleteObject(n)
  BY <1>3, <1>5, <1>9 DEF DeleteObject, Apply
<1> QED
  BY <1>2, <1>6, <1>7, <1>8, <1>9 DEF ObjectStep

LEMMA NrNextKeeps ==
  ASSUME NrInv, [NrNext]_allVars, NEW m \in Nodes
  PROVE  KeepsIdentities(m)
<1>1. CASE UNCHANGED res
  BY <1>1 DEF KeepsIdentities
<1>2. ASSUME NEW n \in Nodes, Work(n) PROVE KeepsIdentities(m)
  BY <1>1, <1>2, ObjectStepKeeps
  DEF Work, CallLbDeploy, CallLbDelete, LbResult, nrVars
<1>3. ASSUME NEW n \in Nodes,
             (\E r \in Replicas : StartDeploy(n, r)) \/ StartDelete(n)
               \/ Return(n)
      PROVE  UNCHANGED res
  BY <1>3 DEF StartDeploy, StartDelete, Return
<1>4. ASSUME Surroundings \/ Crash \/ UNCHANGED allVars
      PROVE  UNCHANGED res
  BY <1>4 DEF Surroundings, Crash, nrVars, allVars
<1> QED
  BY <1>1, <1>2, <1>3, <1>4 DEF NrNext

(* The identities of a node are never replaced while they exist.           *)
THEOREM IdentitiesNeverReplaced == NrSpec => IdentitiesStable
<1>1. NrInv /\ [NrNext]_allVars
        => [\A n \in Nodes : KeepsIdentities(n)]_allVars
  BY NrNextKeeps
<1>2. NrSpec => [][\A n \in Nodes : KeepsIdentities(n)]_allVars
  BY <1>1, NrInvariant, PTL DEF NrSpec
<1> QED
  BY <1>2 DEF IdentitiesStable
-----------------------------------------------------------------------------
(* The addresses of a node lead to the pods whose identities it publishes. *)
THEOREM AddressesMatchIdentities == NrSpec => []AddressesOfIdentities
<1>1. NrInv => AddressesOfIdentities
  BY DEF NrInv, NodeInv, ObjectsAgree, AddressesOfIdentities
<1> QED
  BY <1>1, NrInvariant, PTL

-----------------------------------------------------------------------------
(* The implementation of NodeLifecycle: a step writes one object of one    *)
(* node, and the invariant says what this does to the peers of the node.   *)

OneObject(n, k) ==
  /\ \A m \in Nodes \ {n} : res'[m] = res[m]
  /\ \A j \in Kinds \ {k} : res'[n][j] = res[n][j]

LEMMA ApplyWrites ==
  ASSUME ResourcesTypeOK, NEW n \in Nodes, NEW k \in Kinds, NEW o, NEW next,
         Apply(n, k, o, next)
  PROVE  OneObject(n, k)
  BY DEF Apply, Put, ResourcesTypeOK, OneObject

LEMMA ObjectStepWrites ==
  ASSUME NrInv, NEW n \in Nodes, ObjectStep(n)
  PROVE  \E k \in Kinds : OneObject(n, k)
<1>1. ResourcesTypeOK /\ NodeInv(n)
  BY DEF NrInv
<1>2. CASE UNCHANGED res
  BY <1>2 DEF OneObject, Kinds
<1>3. CASE GetPeerInfo(n) \/ GetClusterSecret(n) \/ GetIdentities(n)
           \/ GetBootIdentities(n) \/ GetBootAddresses(n)
  BY <1>2, <1>3
  DEF GetPeerInfo, GetClusterSecret, GetSecret, GetIdentities,
      GetBootIdentities, GetBootAddresses
<1>4. CASE PutPeerInfo(n) \/ PutClusterSecret(n)
  <2>1. \E k \in Kinds : \E o, next : Apply(n, k, o, next)
    BY <1>4 DEF PutPeerInfo, PutClusterSecret, PutSecret, Kinds
  <2> QED
    BY <1>1, <2>1, ApplyWrites
<1>5. CASE CopyScripts(n) \/ PutIdentities(n) \/ PutAddresses(n)
           \/ PutConfigs(n) \/ PutStatefulSet(n)
  <2>1. UNCHANGED res \/ \E k \in Kinds : \E o, next : Apply(n, k, o, next)
    BY <1>5
    DEF CopyScripts, PutIdentities, PutAddresses, PutConfigs,
        PutStatefulSet, Kinds
  <2> QED
    BY <1>1, <1>2, <2>1, ApplyWrites
<1>6. CASE DeleteObject(n)
  <2>1. Len(DeleteOrder(n)) \in {6, 7}
    BY DeleteOrderKinds
  <2>2. pos[n] \in 1 .. 7 /\ pos[n] <= Len(DeleteOrder(n))
    BY <1>1 DEF ResourcesTypeOK, NodeInv, DeleteProgress
  <2>3. pos[n] \in 1 .. Len(DeleteOrder(n))
    BY <2>1, <2>2
  <2> QED
    <3>1. \E k \in Kinds : \E o, next : Apply(n, k, o, next)
      BY <1>6, <2>3, DeleteOrderKinds DEF DeleteObject
    <3> QED
      BY <1>1, <3>1, ApplyWrites
<1> QED
  BY <1>3, <1>4, <1>5, <1>6 DEF ObjectStep

LEMMA NrNextWrites ==
  ASSUME NrInv, [NrNext]_allVars
  PROVE  UNCHANGED res \/ \E n \in Nodes, k \in Kinds : OneObject(n, k)
<1>1. ASSUME NEW n \in Nodes, Work(n)
      PROVE  UNCHANGED res \/ \E k \in Kinds : OneObject(n, k)
  BY <1>1, ObjectStepWrites
  DEF Work, CallLbDeploy, CallLbDelete, LbResult, nrVars
<1>2. ASSUME NEW n \in Nodes,
             (\E r \in Replicas : StartDeploy(n, r)) \/ StartDelete(n)
               \/ Return(n)
      PROVE  UNCHANGED res
  BY <1>2 DEF StartDeploy, StartDelete, Return
<1>3. ASSUME Surroundings \/ Crash \/ UNCHANGED allVars
      PROVE  UNCHANGED res
  BY <1>3 DEF Surroundings, Crash, nrVars, allVars, nrVars
<1> QED
  BY <1>1, <1>2, <1>3 DEF NrNext

(* The peers of a node, once the invariant holds.                          *)
Peers ==
  /\ Published \in [Nodes -> Keys \cup {NoKey}]
  /\ \A n \in Nodes :
       /\ Assigned[n] = IF Exists(n, "sts") THEN Published[n] ELSE NoKey
       /\ Published[n] # NoKey <=> Exists(n, "identities")
       /\ Exists(n, "sts") => Exists(n, "identities")

LEMMA PeersOf == NrInv => Peers
<1> SUFFICES ASSUME NrInv PROVE Peers
  OBVIOUS
<1>1. ASSUME NEW m \in Nodes
      PROVE  ObjectsAgree(m) /\ (Exists(m, "sts") => Exists(m, "configs"))
  BY MountsAre DEF NrInv, NodeInv, ObjectsAgree
<1>2. Published \in [Nodes -> Keys \cup {NoKey}]
  BY <1>1 DEF ObjectsAgree, Published
<1> QED
  BY <1>1, <1>2, NrAssumption DEF Peers, ObjectsAgree, Published, Assigned

(* Writing one object publishes, assigns, withdraws, retracts or does       *)
(* nothing that NodeLifecycle sees.                                        *)
LEMMA WriteIsLife ==
  ASSUME Peers, Peers', NEW n \in Nodes, NEW k \in Kinds, OneObject(n, k),
         KeepsIdentities(n)
  PROVE  [Lifecycle!LifeNext]_<<Published, Assigned>>
<1> DEFINE p == Published[n]
           r == Assigned[n]
<1>1. \A m \in Nodes \ {n} :
        Published'[m] = Published[m] /\ Assigned'[m] = Assigned[m]
  BY DEF OneObject, Published, Assigned, Exists
<1>2. /\ Published' = [Published EXCEPT ![n] = p']
      /\ Assigned' = [Assigned EXCEPT ![n] = r']
  BY <1>1 DEF Published, Assigned
<1>3. k # "identities" => p' = p
  BY DEF OneObject, Published, Exists, Kinds
<1>4. k # "sts" => Exists(n, "sts")' = Exists(n, "sts")
  BY DEF OneObject, Exists, Kinds
<1>5. /\ Published \in [Nodes -> Keys \cup {NoKey}]
      /\ r = IF Exists(n, "sts") THEN p ELSE NoKey
      /\ p # NoKey <=> Exists(n, "identities")
      /\ Exists(n, "sts") => Exists(n, "identities")
  BY DEF Peers
<1>6. /\ Published' \in [Nodes -> Keys \cup {NoKey}]
      /\ r' = IF Exists(n, "sts")' THEN p' ELSE NoKey
      /\ p' # NoKey <=> Exists(n, "identities")'
      /\ Exists(n, "sts")' => Exists(n, "identities")'
  BY DEF Peers
<1>7. p # NoKey => p' \in {p, NoKey}
  BY <1>5, <1>6 DEF KeepsIdentities, Published, Exists
<1>8. \/ p' = p /\ r' = r
      \/ p = NoKey /\ p' \in Keys /\ r' = r
      \/ p' = p /\ p # NoKey /\ r = NoKey /\ r' = p
      \/ p' = p /\ r # NoKey /\ r' = NoKey
      \/ r = NoKey /\ p' = NoKey /\ r' = r
  <2> HIDE DEF p, r
  <2>1. CASE k # "identities"
    BY <1>3, <1>5, <1>6, <2>1
  <2>2. CASE k = "identities"
    <3>1. p' \in Keys \cup {NoKey}
      BY <1>6 DEF p
    <3> QED
      BY <1>4, <1>5, <1>6, <1>7, <2>2, <3>1
  <2> QED
    BY <2>1, <2>2
<1>9. CASE p' = p /\ r' = r
  <2>1. Published' = Published /\ Assigned' = Assigned
    BY <1>1, <1>9 DEF Published, Assigned
  <2> QED
    BY <2>1
<1>10. ASSUME \/ p = NoKey /\ p' \in Keys /\ r' = r
              \/ p' = p /\ p # NoKey /\ r = NoKey /\ r' = p
              \/ p' = p /\ r # NoKey /\ r' = NoKey
              \/ r = NoKey /\ p' = NoKey /\ r' = r
       PROVE  Lifecycle!LifeStep(n)
  <2>1. r' = r => Assigned' = Assigned
    BY <1>1 DEF Assigned
  <2>2. p' = p => Published' = Published
    BY <1>1 DEF Published
  <2> QED
    BY <1>2, <1>10, <2>1, <2>2
    DEF Lifecycle!LifeStep, Lifecycle!Publish, Lifecycle!Assign,
        Lifecycle!Withdraw, Lifecycle!Retract
<1> QED
  BY <1>8, <1>9, <1>10 DEF Lifecycle!LifeNext

LEMMA NrNextIsLife ==
  ASSUME NrInv, [NrNext]_allVars
  PROVE  [Lifecycle!LifeNext]_<<Published, Assigned>>
<1>1. Peers /\ Peers'
  BY NrNextInv, PeersOf, PTL
<1>2. CASE UNCHANGED res
  BY <1>2 DEF Published, Assigned, Exists
<1>3. ASSUME NEW n \in Nodes, NEW k \in Kinds, OneObject(n, k)
      PROVE  [Lifecycle!LifeNext]_<<Published, Assigned>>
  BY <1>1, <1>3, NrNextKeeps, WriteIsLife
<1> QED
  BY <1>2, <1>3, NrNextWrites

LEMMA NrInitIsLife == NrInit => Lifecycle!LifeInit
  BY DEF NrInit, Lifecycle!LifeInit, Published, Assigned, Exists, Kinds

(* Whatever is deployed, deleted, fails or crashes, a StatefulSet mounts   *)
(* configs of the peers its node publishes from its first moment to its    *)
(* last, and the node publishes others only when it has none: the objects  *)
(* that deploy and delete write implement NodeLifecycle.  What pods run as *)
(* is not among them.                                                      *)
THEOREM NodesFollowLifecycle == NrSpec => FollowsLifecycle
<1>1. NrInv /\ [NrNext]_allVars
        => [Lifecycle!LifeNext]_<<Published, Assigned>>
  BY NrNextIsLife
<1> QED
  BY <1>1, NrInitIsLife, NrInvariant, PTL
  DEF NrSpec, FollowsLifecycle, Lifecycle!LifeSpec
-----------------------------------------------------------------------------
(* Who can make a node that could be listed one that cannot.               *)

LEMMA ListableFrame ==
  ASSUME NEW m \in Nodes,
         res'[m]["identities"] = res[m]["identities"],
         res'[m]["external-addresses"] = res[m]["external-addresses"]
  PROVE  KeepsListable(m)
  BY DEF KeepsListable, Listable, HasData, Exists

LEMMA ObjectStepListable ==
  ASSUME NrInv, NEW n \in Nodes, ObjectStep(n), NEW m \in Nodes
  PROVE  KeepsListable(m)
<1>1. ResourcesTypeOK /\ NodeInv(n)
  BY DEF NrInv
<1>2. CASE m # n
  BY <1>2, ObjectStepWrites, ListableFrame DEF OneObject
<1>3. CASE m = n /\ UNCHANGED res
  BY <1>3, ListableFrame
<1>4. CASE /\ m = n
           /\ \E k \in Kinds \ {"identities", "external-addresses"} : \E o, next :
                Apply(n, k, o, next)
  BY <1>1, <1>4, ApplyWrites, ListableFrame DEF OneObject, Kinds
<1>5. CASE GetPeerInfo(n) \/ GetClusterSecret(n) \/ GetIdentities(n)
           \/ GetBootIdentities(n) \/ GetBootAddresses(n)
  BY <1>2, <1>3, <1>5
  DEF GetPeerInfo, GetClusterSecret, GetSecret, GetIdentities,
      GetBootIdentities, GetBootAddresses
<1>6. CASE PutPeerInfo(n) \/ PutClusterSecret(n) \/ CopyScripts(n)
           \/ PutConfigs(n) \/ PutStatefulSet(n)
  <2>1. UNCHANGED res
          \/ \E k \in Kinds \ {"identities", "external-addresses"} : \E o, next :
               Apply(n, k, o, next)
    BY <1>6
    DEF PutPeerInfo, PutClusterSecret, PutSecret, CopyScripts, PutConfigs,
        PutStatefulSet, Kinds
  <2> QED
    BY <1>2, <1>3, <1>4, <2>1
<1>7. CASE m = n /\ PutIdentities(n)
  BY <1>1, <1>7
  DEF PutIdentities, NodeInv, DeployProgress, KeepsListable, Listable, HasData
<1>8. CASE m = n /\ PutAddresses(n)
  <2> DEFINE o == Object(ids[n].key, Count(spec[n]), NoKey)
  <2>1. pc[n] = "put_addrs"
    BY <1>8 DEF PutAddresses
  <2>2. SUFFICES ASSUME Listable(n), Count(spec[n]) = res[n]["identities"].size
                 PROVE  Listable(n)'
    BY <1>8, <2>1 DEF KeepsListable
  <2>3. /\ res'[n]["identities"] = res[n]["identities"]
        /\ res'[n]["external-addresses"]
             \in {o, res[n]["external-addresses"]}
    BY <1>1, <1>8
    DEF PutAddresses, Apply, Put, ResourcesTypeOK, Kinds
  <2>4. o # None /\ o.size = Count(spec[n])
    <3>1. Count(spec[n]) \in Nat /\ ids[n].key \in Keys \cup {NoKey}
      BY <1>1, CountValue DEF ResourcesTypeOK, Objects
    <3> QED
      BY <3>1, ObjectTypes, NoneAssumption DEF Object
  <2> HIDE DEF o
  <2> QED
    BY <2>2, <2>3, <2>4 DEF Listable, HasData, Exists
<1>9. CASE m = n /\ DeleteObject(n)
  BY <1>9 DEF DeleteObject, KeepsListable
<1> QED
  BY <1>2, <1>5, <1>6, <1>7, <1>8, <1>9 DEF ObjectStep

LEMMA NrNextListable ==
  ASSUME NrInv, [NrNext]_allVars, NEW m \in Nodes
  PROVE  KeepsListable(m)
<1>1. CASE UNCHANGED res
  BY <1>1, ListableFrame
<1>2. ASSUME NEW n \in Nodes, Work(n) PROVE KeepsListable(m)
  BY <1>1, <1>2, ObjectStepListable
  DEF Work, CallLbDeploy, CallLbDelete, LbResult, nrVars
<1>3. ASSUME NEW n \in Nodes,
             (\E r \in Replicas : StartDeploy(n, r)) \/ StartDelete(n)
               \/ Return(n)
      PROVE  UNCHANGED res
  BY <1>3 DEF StartDeploy, StartDelete, Return
<1>4. ASSUME Surroundings \/ Crash \/ UNCHANGED allVars
      PROVE  UNCHANGED res
  BY <1>4 DEF Surroundings, Crash, nrVars, allVars
<1> QED
  BY <1>1, <1>2, <1>3, <1>4 DEF NrNext

(* No failure, retry or crash takes its peers from the bootstrap list of a *)
(* node: only a delete, or a deploy with another number of replicas.       *)
THEOREM ListsStay == NrSpec => ListableKept
<1>1. NrInv /\ [NrNext]_allVars
        => [\A n \in Nodes : KeepsListable(n)]_allVars
  BY NrNextListable
<1>2. NrSpec => [][\A n \in Nodes : KeepsListable(n)]_allVars
  BY <1>1, NrInvariant, PTL DEF NrSpec
<1> QED
  BY <1>2 DEF ListableKept
-----------------------------------------------------------------------------
(* Failures are counted, and never taken back.                             *)

LEMMA WorkFaults ==
  ASSUME NEW n \in Nodes, Work(n)
  PROVE  Fault \/ NoFault
<1>1. ASSUME ObjectStep(n) PROVE Fault \/ NoFault
  <2>1. CASE GetPeerInfo(n) \/ GetClusterSecret(n) \/ PutPeerInfo(n)
             \/ PutClusterSecret(n)
    BY <2>1 DEF GetPeerInfo, GetClusterSecret, PutPeerInfo, PutClusterSecret,
                GetSecret, PutSecret, Apply
  <2>2. CASE CopyScripts(n) \/ GetIdentities(n) \/ PutIdentities(n)
             \/ PutAddresses(n) \/ GetBootIdentities(n)
             \/ GetBootAddresses(n)
    BY <2>2 DEF CopyScripts, GetIdentities, PutIdentities, PutAddresses,
                GetBootIdentities, GetBootAddresses, Apply, Read, Fail
  <2>3. CASE PutConfigs(n) \/ PutStatefulSet(n) \/ DeleteObject(n)
    BY <2>3 DEF PutConfigs, PutStatefulSet, DeleteObject, Apply, Fail
  <2> QED
    BY <1>1, <2>1, <2>2, <2>3 DEF ObjectStep
<1>2. ASSUME \/ CallLbDeploy(n) \/ CallLbDelete(n) \/ LbWork(n)
             \/ LbResult(n)
      PROVE  Fault \/ NoFault
  BY <1>2
  DEF CallLbDeploy, CallLbDelete, LbDeploy, LbDelete, LbWork, RemoveService,
      CreateService, DeleteService, WaitIps, LbResult, LbReturn, NoFault
<1> QED
  BY <1>1, <1>2 DEF Work

LEMMA NrFaultsGrow ==
  ASSUME NrInv, [NrNext]_allVars
  PROVE  faults \in Nat /\ faults' \in {faults, faults + 1}
<1>1. faults \in Nat
  BY LbAssumption DEF NrInv, LbInv, LbTypeOK
<1>2. ASSUME NEW n \in Nodes, Work(n) PROVE faults' \in {faults, faults + 1}
  BY <1>1, <1>2, WorkFaults DEF Fault, NoFault
<1>3. CASE UNCHANGED lbVars
  BY <1>1, <1>3 DEF lbVars
<1>4. CASE Surroundings \/ Crash \/ UNCHANGED allVars
  BY <1>1, <1>4
  DEF Surroundings, LbAddress, AssignIp, CacheCatchesUp, Crash, LbCrash,
      allVars, lbVars
<1> QED
  BY <1>1, <1>2, <1>3, <1>4 DEF NrNext
=============================================================================
