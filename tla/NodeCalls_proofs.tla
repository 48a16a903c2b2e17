-------------------------- MODULE NodeCalls_proofs --------------------------
(***************************************************************************)
(* Proofs about the calls of NodeResources where something else writes the *)
(* objects of their node as well: what holds of a call all the same, and   *)
(* what a call that is left alone makes of objects in whatever state.      *)
(***************************************************************************)
EXTENDS NodeResources_proofs

Typed == LbInv /\ ResourcesTypeOK

(* What the objects of n are, whoever wrote them.                          *)
Written(n) ==
  /\ Exists(n, "peer-info") \/ Exists(n, "cluster-secret") => n \in Storage
  /\ Exists(n, "identities") => res[n]["identities"].key \in Keys

(* Where a call of n stands, by its own locals.                            *)
StorageLabels == {"get_peer_info", "put_peer_info", "get_cluster_secret",
                  "put_cluster_secret", "get_boot_ids", "get_boot_addrs"}

InPlace(n) ==
  /\ pos[n] <= Len(DeleteOrder(n))
  /\ pc[n] = "idle" => pos[n] = 1
  /\ lbpc[n] \in LbPhasesOf(pc[n])
  /\ pc[n] \in StorageLabels => n \in Storage

(* What a step of n needs of it when others write its objects, and keeps.  *)
Control(n) == Typed /\ Written(n) /\ InPlace(n)

LEMMA ControlFrame ==
  ASSUME NEW m \in Nodes, Written(m), InPlace(m),
         \A k \in Kinds : res'[m][k] = res[m][k],
         pc'[m] = pc[m], pos'[m] = pos[m], lbpc'[m] = lbpc[m]
  PROVE  Written(m)' /\ InPlace(m)'
<1>1. Written(m)'
  BY DEF Written, Exists, Kinds
<1>2. InPlace(m)'
  BY DEF InPlace, DeleteOrder, LbPhasesOf, StorageLabels
<1> QED
  BY <1>1, <1>2

-----------------------------------------------------------------------------
(* One lemma for each step of a call, as in NodeResources_proofs.          *)

LEMMA DeployStepControl ==
  ASSUME NEW n \in Nodes, Control(n), Request(n), Written(n)',
         pc[n] \in DeployLabels \ {"lb"},
         pc'[n] \in DeployLabels \cup {"deployed", "failed"},
         pc'[n] \in StorageLabels => n \in Storage
  PROVE  Control(n)' /\ OnlyNode(n)
<1>1. LbInv'
  BY RequestLbInv DEF Control, Typed, Request
<1>2. InPlace(n)'
  <2>1. lbpc'[n] = "idle" /\ pos' = pos
    BY DEF Control, InPlace, LbPhasesOf, DeployLabels, Request, lbLocals
  <2>2. \A l : "idle" \in LbPhasesOf(l)
    BY DEF LbPhasesOf
  <2>3. DeleteOrder(n)' = DeleteOrder(n)
    BY DEF DeleteOrder
  <2> QED
    BY <2>1, <2>2, <2>3 DEF Control, InPlace, DeployLabels
<1> QED
  BY <1>1, <1>2 DEF Control, Typed, Request

LEMMA SameWritten ==
  ASSUME NEW n, Written(n), res'[n] = res[n]
  PROVE  Written(n)'
  BY DEF Written, Exists

LEMMA SecretsControl ==
  ASSUME NEW n \in Nodes, Control(n), UNCHANGED lbLocals,
         \/ GetPeerInfo(n) \/ GetClusterSecret(n)
         \/ PutPeerInfo(n) \/ PutClusterSecret(n)
  PROVE  Control(n)' /\ OnlyNode(n)
<1>1. n \in Storage
  BY DEF Control, InPlace, StorageLabels, GetPeerInfo, GetClusterSecret,
         GetSecret, PutPeerInfo, PutClusterSecret, PutSecret
<1>2. CASE GetPeerInfo(n) \/ GetClusterSecret(n)
  <2>1. /\ Request(n) /\ res' = res
        /\ pc[n] \in {"get_peer_info", "get_cluster_secret"}
        /\ pc'[n] \in DeployLabels
    BY <1>2, GetSecretEffect DEF Control, Typed, DeployLabels
  <2> QED
    BY <1>1, <2>1, SameWritten, DeployStepControl DEF Control, DeployLabels
<1>3. CASE PutPeerInfo(n) \/ PutClusterSecret(n)
  <2>1. PICK k \in {"peer-info", "cluster-secret"}, o \in Objects \ {None},
             next \in {"get_cluster_secret", "put_scripts"} :
          /\ Writes(n, k, o, next)
          /\ pc[n] \in {"put_peer_info", "put_cluster_secret"}
    BY <1>3, PutSecretEffect DEF Control, Typed
  <2>2. Written(n)'
    BY <1>1, <2>1 DEF Control, Written, Writes, Exists, Kinds
  <2> QED
    BY <1>1, <2>1, <2>2, DeployStepControl DEF Writes, DeployLabels
<1> QED
  BY <1>2, <1>3

LEMMA CopyScriptsControl ==
  ASSUME NEW n \in Nodes, Control(n), CopyScripts(n), UNCHANGED lbLocals
  PROVE  Control(n)' /\ OnlyNode(n)
<1>1. /\ pc[n] = "put_scripts"
      /\ Writes(n, "startup-scripts", Plain(2), "get_ids")
  BY CopyScriptsEffect DEF Control, Typed
<1>2. Written(n)'
  BY <1>1 DEF Control, Written, Writes, Exists, Kinds
<1> QED
  BY <1>1, <1>2, DeployStepControl DEF Writes, DeployLabels, StorageLabels

LEMMA GetIdentitiesControl ==
  ASSUME NEW n \in Nodes, Control(n), GetIdentities(n), UNCHANGED lbLocals
  PROVE  Control(n)' /\ OnlyNode(n)
<1>1. /\ pc[n] = "get_ids" /\ Request(n) /\ res' = res
      /\ pc'[n] \in {"failed", "put_ids", "lb"}
  BY GetIdentitiesEffect DEF Control, Typed
<1> QED
  BY <1>1, SameWritten, DeployStepControl
  DEF Control, DeployLabels, StorageLabels

LEMMA PutIdentitiesControl ==
  ASSUME NEW n \in Nodes, Control(n), PutIdentities(n), UNCHANGED lbLocals
  PROVE  Control(n)' /\ OnlyNode(n)
<1>1. pc[n] = "put_ids"
  BY DEF PutIdentities
<1>2. PICK o \in Objects \ {None} :
        Writes(n, "identities", o, "lb") /\ ids'[n] = o /\ o.key \in Keys
  BY PutIdentitiesEffect DEF Control, Typed
<1>3. Written(n)'
  BY <1>2 DEF Control, Written, Writes, Exists, Kinds
<1> QED
  BY <1>1, <1>2, <1>3, DeployStepControl
  DEF Writes, DeployLabels, StorageLabels

LEMMA PutAddressesControl ==
  ASSUME NEW n \in Nodes, Control(n), PutAddresses(n), UNCHANGED lbLocals
  PROVE  Control(n)' /\ OnlyNode(n)
<1> DEFINE next == IF n \in Storage THEN "get_boot_ids" ELSE "put_configs"
<1>1. pc[n] = "put_addrs"
  BY DEF PutAddresses
<1>2. PICK o \in Objects \ {None} : Writes(n, "external-addresses", o, next)
  BY PutAddressesEffect DEF Control, Typed
<1>3. Written(n)'
  BY <1>2 DEF Control, Written, Writes, Exists, Kinds
<1>4. /\ pc'[n] \in DeployLabels \cup {"failed"}
      /\ pc'[n] \in StorageLabels => n \in Storage
  BY <1>2 DEF Writes, DeployLabels, StorageLabels
<1>5. Request(n)
  BY <1>2 DEF Writes
<1> QED
  BY <1>1, <1>3, <1>4, <1>5, DeployStepControl DEF DeployLabels

LEMMA GetBootControl ==
  ASSUME NEW n \in Nodes, Control(n), UNCHANGED lbLocals,
         GetBootIdentities(n) \/ GetBootAddresses(n)
  PROVE  Control(n)' /\ OnlyNode(n)
<1>1. n \in Storage
  BY DEF Control, InPlace, StorageLabels, GetBootIdentities, GetBootAddresses
<1>2. /\ Request(n) /\ res' = res
      /\ pc[n] \in {"get_boot_ids", "get_boot_addrs"}
      /\ pc'[n] \in {"get_boot_addrs", "put_configs", "failed"}
  BY <1>1, GetBootEffect DEF Control, Typed
<1> QED
  BY <1>1, <1>2, SameWritten, DeployStepControl DEF Control, DeployLabels

LEMMA PutConfigsControl ==
  ASSUME NEW n \in Nodes, Control(n), UNCHANGED lbLocals,
         PutConfigs(n) \/ PutStatefulSet(n)
  PROVE  Control(n)' /\ OnlyNode(n)
<1>1. pc[n] \in {"put_configs", "put_sts"}
  BY DEF PutConfigs, PutStatefulSet
<1>2. CASE Request(n) /\ res' = res /\ pc'[n] = "failed"
  BY <1>1, <1>2, SameWritten, DeployStepControl
  DEF Control, DeployLabels, StorageLabels
<1>3. ASSUME NEW k \in {"configs", "sts"}, NEW o \in Objects \ {None},
             NEW next \in {"put_sts", "deployed"}, Writes(n, k, o, next)
      PROVE  Control(n)' /\ OnlyNode(n)
  <2>1. Written(n)'
    BY <1>3 DEF Control, Written, Writes, Exists, Kinds
  <2> QED
    BY <1>1, <1>3, <2>1, DeployStepControl
    DEF Writes, DeployLabels, StorageLabels
<1>4. CASE PutConfigs(n)
  BY <1>2, <1>3, <1>4, PutConfigsEffect DEF Control, Typed
<1>5. CASE PutStatefulSet(n)
  BY <1>2, <1>3, <1>5, PutStatefulSetEffect DEF Control, Typed
<1> QED
  BY <1>4, <1>5

LEMMA DeleteObjectControl ==
  ASSUME NEW n \in Nodes, Control(n), DeleteObject(n), UNCHANGED lbLocals
  PROVE  Control(n)' /\ OnlyNode(n)
<1> DEFINE p == pos[n]
           k == DeleteOrder(n)[p]
           last == p = Len(DeleteOrder(n))
<1>1. /\ pc[n] = "delete" /\ p \in 1 .. Len(DeleteOrder(n)) /\ k \in Kinds
      /\ Fault \/ NoFault
      /\ ResourcesTypeOK' /\ OnlyNode(n)
      /\ pos'[n] = IF last THEN 1 ELSE p + 1
      /\ \A j \in Kinds \ {k} : res'[n][j] = res[n][j]
      /\ res'[n][k] \in {None, res[n][k]}
      /\ pc'[n] \in {"delete", "delete_lb", "failed"}
  BY DeleteObjectEffect DEF Control, Typed, InPlace
<1>2. LbInv'
  BY <1>1, RequestLbInv DEF Control, Typed
<1>3. Written(n)'
  <2>1. \A j \in Kinds : res'[n][j] \in {None, res[n][j]}
    BY <1>1
  <2> QED
    BY <2>1 DEF Control, Written, Exists, Kinds
<1>4. InPlace(n)'
  <2>1. lbpc'[n] = "idle"
    BY <1>1 DEF Control, InPlace, LbPhasesOf, lbLocals
  <2>2. DeleteOrder(n)' = DeleteOrder(n) /\ Len(DeleteOrder(n)) \in {6, 7}
    BY DeleteOrderKinds DEF DeleteOrder
  <2>3. pos'[n] <= Len(DeleteOrder(n))
    BY <1>1, <2>2
  <2>4. pc'[n] # "idle" /\ pc'[n] \notin StorageLabels
    BY <1>1 DEF StorageLabels
  <2>5. "idle" \in LbPhasesOf(pc'[n])
    BY DEF LbPhasesOf
  <2> QED
    BY <2>1, <2>2, <2>3, <2>4, <2>5 DEF InPlace
<1> QED
  BY <1>1, <1>2, <1>3, <1>4 DEF Control, Typed

LEMMA CallControl ==
  ASSUME NEW n \in Nodes, Control(n),
         \/ CallLbDeploy(n) \/ CallLbDelete(n)
         \/ LbWork(n) /\ UNCHANGED nrVars
  PROVE  Control(n)' /\ OnlyNode(n)
<1>1. /\ LbInv' /\ OnlyNode(n) /\ UNCHANGED nrVars
      /\ lbpc'[n] \in LbPhasesOf(pc[n])
  BY CallEffect DEF Control, Typed, InPlace
<1>2. ResourcesTypeOK'
  BY <1>1 DEF Control, Typed, ResourcesTypeOK, nrVars
<1>3. Written(n)'
  BY <1>1, SameWritten DEF Control, nrVars
<1>4. InPlace(n)'
  BY <1>1 DEF Control, InPlace, DeleteOrder, StorageLabels, nrVars
<1> QED
  BY <1>1, <1>2, <1>3, <1>4 DEF Control, Typed

LEMMA LbResultControl ==
  ASSUME NEW n \in Nodes, Control(n), LbResult(n)
  PROVE  Control(n)' /\ OnlyNode(n)
<1>1. /\ LbInv' /\ ResourcesTypeOK' /\ OnlyNode(n)
      /\ UNCHANGED <<res, nrLocals>> /\ lbpc'[n] = "idle"
      /\ pc'[n] \in {"put_addrs", "cleaned", "failed"}
  BY LbResultEffect DEF Control, Typed, InPlace
<1>2. Written(n)'
  BY <1>1, SameWritten DEF Control
<1>3. InPlace(n)'
  BY <1>1
  DEF Control, InPlace, DeleteOrder, LbPhasesOf, StorageLabels, nrLocals
<1> QED
  BY <1>1, <1>2, <1>3 DEF Control, Typed

LEMMA WorkControl ==
  ASSUME NEW n \in Nodes, Control(n), Work(n)
  PROVE  Control(n)' /\ OnlyNode(n)
<1>1. CASE ObjectStep(n) /\ UNCHANGED lbLocals
  BY <1>1, SecretsControl, CopyScriptsControl, GetIdentitiesControl,
     PutIdentitiesControl, PutAddressesControl, GetBootControl,
     PutConfigsControl, DeleteObjectControl
  DEF ObjectStep
<1> QED
  BY <1>1, CallControl, LbResultControl DEF Work

LEMMA StartControl ==
  ASSUME NEW n \in Nodes, Control(n), UNCHANGED lbVars,
         (\E r \in Replicas : StartDeploy(n, r)) \/ StartDelete(n)
  PROVE  Control(n)' /\ OnlyNode(n)
<1>1. /\ LbInv' /\ ResourcesTypeOK' /\ OnlyNode(n)
      /\ pc[n] = "idle" /\ UNCHANGED <<res, pos, lbpc>>
      /\ \/ pc'[n] = "get_peer_info" /\ n \in Storage
         \/ pc'[n] \in {"put_scripts", "delete"}
  BY StartEffect DEF Control, Typed
<1>2. Written(n)'
  BY <1>1, SameWritten DEF Control
<1>3. InPlace(n)'
  BY <1>1 DEF Control, InPlace, DeleteOrder, LbPhasesOf, StorageLabels
<1> QED
  BY <1>1, <1>2, <1>3 DEF Control, Typed

LEMMA ReturnControl ==
  ASSUME NEW n \in Nodes, Control(n), Return(n), UNCHANGED lbVars
  PROVE  Control(n)' /\ OnlyNode(n)
<1>1. /\ LbInv' /\ ResourcesTypeOK' /\ OnlyNode(n) /\ res' = res
      /\ pc'[n] = "idle" /\ pos'[n] = 1 /\ lbpc'[n] = "idle"
  BY ReturnEffect DEF Control, Typed, InPlace
<1>2. Written(n)'
  BY <1>1, SameWritten DEF Control
<1>3. InPlace(n)'
  <2>1. DeleteOrder(n)' = DeleteOrder(n) /\ 1 <= Len(DeleteOrder(n))
    BY DeleteOrderKinds DEF DeleteOrder
  <2> QED
    BY <1>1, <2>1 DEF InPlace, LbPhasesOf, StorageLabels
<1> QED
  BY <1>1, <1>2, <1>3 DEF Control, Typed

-----------------------------------------------------------------------------
(* A call that nothing else disturbs.  It makes no use of how it found the *)
(* objects: what it has written, and what it has read, agree, and when it  *)
(* has deployed all of the objects do.                                     *)

FromBootstrap == {"get_boot_ids", "get_boot_addrs", "put_configs", "put_sts"}

OwnProgress(n) ==
  /\ DeployProgress(n)
  /\ DeleteProgress(n)
  /\ pc[n] \in FromBootstrap =>
       /\ Exists(n, "external-addresses")
       /\ res[n]["external-addresses"].key = ids[n].key
  /\ pc[n] = "put_sts" => /\ res[n]["configs"].key = ids[n].key
                          /\ res[n]["configs"].size = ids[n].size
  /\ pc[n] = "deployed" => ObjectsAgree(n)

LEMMA OwnFrame ==
  ASSUME NEW m \in Nodes, OwnProgress(m), pos[m] \in 1 .. 7,
         \A k \in Kinds : res'[m][k] = res[m][k],
         pc'[m] = pc[m], spec'[m] = spec[m], ids'[m] = ids[m],
         pos'[m] = pos[m]
  PROVE  OwnProgress(m)'
<1>1. \A k \in Kinds : Exists(m, k)' = Exists(m, k)
  BY DEF Exists
<1>2. Configurable(m)' = Configurable(m)
  BY DEF Configurable, Count
<1>3. DeleteOrder(m)' = DeleteOrder(m) /\ Mounts(m)' = Mounts(m)
  BY MountsStay DEF DeleteOrder
<1>4. DeployProgress(m)'
  BY <1>1, <1>2 DEF OwnProgress, DeployProgress, Kinds
<1>5. DeleteProgress(m)'
  BY <1>1, <1>3, DeleteOrderKinds DEF OwnProgress, DeleteProgress
<1>6. ObjectsAgree(m) => ObjectsAgree(m)'
  BY <1>1, <1>3, MountsAre DEF ObjectsAgree, Kinds
<1> QED
  BY <1>1, <1>4, <1>5, <1>6 DEF OwnProgress, Kinds

(* Within deploy nothing is said about delete.                             *)
LEMMA DeployStepOwn ==
  ASSUME NEW n \in Nodes, Control(n), Request(n),
         pc[n] \in DeployLabels, pc'[n] \in DeployLabels \cup {"failed"},
         DeployProgress(n)',
         pc'[n] \in FromBootstrap =>
           /\ Exists(n, "external-addresses")'
           /\ res'[n]["external-addresses"].key = ids'[n].key,
         pc'[n] = "put_sts" => /\ res'[n]["configs"].key = ids'[n].key
                               /\ res'[n]["configs"].size = ids'[n].size
  PROVE  OwnProgress(n)'
<1>1. DeleteProgress(n)'
  BY DEF Control, InPlace, DeleteProgress, DeployLabels, DeleteOrder, Request
<1> QED
  BY <1>1 DEF OwnProgress, DeployLabels

LEMMA FailOwn ==
  ASSUME NEW n \in Nodes, Control(n), Request(n), pc[n] \in DeployLabels,
         pc'[n] = "failed"
  PROVE  OwnProgress(n)'
<1>1. DeployProgress(n)'
  BY DEF DeployProgress, FromScripts, FromIdentities, FromLb, DeployLabels
<1> QED
  BY <1>1, DeployStepOwn DEF FromBootstrap

LEMMA SecretsOwn ==
  ASSUME NEW n \in Nodes, Control(n), OwnProgress(n), UNCHANGED lbLocals,
         \/ GetPeerInfo(n) \/ GetClusterSecret(n)
         \/ PutPeerInfo(n) \/ PutClusterSecret(n)
  PROVE  OwnProgress(n)'
<1>1. CASE GetPeerInfo(n) \/ GetClusterSecret(n)
  <2>1. /\ Request(n) /\ res' = res
        /\ \/ pc[n] = "get_peer_info" /\ pc'[n] = "put_peer_info"
           \/ pc[n] = "get_peer_info" /\ pc'[n] = "get_cluster_secret"
                /\ Exists(n, "peer-info")
           \/ pc[n] = "get_cluster_secret" /\ pc'[n] = "put_cluster_secret"
           \/ pc[n] = "get_cluster_secret" /\ pc'[n] = "put_scripts"
                /\ Exists(n, "cluster-secret")
    BY <1>1, GetSecretEffect DEF Control, Typed
  <2>2. DeployProgress(n)'
    BY <2>1 DEF OwnProgress, DeployProgress, Exists, FromScripts,
                FromIdentities, FromLb, DeployLabels
  <2> QED
    BY <2>1, <2>2, DeployStepOwn DEF DeployLabels, FromBootstrap
<1>2. CASE PutPeerInfo(n) \/ PutClusterSecret(n)
  <2>1. PICK k \in {"peer-info", "cluster-secret"}, o \in Objects \ {None},
             next \in {"get_cluster_secret", "put_scripts"} :
          /\ Writes(n, k, o, next)
          /\ \/ pc[n] = "put_peer_info" /\ k = "peer-info"
                /\ next = "get_cluster_secret"
             \/ pc[n] = "put_cluster_secret" /\ k = "cluster-secret"
                /\ next = "put_scripts"
    BY <1>2, PutSecretEffect DEF Control, Typed
  <2>2. DeployProgress(n)'
    BY <2>1 DEF Writes, OwnProgress, DeployProgress, Exists, FromScripts,
                FromIdentities, FromLb, DeployLabels, Kinds
  <2> QED
    BY <2>1, <2>2, DeployStepOwn DEF Writes, DeployLabels, FromBootstrap
<1> QED
  BY <1>1, <1>2

LEMMA IdentitiesOwn ==
  ASSUME NEW n \in Nodes, Control(n), OwnProgress(n), UNCHANGED lbLocals,
         CopyScripts(n) \/ GetIdentities(n) \/ PutIdentities(n)
  PROVE  OwnProgress(n)'
<1>1. CASE CopyScripts(n)
  <2>1. /\ pc[n] = "put_scripts" /\ Plain(2) # None
        /\ Writes(n, "startup-scripts", Plain(2), "get_ids")
    BY <1>1, CopyScriptsEffect DEF Control, Typed
  <2>2. DeployProgress(n)'
    BY <2>1 DEF Writes, OwnProgress, DeployProgress, Exists, FromScripts,
                FromIdentities, FromLb, DeployLabels, Kinds
  <2> QED
    BY <2>1, <2>2, DeployStepOwn DEF Writes, DeployLabels, FromBootstrap
<1>2. CASE GetIdentities(n)
  <2>1. /\ pc[n] = "get_ids" /\ Request(n) /\ res' = res
        /\ \/ pc'[n] = "failed"
           \/ pc'[n] = "put_ids" /\ ~Exists(n, "identities")
           \/ pc'[n] = "lb" /\ Exists(n, "identities")
                /\ ids'[n] = res[n]["identities"]
    BY <1>2, GetIdentitiesEffect DEF Control, Typed
  <2>2. DeployProgress(n)'
    BY <2>1 DEF OwnProgress, DeployProgress, Exists, FromScripts,
                FromIdentities, FromLb, DeployLabels
  <2> QED
    BY <2>1, <2>2, DeployStepOwn DEF DeployLabels, FromBootstrap
<1>3. CASE PutIdentities(n)
  <2>1. pc[n] = "put_ids"
    BY <1>3 DEF PutIdentities
  <2>2. PICK o \in Objects \ {None} :
          Writes(n, "identities", o, "lb") /\ ids'[n] = o /\ o.key \in Keys
    BY <1>3, PutIdentitiesEffect DEF Control, Typed
  <2>3. DeployProgress(n)'
    BY <2>1, <2>2 DEF Writes, OwnProgress, DeployProgress, Exists,
       FromScripts, FromIdentities, FromLb, DeployLabels, Kinds
  <2> QED
    BY <2>1, <2>2, <2>3, DeployStepOwn
    DEF Writes, DeployLabels, FromBootstrap
<1> QED
  BY <1>1, <1>2, <1>3

LEMMA AddressesOwn ==
  ASSUME NEW n \in Nodes, Control(n), OwnProgress(n), UNCHANGED lbLocals,
         PutAddresses(n) \/ GetBootIdentities(n) \/ GetBootAddresses(n)
  PROVE  OwnProgress(n)'
<1>1. CASE PutAddresses(n)
  <2> DEFINE next == IF n \in Storage THEN "get_boot_ids" ELSE "put_configs"
  <2>1. pc[n] = "put_addrs" /\ UNCHANGED nrLocals
    BY <1>1, PutAddressesEffect DEF Control, Typed
  <2>2. PICK o \in Objects \ {None} :
          Writes(n, "external-addresses", o, next) /\ o.key = ids[n].key
    BY <1>1, PutAddressesEffect DEF Control, Typed
  <2>3. DeployProgress(n)'
    BY <2>1, <2>2
    DEF Writes, OwnProgress, DeployProgress, Exists, FromScripts,
        FromIdentities, FromLb, DeployLabels, Kinds, nrLocals
  <2>4. /\ Request(n) /\ pc'[n] \in DeployLabels \cup {"failed"}
        /\ pc'[n] # "put_sts"
    BY <2>2 DEF Writes, DeployLabels
  <2>5. pc'[n] \in FromBootstrap =>
          /\ Exists(n, "external-addresses")'
          /\ res'[n]["external-addresses"].key = ids'[n].key
    BY <2>1, <2>2 DEF Writes, Exists, FromBootstrap, nrLocals
  <2> QED
    BY <2>1, <2>3, <2>4, <2>5, DeployStepOwn DEF DeployLabels
<1>2. CASE GetBootIdentities(n) \/ GetBootAddresses(n)
  <2>1. n \in Storage
    BY <1>2 DEF Control, InPlace, StorageLabels, GetBootIdentities,
                GetBootAddresses
  <2>2. /\ Request(n) /\ res' = res /\ ids' = ids
        /\ \/ pc[n] = "get_boot_ids" /\ pc'[n] = "get_boot_addrs"
           \/ pc[n] = "get_boot_addrs" /\ pc'[n] = "put_configs"
           \/ pc[n] \in {"get_boot_ids", "get_boot_addrs"}
                /\ pc'[n] = "failed"
    BY <1>2, <2>1, GetBootEffect DEF Control, Typed
  <2>3. DeployProgress(n)'
    BY <2>1, <2>2
    DEF OwnProgress, DeployProgress, Exists, FromScripts, FromIdentities,
        FromLb, DeployLabels
  <2>4. pc'[n] \in FromBootstrap =>
          /\ Exists(n, "external-addresses")'
          /\ res'[n]["external-addresses"].key = ids'[n].key
    BY <2>2 DEF OwnProgress, Exists, FromBootstrap
  <2> QED
    BY <2>2, <2>3, <2>4, DeployStepOwn DEF DeployLabels
<1> QED
  BY <1>1, <1>2

LEMMA PutConfigsOwn ==
  ASSUME NEW n \in Nodes, Control(n), OwnProgress(n), UNCHANGED lbLocals,
         PutConfigs(n)
  PROVE  OwnProgress(n)'
<1>1. pc[n] = "put_configs" /\ UNCHANGED nrLocals
  BY PutConfigsEffect DEF Control, Typed
<1>2. CASE Request(n) /\ res' = res /\ pc'[n] = "failed"
  BY <1>1, <1>2, FailOwn DEF DeployLabels
<1>3. ASSUME Configurable(n), NEW o \in Objects \ {None},
             Writes(n, "configs", o, "put_sts"),
             o.key = ids[n].key, o.size = ids[n].size
      PROVE  OwnProgress(n)'
  <2>1. CASE pc'[n] = "failed"
    BY <1>1, <1>3, <2>1, FailOwn DEF Writes, DeployLabels
  <2>2. CASE pc'[n] = "put_sts" /\ res'[n]["configs"] = o
    <3>1. Configurable(n)'
      BY <1>1, <1>3 DEF Configurable, Count, nrLocals
    <3>2. DeployProgress(n)'
      BY <1>1, <1>3, <2>2, <3>1
      DEF Writes, OwnProgress, DeployProgress, Exists, FromScripts,
          FromIdentities, FromLb, DeployLabels, Kinds, nrLocals
    <3>3. /\ Exists(n, "external-addresses")'
          /\ res'[n]["external-addresses"].key = ids'[n].key
      BY <1>1, <1>3
      DEF Writes, OwnProgress, Exists, FromBootstrap, Kinds, nrLocals
    <3> QED
      BY <1>1, <1>3, <2>2, <3>2, <3>3, DeployStepOwn
      DEF Writes, DeployLabels, nrLocals
  <2> QED
    BY <1>3, <2>1, <2>2 DEF Writes
<1> QED
  BY <1>2, <1>3, PutConfigsEffect DEF Control, Typed

(* The last call of deploy: all that it leaves agrees.                     *)
LEMMA PutStatefulSetOwn ==
  ASSUME NEW n \in Nodes, Control(n), OwnProgress(n), UNCHANGED lbLocals,
         PutStatefulSet(n)
  PROVE  OwnProgress(n)'
<1>1. ResourcesTypeOK /\ pc[n] = "put_sts" /\ UNCHANGED nrLocals
  BY PutStatefulSetEffect DEF Control, Typed
<1>2. CASE Request(n) /\ pc'[n] = "failed"
  BY <1>1, <1>2, FailOwn DEF DeployLabels
<1>3. ASSUME NEW o \in Objects \ {None}, Writes(n, "sts", o, "deployed"),
             o.size = Count(spec[n]), pc'[n] = "deployed"
      PROVE  OwnProgress(n)'
  <2>1. \A j \in Kinds \ {"sts"} :
          res'[n][j] = res[n][j] /\ Exists(n, j)' = Exists(n, j)
    BY <1>3 DEF Writes, Exists
  <2>2. res'[n]["sts"] = o
    BY <1>3 DEF Writes
  <2>3. /\ n \in Storage => Exists(n, "peer-info") /\ Exists(n, "cluster-secret")
        /\ Exists(n, "startup-scripts") /\ Exists(n, "identities")
        /\ Exists(n, "configs") /\ Exists(n, "external-addresses")
        /\ ids[n].key = res[n]["identities"].key
        /\ ids[n].size = res[n]["identities"].size
        /\ res[n]["configs"].key = ids[n].key
        /\ res[n]["configs"].size = ids[n].size
        /\ res[n]["external-addresses"].key = ids[n].key
        /\ Configurable(n)
    BY <1>1
    DEF OwnProgress, DeployProgress, FromScripts, FromIdentities, FromLb,
        FromBootstrap, DeployLabels
  <2>4. \A k \in Mounts(n)' : Exists(n, k)'
    <3>1. \A k \in Mounts(n) : k \in Kinds \ {"sts"} /\ Exists(n, k)
      BY <2>3, NrAssumption
      DEF Mounts, IpfsVolumes, ClusterVolumes, ClusterEnv, Kinds
    <3> QED
      BY <2>1, <3>1, MountsStay
  <2>5. /\ res[n]["identities"].size <= Count(spec[n])
        /\ n \notin Storage => Count(spec[n]) = res[n]["identities"].size
    <3>1. ids[n].size \in Nat /\ Count(spec[n]) \in Nat
      BY <1>1, CountValue DEF ResourcesTypeOK, Objects
    <3> QED
      BY <2>3, <3>1 DEF Configurable
  <2>6. ObjectsAgree(n)'
    <3>1. res[n]["identities"].key \in Keys
      BY <2>3 DEF Control, Written
    <3> QED
      BY <1>3, <2>1, <2>2, <2>3, <2>4, <2>5, <3>1 DEF ObjectsAgree, Kinds
  <2>7. DeployProgress(n)'
    BY <1>3 DEF DeployProgress, FromScripts, FromIdentities, FromLb,
                DeployLabels
  <2>8. DeleteProgress(n)'
    BY <1>3 DEF Control, InPlace, DeleteProgress, DeleteOrder, Writes, Request
  <2> QED
    BY <1>3, <2>6, <2>7, <2>8 DEF OwnProgress, FromBootstrap
<1>4. ASSUME NEW o \in Objects \ {None}, Writes(n, "sts", o, "deployed"),
             o.size = Count(spec[n])
      PROVE  OwnProgress(n)'
  BY <1>2, <1>3, <1>4 DEF Writes
<1> QED
  BY <1>2, <1>4, PutStatefulSetEffect DEF Control, Typed

LEMMA DeleteObjectOwn ==
  ASSUME NEW n \in Nodes, Control(n), OwnProgress(n), UNCHANGED lbLocals,
         DeleteObject(n)
  PROVE  OwnProgress(n)'
<1>1. DeleteProgress(n)'
  BY DeleteObjectProgress DEF Control, Typed, Written, OwnProgress
<1>2. pc'[n] \in {"delete", "delete_lb", "failed"}
  BY DeleteObjectEffect DEF Control, Typed, InPlace
<1>3. DeployProgress(n)'
  BY <1>2 DEF DeployProgress, FromScripts, FromIdentities, FromLb,
              DeployLabels
<1> QED
  BY <1>1, <1>2, <1>3 DEF OwnProgress, FromBootstrap

LEMMA LbResultOwn ==
  ASSUME NEW n \in Nodes, Control(n), OwnProgress(n), LbResult(n)
  PROVE  OwnProgress(n)'
<1>1. /\ UNCHANGED <<res, nrLocals>>
      /\ \/ pc[n] = "lb" /\ pc'[n] = "put_addrs"
         \/ pc[n] = "delete_lb" /\ pc'[n] = "cleaned"
         \/ pc[n] \in {"lb", "delete_lb"} /\ pc'[n] = "failed"
  BY LbResultEffect DEF Control, Typed, InPlace
<1>2. DeployProgress(n)'
  BY <1>1
  DEF OwnProgress, DeployProgress, Exists, FromScripts, FromIdentities,
      FromLb, DeployLabels, nrLocals
<1>3. DeleteProgress(n)'
  BY <1>1 DEF OwnProgress, DeleteProgress, Exists, DeleteOrder, nrLocals
<1> QED
  BY <1>1, <1>2, <1>3 DEF OwnProgress, FromBootstrap

LEMMA CallOwn ==
  ASSUME NEW n \in Nodes, Control(n), OwnProgress(n),
         \/ CallLbDeploy(n) \/ CallLbDelete(n)
         \/ LbWork(n) /\ UNCHANGED nrVars
  PROVE  OwnProgress(n)'
<1>1. UNCHANGED nrVars
  BY DEF CallLbDeploy, CallLbDelete
<1>2. pos[n] \in 1 .. 7
  BY DEF Control, Typed, ResourcesTypeOK
<1> QED
  BY <1>1, <1>2, OwnFrame DEF nrVars

LEMMA WorkOwn ==
  ASSUME NEW n \in Nodes, Control(n), OwnProgress(n), Work(n)
  PROVE  OwnProgress(n)'
<1>1. CASE ObjectStep(n) /\ UNCHANGED lbLocals
  BY <1>1, SecretsOwn, IdentitiesOwn, AddressesOwn, PutConfigsOwn,
     PutStatefulSetOwn, DeleteObjectOwn
  DEF ObjectStep
<1> QED
  BY <1>1, CallOwn, LbResultOwn DEF Work

(* It begins so, however it finds the objects.                             *)
LEMMA StartOwn ==
  ASSUME NEW n \in Nodes, Control(n), UNCHANGED lbVars,
         (\E r \in Replicas : StartDeploy(n, r)) \/ StartDelete(n)
  PROVE  OwnProgress(n)'
<1>1. /\ pc[n] = "idle" /\ pos' = pos
      /\ \/ pc'[n] = "get_peer_info"
         \/ pc'[n] = "put_scripts" /\ n \notin Storage
         \/ pc'[n] = "delete"
  BY StartEffect DEF Control, Typed
<1>2. DeployProgress(n)'
  BY <1>1 DEF DeployProgress, FromScripts, FromIdentities, FromLb,
              DeployLabels
<1>3. DeleteProgress(n)'
  <2>1. pos'[n] = 1 /\ 1 <= Len(DeleteOrder(n)) /\ 1 .. 1 - 1 = {}
    BY <1>1, DeleteOrderKinds DEF Control, InPlace
  <2>2. DeleteOrder(n)' = DeleteOrder(n)
    BY DEF DeleteOrder
  <2> QED
    BY <1>1, <2>1, <2>2 DEF DeleteProgress
<1> QED
  BY <1>1, <1>2, <1>3 DEF OwnProgress, FromBootstrap

(* And nothing is left to say once it is over.                             *)
LEMMA ReturnOwn ==
  ASSUME NEW n \in Nodes, Control(n), Return(n), UNCHANGED lbVars
  PROVE  OwnProgress(n)'
<1>1. pc'[n] = "idle" /\ pos'[n] = 1
  BY ReturnEffect DEF Control, Typed, InPlace
<1>2. DeployProgress(n)'
  BY <1>1 DEF DeployProgress, FromScripts, FromIdentities, FromLb,
              DeployLabels
<1>3. DeleteProgress(n)'
  <2>1. DeleteOrder(n)' = DeleteOrder(n) /\ 1 <= Len(DeleteOrder(n))
    BY DeleteOrderKinds DEF DeleteOrder
  <2> QED
    BY <1>1, <2>1 DEF DeleteProgress
<1> QED
  BY <1>1, <1>2, <1>3 DEF OwnProgress, FromBootstrap

(* A call that came to a good end, undisturbed, leaves its node as it      *)
(* would be had nothing else ever written to it.                           *)
EndsWell ==
  \A n \in Nodes :
    Control(n) /\ OwnProgress(n) /\ pc[n] \in {"deployed", "cleaned"}
      => StepInv(n)

LEMMA SettledInv == EndsWell
<1> SUFFICES ASSUME NEW n \in Nodes, Control(n), OwnProgress(n),
                    pc[n] \in {"deployed", "cleaned"}
             PROVE  StepInv(n)
  BY DEF EndsWell
<1>1. SecretsOfStorage(n)
  BY DEF Control, Written, SecretsOfStorage
<1>2. ObjectsAgree(n)
  <2>1. CASE pc[n] = "deployed"
    BY <2>1 DEF OwnProgress
  <2>2. CASE pc[n] = "cleaned"
    BY <2>2 DEF OwnProgress, DeleteProgress, ObjectsAgree, Kinds
  <2> QED
    BY <2>1, <2>2
<1> QED
  BY <1>1, <1>2 DEF Control, Typed, InPlace, OwnProgress, StepInv, NodeInv

(* A node whose calls nothing disturbed keeps its place in them.           *)
LEMMA StepInvControl ==
  ASSUME NEW n \in Nodes, StepInv(n)
  PROVE  Control(n)
  BY DEF StepInv, NodeInv, DeployProgress, DeleteProgress, SecretsOfStorage,
         ObjectsAgree, StorageLabels, Control, Typed, Written, InPlace

-----------------------------------------------------------------------------
(* The load balancers a delete leaves behind: none, if no request failed.  *)

ServicesGone(n) ==
  Unfailed => DeletePending(n) /\ (pc[n] = "cleaned" => lb[n] = {})

(* No object is written once all are gone.                                 *)
LEMMA ObjectStepLabel ==
  ASSUME NEW n \in Nodes, Control(n), ObjectStep(n), UNCHANGED lbLocals
  PROVE  pc[n] # "cleaned" /\ pc'[n] # "cleaned"
<1>1. CASE GetPeerInfo(n) \/ GetClusterSecret(n) \/ PutPeerInfo(n)
           \/ PutClusterSecret(n)
  BY <1>1, GetSecretEffect, PutSecretEffect DEF Writes, Control, Typed
<1>2. CASE CopyScripts(n) \/ GetIdentities(n) \/ PutIdentities(n)
  BY <1>2, CopyScriptsEffect, GetIdentitiesEffect, PutIdentitiesEffect
  DEF Writes, Control, Typed
<1>3. CASE PutAddresses(n)
  BY <1>3, PutAddressesEffect DEF Writes, Control, Typed
<1>4. CASE GetBootIdentities(n) \/ GetBootAddresses(n)
  <2>1. n \in Storage
    BY <1>4 DEF Control, InPlace, StorageLabels, GetBootIdentities,
                GetBootAddresses
  <2> QED
    BY <1>4, <2>1, GetBootEffect DEF Control, Typed
<1>5. CASE PutConfigs(n) \/ PutStatefulSet(n)
  BY <1>5, PutConfigsEffect, PutStatefulSetEffect DEF Writes, Control, Typed
<1>6. CASE DeleteObject(n)
  BY <1>6, DeleteObjectEffect DEF Control, Typed, InPlace
<1> QED
  BY <1>1, <1>2, <1>3, <1>4, <1>5, <1>6 DEF ObjectStep

(* What a step does to the load balancers and to the label of n.           *)
LEMMA WorkParts ==
  ASSUME NEW n \in Nodes, Control(n), Work(n)
  PROVE  \/ /\ UNCHANGED lbLocals /\ (Fault \/ NoFault)
            /\ pc[n] # "cleaned" /\ pc'[n] # "cleaned"
         \/ CallStep(n) /\ pc[n] # "cleaned" /\ pc' = pc
         \/ LbResult(n)
<1>1. lbpc[n] \in LbPhasesOf(pc[n])
  BY DEF Control, InPlace
<1>2. CASE ObjectStep(n) /\ UNCHANGED lbLocals
  <2>1. Fault \/ NoFault
    BY <1>2, WorkFaults
  <2> QED
    BY <1>2, <2>1, ObjectStepLabel
<1>3. CASE CallLbDeploy(n)
  <2>1. spec[n] \in Int
    BY DEF Control, Typed, ResourcesTypeOK
  <2> QED
    BY <1>3, <2>1 DEF CallLbDeploy, CallStep, nrVars
<1>4. CASE CallLbDelete(n)
  BY <1>4 DEF CallLbDelete, CallStep, nrVars
<1>5. CASE LbWork(n) /\ UNCHANGED nrVars
  <2>1. lbpc[n] # "idle"
    BY <1>5 DEF LbWork, RemoveService, CreateService, DeleteService, WaitIps
  <2>2. pc[n] # "cleaned"
    BY <1>1, <2>1 DEF LbPhasesOf
  <2> QED
    BY <1>5, <2>2 DEF CallStep, nrVars
<1> QED
  BY <1>2, <1>3, <1>4, <1>5 DEF Work

LEMMA WorkServicesGone ==
  ASSUME NEW n \in Nodes, Control(n), Work(n), NEW m \in Nodes, ServicesGone(m)
  PROVE  ServicesGone(m)'
<1> SUFFICES ASSUME Unfailed'
             PROVE  DeletePending(m)' /\ (pc'[m] = "cleaned" => lb'[m] = {})
  BY DEF ServicesGone
<1>1. m # n => pc'[m] = pc[m]
  BY WorkControl DEF OnlyNode
<1>2. faults \in Nat
  BY LbAssumption DEF Control, Typed, LbInv, LbTypeOK
<1>3. CASE /\ UNCHANGED lbLocals /\ (Fault \/ NoFault)
           /\ pc'[n] # "cleaned"
  <2>1. Unfailed
    BY <1>2, <1>3 DEF Unfailed, Fault, NoFault, lbLocals
  <2> QED
    BY <1>1, <1>3, <2>1 DEF ServicesGone, DeletePending, lbLocals
<1>4. CASE CallStep(n) /\ pc[n] # "cleaned" /\ pc' = pc
  <2>1. Unfailed /\ DeletePending(m)
    BY <1>4, CallUnfailed DEF ServicesGone, Control, Typed
  <2>2. DeletePending(m)'
    BY <1>4, <2>1, CallDeletePending DEF Control, Typed
  <2>3. m # n => lb'[m] = lb[m]
    BY <1>4
    DEF CallStep, LbDeploy, LbDelete, LbWork, RemoveService, CreateService,
        DeleteService, WaitIps, LbReturn, AddService, DropService,
        KeepServices, Control, Typed, LbInv, LbTypeOK
  <2> QED
    BY <1>4, <2>1, <2>2, <2>3 DEF ServicesGone
<1>5. CASE LbResult(n)
  <2>1. LbReturn(n) /\ CallStep(n)
    BY <1>5 DEF LbResult, CallStep
  <2>2. Unfailed /\ DeletePending(m)
    BY <2>1, CallUnfailed DEF ServicesGone, Control, Typed
  <2>3. DeletePending(m)'
    BY <2>1, <2>2, CallDeletePending DEF Control, Typed
  <2>4. lb' = lb
    BY <2>1 DEF LbReturn
  <2>5. pc'[n] = "cleaned" => lbpc[n] = "deleted"
    BY <1>5, LbResultEffect DEF Control, Typed, InPlace
  <2> QED
    BY <1>1, <2>2, <2>3, <2>4, <2>5 DEF ServicesGone, DeletePending
<1> QED
  BY <1>3, <1>4, <1>5, WorkParts

(* A call that begins or ends is at no such point.                         *)
LEMMA BoundaryServicesGone ==
  ASSUME NEW n \in Nodes, Control(n), UNCHANGED lbVars,
         \/ (\E r \in Replicas : StartDeploy(n, r)) \/ StartDelete(n)
         \/ Return(n)
  PROVE  ServicesGone(n)'
<1>1. lbpc'[n] = "idle" /\ pc'[n] # "cleaned"
  <2>1. CASE Return(n)
    BY <2>1, ReturnEffect DEF Control, Typed, InPlace
  <2>2. CASE (\E r \in Replicas : StartDeploy(n, r)) \/ StartDelete(n)
    <3>1. pc[n] = "idle" /\ lbpc' = lbpc /\ pc'[n] # "cleaned"
      BY <2>2, StartEffect DEF Control, Typed
    <3> QED
      BY <3>1 DEF Control, InPlace, LbPhasesOf
  <2> QED
    BY <2>1, <2>2
<1> QED
  BY <1>1 DEF ServicesGone, DeletePending

LEMMA ServicesGoneFrame ==
  ASSUME NEW m \in Nodes, ServicesGone(m), Unfailed' => Unfailed,
         lb'[m] = lb[m], lbpc'[m] = lbpc[m], todo'[m] = todo[m], pc'[m] = pc[m]
  PROVE  ServicesGone(m)'
  BY DEF ServicesGone, DeletePending

LEMMA AroundServicesGone ==
  ASSUME Typed, Surroundings, NEW m \in Nodes, ServicesGone(m)
  PROVE  ServicesGone(m)'
<1>1. UNCHANGED <<pc, lb, lbpc, todo, faults>>
  BY DEF Surroundings, LbAddress, AssignIp, CacheCatchesUp, nrVars
<1>2. seen' = NoCache => seen = NoCache
  BY CacheStays DEF Typed, LbInv, Surroundings, LbAddress, AssignIp
<1> QED
  BY <1>1, <1>2, ServicesGoneFrame DEF Unfailed
=============================================================================
