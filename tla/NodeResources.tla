--------------------------- MODULE NodeResources ---------------------------
(***************************************************************************)
(* The objects the operator keeps in the cluster for each IpfsNode, and    *)
(* the two procedures that write them: deploy and delete of                *)
(* operator/src/types/storage.rs and bootstrap.rs, with types/common.rs,   *)
(* identity.rs and ipfs.rs, and configmap.rs, secret.rs and statefulset.rs *)
(* of operator-common.                                                     *)
(*                                                                         *)
(* A procedure is a straight line of API calls.  It is cut at each call;   *)
(* the first error ends it, and the next one starts from the top.  Its     *)
(* load balancer calls are those of LoadBalancer, which this module        *)
(* extends.  In this module anything may ask for a deploy or a delete of   *)
(* an idle node at any time; Controller says when the operator does.       *)
(***************************************************************************)
EXTENDS LoadBalancer, Sequences

CONSTANTS
  Keys,         \* private keys, generated at random: two are enough to tell
                \* a key from the one that replaces it
  NoKey,        \* where an object holds no key
  None,         \* an object that does not exist
  BootstrapOf,  \* BootstrapOf[n]: spec.bootstrap_name of a storage node n
  Clustered     \* the storage nodes whose spec has an ipfs_cluster

ASSUME NrAssumption ==
  /\ NoKey \notin Keys
  /\ BootstrapOf \in [Storage -> Nodes]
  /\ Clustered \subseteq Storage

(* What a pod cannot start without: the ConfigMaps of its volumes and the  *)
(* Secrets its environment refers to.  The swarm key is the user's, and    *)
(* the claims come from the templates of the StatefulSet itself.           *)
IpfsVolumes == {"configs", "startup-scripts"}
ClusterVolumes == {"startup-scripts"}
ClusterEnv == {"cluster-secret", "peer-info"}

Mounts(n) ==
  IpfsVolumes \cup
  IF n \in Clustered THEN ClusterVolumes \cup ClusterEnv ELSE {}

Kinds == {"sts", "startup-scripts", "identities", "external-addresses",
          "configs", "peer-info", "cluster-secret"}

(* What the properties tell apart in an object: the generation of the keys *)
(* it holds (for addresses, of the pods they lead to), its number of       *)
(* entries (replicas, for a StatefulSet), and the generation of the        *)
(* bootstrap identities it lists.                                          *)
Objects == [key : Keys \cup {NoKey}, size : Nat, boot : Keys \cup {NoKey}]

Object(key, size, boot) == [key |-> key, size |-> size, boot |-> boot]
Plain(size) == Object(NoKey, size, NoKey)
Empty == Plain(0)

ASSUME NoneAssumption == None \notin Objects

VARIABLES
  res,    \* res[n][k]: the object of kind k of node n, or None
  pc,     \* pc[n]: the API call the procedure running for n makes next
  spec,   \* spec[n]: the spec.replicas it was given
  ids,    \* ids[n]: the identities it holds, self.identities
  boot,   \* boot[n]: the bootstrap identities it read
  pos     \* pos[n]: how far a delete has come

nrLocals == <<spec, ids, boot, pos>>
nrVars == <<res, pc, spec, ids, boot, pos>>
allVars == <<lbVars, nrVars>>

DeployLabels ==
  {"get_peer_info", "put_peer_info", "get_cluster_secret",
   "put_cluster_secret", "put_scripts", "get_ids", "put_ids", "lb",
   "put_addrs", "get_boot_ids", "get_boot_addrs", "put_configs", "put_sts"}
DeleteLabels == {"delete", "delete_lb"}
Results == {"deployed", "cleaned", "failed"}
Labels == {"idle"} \cup DeployLabels \cup DeleteLabels \cup Results

NrInit ==
  /\ LbInit
  /\ res = [n \in Nodes |-> [k \in Kinds |-> None]]
  /\ pc = [n \in Nodes |-> "idle"]
  /\ spec = [n \in Nodes |-> 0]
  /\ ids = [n \in Nodes |-> Empty]
  /\ boot = [n \in Nodes |-> Empty]
  /\ pos = [n \in Nodes |-> 1]

Goto(n, label) == pc' = [pc EXCEPT ![n] = label]
Put(n, k, o) == res' = [res EXCEPT ![n][k] = o]
Exists(n, k) == res[n][k] # None

(* A ConfigMap whose data is empty comes back without data, which get_data *)
(* and get_data_opt report as an error.                                    *)
HasData(n, k) == Exists(n, k) /\ res[n][k].size > 0

(* A server-side apply: done; or failed, before or after it took effect.   *)
Apply(n, k, o, next) ==
  \/ NoFault /\ Put(n, k, o) /\ Goto(n, next)
  \/ Fault /\ (UNCHANGED res \/ Put(n, k, o)) /\ Goto(n, "failed")

(* A read that succeeds with `next` to come, or fails.                     *)
Read(n, next) ==
  \/ NoFault /\ Goto(n, next)
  \/ Fault /\ Goto(n, "failed")

Fail(n) == NoFault /\ Goto(n, "failed")

-----------------------------------------------------------------------------
(* Secrets of a storage cluster.                                           *)

(* `if let Ok(i) = secret::get_data(..)`: an error of any kind, a missing  *)
(* secret or a failed request, goes on to generate a new one.              *)
GetSecret(n, k, here, put, next) ==
  /\ pc[n] = here
  /\ \/ NoFault /\ Goto(n, IF Exists(n, k) THEN next ELSE put)
     \/ Fault /\ Goto(n, put)
  /\ UNCHANGED <<res, nrLocals>>

NewKeys(n, k) == IF Exists(n, k) THEN Keys \ {res[n][k].key} ELSE Keys

PutSecret(n, k, here, next) ==
  /\ pc[n] = here
  /\ \E key \in NewKeys(n, k) : Apply(n, k, Object(key, 1, NoKey), next)
  /\ UNCHANGED nrLocals

GetPeerInfo(n) ==
  GetSecret(n, "peer-info", "get_peer_info", "put_peer_info",
            "get_cluster_secret")
PutPeerInfo(n) ==
  PutSecret(n, "peer-info", "put_peer_info", "get_cluster_secret")
GetClusterSecret(n) ==
  GetSecret(n, "cluster-secret", "get_cluster_secret", "put_cluster_secret",
            "put_scripts")
PutClusterSecret(n) ==
  PutSecret(n, "cluster-secret", "put_cluster_secret", "put_scripts")

-----------------------------------------------------------------------------
(* Common::new: startup scripts and identities.                            *)

(* The default scripts are read from the operator's namespace, where the   *)
(* Helm chart installs them, and copied.                                   *)
CopyScripts(n) ==
  /\ pc[n] = "put_scripts"
  /\ Apply(n, "startup-scripts", Plain(2), "get_ids")
  /\ UNCHANGED nrLocals

(* Mutation: a failed read treated as a missing ConfigMap, as for secrets. *)
GetIdentitiesIfLetOk(n) ==
  /\ pc[n] = "get_ids"
  /\ \/ /\ HasData(n, "identities")
        /\ ids' = [ids EXCEPT ![n] = res[n]["identities"]]
        /\ Read(n, "lb")
     \/ /\ (NoFault /\ ~HasData(n, "identities")) \/ Fault
        /\ Goto(n, "put_ids")
        /\ UNCHANGED ids
  /\ UNCHANGED <<res, spec, boot, pos>>

(* Identities::new: a ConfigMap that exists is taken as it is, however     *)
(* many identities it holds.                                               *)
GetIdentities(n) ==
  /\ pc[n] = "get_ids"
  /\ \/ /\ HasData(n, "identities")
        /\ ids' = [ids EXCEPT ![n] = res[n]["identities"]]
        /\ Read(n, "lb")
     \/ /\ ~Exists(n, "identities")
        /\ Read(n, "put_ids")
        /\ UNCHANGED ids
     \/ /\ Exists(n, "identities") /\ ~HasData(n, "identities")
        /\ Fail(n)
        /\ UNCHANGED ids
  /\ UNCHANGED <<res, spec, boot, pos>>

(* Mutation: the number as it is in the spec, negative or not.             *)
CountSigned(r) == r

(* Mutation: the index of the last pod for the number of pods.             *)
CountLast(r) == r - 1

(* How many pods the ranges `0..replicas` run over.                        *)
Count(r) == Cardinality(Pods(r))

PutIdentities(n) ==
  /\ pc[n] = "put_ids"
  /\ \E key \in Keys :
       LET o == Object(key, Count(spec[n]), NoKey) IN
       /\ Apply(n, "identities", o, "lb")
       /\ ids' = [ids EXCEPT ![n] = o]
  /\ UNCHANGED <<spec, boot, pos>>

-----------------------------------------------------------------------------
(* Load balancers, addresses, bootstrap list, configs, StatefulSet.        *)

CallLbDeploy(n) ==
  /\ pc[n] = "lb"
  /\ LbDeploy(n, spec[n])
  /\ UNCHANGED nrVars

AfterLb == [ready |-> "put_addrs", deleted |-> "cleaned", err |-> "failed"]

LbResult(n) ==
  /\ pc[n] \in {"lb", "delete_lb"}
  /\ LbReturn(n)
  /\ Goto(n, AfterLb[lbpc[n]])
  /\ UNCHANGED <<res, nrLocals>>

(* Mutation: a pod without an address is left out.                         *)
PutAddressesOfSome(n) ==
  /\ pc[n] = "put_addrs"
  /\ \E size \in 0 .. Count(spec[n]) :
       Apply(n, "external-addresses", Object(ids[n].key, size, NoKey),
             IF n \in Storage THEN "get_boot_ids" ELSE "put_configs")
  /\ UNCHANGED nrLocals

(* create_external_ip_cm's ConfigMap.  A storage node goes on to read the  *)
(* bootstrap node's identities and addresses, a bootstrap node uses its    *)
(* own.                                                                    *)
PutAddresses(n) ==
  /\ pc[n] = "put_addrs"
  /\ Apply(n, "external-addresses",
           Object(ids[n].key, Count(spec[n]), NoKey),
           IF n \in Storage THEN "get_boot_ids" ELSE "put_configs")
  /\ UNCHANGED nrLocals

GetBootIdentities(n) ==
  LET peer == BootstrapOf[n] IN
  /\ pc[n] = "get_boot_ids"
  /\ \/ /\ HasData(peer, "identities")
        /\ boot' = [boot EXCEPT ![n] = res[peer]["identities"]]
        /\ Read(n, "get_boot_addrs")
     \/ /\ ~HasData(peer, "identities")
        /\ Fail(n)
        /\ UNCHANGED boot
  /\ UNCHANGED <<res, spec, ids, pos>>

(* get_bootstrap_list refuses two maps of different lengths.               *)
GetBootAddresses(n) ==
  LET peer == BootstrapOf[n] IN
  /\ pc[n] = "get_boot_addrs"
  /\ \/ /\ HasData(peer, "external-addresses")
        /\ res[peer]["external-addresses"].size = boot[n].size
        /\ Read(n, "put_configs")
     \/ /\ HasData(peer, "external-addresses")
             => res[peer]["external-addresses"].size # boot[n].size
        /\ Fail(n)
  /\ UNCHANGED <<res, nrLocals>>

(* Mutation: identities without an address are skipped, not refused.       *)
ConfigurableAlways(n) == TRUE

(* generate_config wants an address for each identity; on a bootstrap      *)
(* node get_bootstrap_list has wanted as many of the one as of the other.  *)
Configurable(n) ==
  IF n \in Storage THEN ids[n].size <= Count(spec[n])
                   ELSE ids[n].size = Count(spec[n])

BootKey(n) == IF n \in Storage THEN boot[n].key ELSE ids[n].key

(* Mutation: configs that exist are left as they are.                      *)
PutConfigsOnce(n) ==
  /\ pc[n] = "put_configs"
  /\ \/ Exists(n, "configs") /\ Read(n, "put_sts") /\ UNCHANGED res
     \/ /\ ~Exists(n, "configs") /\ Configurable(n)
        /\ Apply(n, "configs", Object(ids[n].key, ids[n].size, BootKey(n)),
                 "put_sts")
     \/ ~Exists(n, "configs") /\ ~Configurable(n) /\ Fail(n) /\ UNCHANGED res
  /\ UNCHANGED nrLocals

PutConfigs(n) ==
  /\ pc[n] = "put_configs"
  /\ \/ /\ Configurable(n)
        /\ Apply(n, "configs", Object(ids[n].key, ids[n].size, BootKey(n)),
                 "put_sts")
     \/ ~Configurable(n) /\ Fail(n) /\ UNCHANGED res
  /\ UNCHANGED nrLocals

(* The API server refuses a negative number of replicas.                   *)
PutStatefulSet(n) ==
  /\ pc[n] = "put_sts"
  /\ \/ spec[n] >= 0 /\ Apply(n, "sts", Plain(spec[n]), "deployed")
     \/ spec[n] < 0 /\ Fail(n) /\ UNCHANGED res
  /\ UNCHANGED nrLocals

-----------------------------------------------------------------------------
(* delete.                                                                 *)

(* Mutations: the workload goes last; identities before configs.           *)
DeleteOrderWorkloadLast(n) ==
  IF n \in Storage
  THEN <<"external-addresses", "configs", "identities", "cluster-secret",
         "peer-info", "startup-scripts", "sts">>
  ELSE <<"external-addresses", "configs", "identities", "startup-scripts",
         "identities", "sts">>
DeleteOrderIdentitiesFirst(n) ==
  IF n \in Storage
  THEN <<"sts", "identities", "external-addresses", "configs",
         "cluster-secret", "peer-info", "startup-scripts">>
  ELSE <<"sts", "identities", "external-addresses", "configs",
         "startup-scripts", "identities">>

DeleteOrder(n) ==
  IF n \in Storage
  THEN <<"sts", "external-addresses", "configs", "identities",
         "cluster-secret", "peer-info", "startup-scripts">>
  ELSE <<"sts", "external-addresses", "configs", "identities",
         "startup-scripts", "identities">>

(* Mutation: without its first object a node counts as deleted.            *)
DeleteObjectIfAny(n) ==
  LET k == DeleteOrder(n)[pos[n]]
      last == pos[n] = Len(DeleteOrder(n)) \/ ~Exists(n, "sts") IN
  /\ pc[n] = "delete"
  /\ Apply(n, k, None, IF last THEN "delete_lb" ELSE "delete")
  /\ pos' = [pos EXCEPT ![n] = IF last THEN 1 ELSE @ + 1]
  /\ UNCHANGED <<spec, ids, boot>>

(* An object that does not exist counts as deleted.                        *)
DeleteObject(n) ==
  LET k == DeleteOrder(n)[pos[n]]
      last == pos[n] = Len(DeleteOrder(n)) IN
  /\ pc[n] = "delete"
  /\ Apply(n, k, None, IF last THEN "delete_lb" ELSE "delete")
  /\ pos' = [pos EXCEPT ![n] = IF last THEN 1 ELSE @ + 1]
  /\ UNCHANGED <<spec, ids, boot>>

CallLbDelete(n) ==
  /\ pc[n] = "delete_lb"
  /\ LbDelete(n)
  /\ UNCHANGED nrVars

-----------------------------------------------------------------------------
(* Calls, and the steps of a call.                                         *)

StartDeploy(n, r) ==
  /\ pc[n] = "idle"
  /\ Goto(n, IF n \in Storage THEN "get_peer_info" ELSE "put_scripts")
  /\ spec' = [spec EXCEPT ![n] = r]
  /\ UNCHANGED <<res, ids, boot, pos>>

StartDelete(n) ==
  /\ pc[n] = "idle"
  /\ Goto(n, "delete")
  /\ UNCHANGED <<res, nrLocals>>

(* The locals of a call go with it.                                        *)
Return(n) ==
  /\ pc[n] \in Results
  /\ Goto(n, "idle")
  /\ spec' = [spec EXCEPT ![n] = 0]
  /\ ids' = [ids EXCEPT ![n] = Empty]
  /\ boot' = [boot EXCEPT ![n] = Empty]
  /\ pos' = [pos EXCEPT ![n] = 1]
  /\ UNCHANGED res

ObjectStep(n) ==
  \/ GetPeerInfo(n)
  \/ PutPeerInfo(n)
  \/ GetClusterSecret(n)
  \/ PutClusterSecret(n)
  \/ CopyScripts(n)
  \/ GetIdentities(n)
  \/ PutIdentities(n)
  \/ PutAddresses(n)
  \/ GetBootIdentities(n)
  \/ GetBootAddresses(n)
  \/ PutConfigs(n)
  \/ PutStatefulSet(n)
  \/ DeleteObject(n)

lbLocals == <<lb, ip, seen, lbpc, want, todo, crashes>>

Work(n) ==
  \/ ObjectStep(n) /\ UNCHANGED lbLocals
  \/ CallLbDeploy(n)
  \/ CallLbDelete(n)
  \/ LbWork(n) /\ UNCHANGED nrVars
  \/ LbResult(n)

Surroundings == (LbAddress \/ CacheCatchesUp) /\ UNCHANGED nrVars

Crash ==
  /\ LbCrash
  /\ pc' = [n \in Nodes |-> "idle"]
  /\ spec' = [n \in Nodes |-> 0]
  /\ ids' = [n \in Nodes |-> Empty]
  /\ boot' = [n \in Nodes |-> Empty]
  /\ pos' = [n \in Nodes |-> 1]
  /\ UNCHANGED res

NrNext ==
  \/ \E n \in Nodes : \/ \E r \in Replicas :
                           StartDeploy(n, r) /\ UNCHANGED lbVars
                      \/ StartDelete(n) /\ UNCHANGED lbVars
                      \/ Work(n)
                      \/ Return(n) /\ UNCHANGED lbVars
  \/ Surroundings
  \/ Crash

NrSpec == NrInit /\ [][NrNext]_allVars

-----------------------------------------------------------------------------
(* Properties.                                                             *)

(* The type of the variables.                                              *)
NrTypeOK ==
  /\ LbTypeOK
  /\ res \in [Nodes -> [Kinds -> Objects \cup {None}]]
  /\ pc \in [Nodes -> Labels]
  /\ spec \in [Nodes -> Int]
  /\ ids \in [Nodes -> Objects]
  /\ boot \in [Nodes -> Objects]
  /\ pos \in [Nodes -> 1 .. 7]

(* A StatefulSet never exists without the ConfigMaps and Secrets its pods  *)
(* mount or read: deploy writes it last, delete removes it first, and no   *)
(* error or crash in between leaves a workload whose pods cannot start.    *)
WorkloadMountsExist ==
  \A n \in Nodes :
    Exists(n, "sts") => \A k \in Mounts(n) : Exists(n, k)

(* The private keys of a node's configs are the ones its identities        *)
(* ConfigMap publishes, all of them, whatever was interrupted between the  *)
(* generation of the keys and the generation of the configs.               *)
ConfigsCarryIdentities ==
  \A n \in Nodes :
    Exists(n, "configs") =>
      /\ Exists(n, "identities")
      /\ res[n]["configs"].key = res[n]["identities"].key
      /\ res[n]["configs"].size = res[n]["identities"].size

(* Every identity of a workload has its pod; on a bootstrap node every pod *)
(* has an identity and a config, too, also after spec.replicas changed.    *)
PodsCoverIdentities ==
  \A n \in Nodes :
    Exists(n, "sts") =>
      /\ res[n]["identities"].size <= res[n]["sts"].size
      /\ n \notin Storage =>
           /\ res[n]["sts"].size = res[n]["identities"].size
           /\ res[n]["sts"].size = res[n]["configs"].size

KeepsIdentities(n) ==
  Exists(n, "identities") =>
    res'[n]["identities"] \in {res[n]["identities"], None}

(* The identities of a node are never replaced while they exist: the peer  *)
(* ids other nodes have in their bootstrap lists stay valid until delete.  *)
IdentitiesStable == [][\A n \in Nodes : KeepsIdentities(n)]_allVars

(* "Ensure secrets exist": a secret that exists is left alone by deploy.   *)
(* A failed read refutes it.                                               *)
SecretsStable ==
  [][\A n \in Nodes, k \in {"peer-info", "cluster-secret"} :
       Exists(n, k) => res'[n][k] \in {res[n][k], None}]_allVars

(* get_bootstrap_list finds an address for each identity of n.             *)
Listable(n) ==
  /\ HasData(n, "identities") /\ HasData(n, "external-addresses")
  /\ res[n]["identities"].size = res[n]["external-addresses"].size

KeepsListable(n) ==
  Listable(n) =>
    \/ Listable(n)'
    \/ pc[n] = "delete"
    \/ pc[n] = "put_addrs" /\ Count(spec[n]) # res[n]["identities"].size

(* A node whose peers can be listed stays so, through failures, retries    *)
(* and crashes, until it is deleted or deployed with another number of     *)
(* replicas: /seeds and the storage clusters that join it rely on this.    *)
ListableKept == [][\A n \in Nodes : KeepsListable(n)]_allVars

(* The addresses of a node lead to the pods whose identities stand beside  *)
(* them: identities are written first and deleted last.  So whoever reads  *)
(* the one and then the other (a storage cluster that joins, the web       *)
(* service) pairs peer ids with addresses of one generation.               *)
AddressesOfIdentities ==
  \A n \in Nodes :
    Exists(n, "external-addresses") =>
      /\ Exists(n, "identities")
      /\ res[n]["external-addresses"].key = res[n]["identities"].key

(* The peers of a node, as NodeLifecycle sees them: those it publishes.    *)
Published ==
  [n \in Nodes |->
     IF Exists(n, "identities") THEN res[n]["identities"].key ELSE NoKey]

(* And those in the configs its StatefulSet mounts; a StatefulSet without  *)
(* configs assigns None, to which NodeLifecycle has no step.               *)
Assigned ==
  [n \in Nodes |->
     IF ~Exists(n, "sts") THEN NoKey
     ELSE IF Exists(n, "configs") THEN res[n]["configs"].key ELSE None]

Lifecycle ==
  INSTANCE NodeLifecycle WITH published <- Published, assigned <- Assigned

(* deploy and delete, cut at each call, interrupted anywhere and run in    *)
(* any order, write and delete the objects of a node so that at no moment  *)
(* its StatefulSet mounts configs of other peers than the node publishes,  *)
(* those configs never change their peers beneath it, and the identities   *)
(* go only after it: the object it is, not the pods, is what NodeLifecycle *)
(* speaks of.                                                              *)
FollowsLifecycle == Lifecycle!LifeSpec

(* start_ipfs starts a pod with the config of its host name: every pod of  *)
(* a workload has one.  A storage cluster that grew refutes it, because    *)
(* its identities keep their first number and the configs follow them.     *)
PodsConfigured ==
  \A n \in Nodes :
    Exists(n, "sts") => res[n]["sts"].size <= res[n]["configs"].size
=============================================================================
