-------------------------- MODULE Controller_proofs --------------------------
(***************************************************************************)
(* Proofs about Controller, for any nodes, edits, failures and restarts:   *)
(* the type invariant, that the controller keeps what deploy and delete    *)
(* keep, and, where no list is answered by an API server that lags, that   *)
(* what a node owns is protected by the finalizer of its object.           *)
(***************************************************************************)
EXTENDS Controller, NodeResources_proofs

ObjectsTypeOK ==
  /\ obj \in [Nodes -> IpfsNode \cup {None}]
  /\ store \in [Nodes -> IpfsNode \cup {None}]
  /\ old \in [Nodes -> IpfsNode \cup {None}]
  /\ due \in [Nodes -> BOOLEAN]
  /\ edits \in 0 .. MaxEdits

CtlInv == NrInv /\ ObjectsTypeOK

-----------------------------------------------------------------------------
(* The controller keeps what deploy and delete keep.                       *)

(* A cleanup that could not remove the finalizer has failed.               *)
LEMMA CleanupFailsNr ==
  ASSUME NrInv, NEW n \in Nodes, pc[n] = "cleaned", Goto(n, "failed"),
         UNCHANGED res, UNCHANGED nrLocals, UNCHANGED lbLocals,
         Fault \/ NoFault
  PROVE  NrInv'
<1>1. ResourcesTypeOK /\ NodeInv(n)
  BY DEF NrInv
<1>2. /\ pc' \in [Nodes -> Labels] /\ pc'[n] = "failed"
      /\ \A m \in Nodes \ {n} : pc'[m] = pc[m]
  BY <1>1 DEF Goto, ResourcesTypeOK, Labels, Results
<1>3. LbInv'
  BY RequestLbInv DEF NrInv
<1>4. ResourcesTypeOK' /\ OnlyNode(n)
  BY <1>1, <1>2 DEF ResourcesTypeOK, OnlyNode, nrLocals, lbLocals
<1>5. DeployProgress(n)'
  BY <1>2 DEF DeployProgress, FromScripts, FromIdentities, FromLb,
              DeployLabels
<1>6. DeleteProgress(n)'
  BY <1>1, <1>2 DEF NodeInv, DeleteProgress, Exists, DeleteOrder, nrLocals
<1>7. SecretsOfStorage(n)' /\ ObjectsAgree(n)'
  BY <1>1, <1>2, SameResources DEF NodeInv, SecretsOfStorage, Exists
<1>8. lbpc[n] = "idle" /\ lbpc' = lbpc
  BY <1>1 DEF NodeInv, LbPhasesOf, lbLocals
<1>9. NodeInv(n)'
  BY <1>5, <1>6, <1>7, <1>8 DEF NodeInv, LbPhasesOf
<1> QED
  BY <1>3, <1>4, <1>9, OneNodeSuffices DEF StepInv

LEMMA RemoveFinalizerNr ==
  ASSUME NrInv, NEW n \in Nodes, RemoveFinalizer(n)
  PROVE  NrInv'
<1>1. UNCHANGED lbLocals /\ pc[n] = "cleaned"
  BY DEF RemoveFinalizer, CleanupOver
<1>2. \/ Return(n) /\ NoFault
      \/ /\ Goto(n, "failed") /\ UNCHANGED <<res, nrLocals>>
         /\ Fault \/ NoFault
  BY DEF RemoveFinalizer
<1>3. CASE Return(n) /\ NoFault
  BY <1>1, <1>3, ReturnInv DEF lbLocals, lbVars, NoFault
<1>4. CASE /\ Goto(n, "failed") /\ UNCHANGED <<res, nrLocals>>
           /\ Fault \/ NoFault
  BY <1>1, <1>4, CleanupFailsNr
<1> QED
  BY <1>2, <1>3, <1>4

LEMMA OperatorNr ==
  ASSUME CtlInv, NEW n \in Nodes, Operator(n)
  PROVE  NrInv'
<1>1. NrInv /\ ObjectsTypeOK
  BY DEF CtlInv
<1>2. CASE Forget(n)
  BY <1>1, <1>2, AroundInv DEF Forget, allVars
<1>3. CASE AddFinalizer(n)
  BY <1>1, <1>3, RequestInv DEF AddFinalizer
<1>4. CASE Reconcile(n)
  <2>1. store[n].replicas \in Replicas
    BY <1>1, <1>4 DEF ObjectsTypeOK, Reconcile, IpfsNode
  <2>2. /\ UNCHANGED lbVars
        /\ (\E r \in Replicas : StartDeploy(n, r)) \/ StartDelete(n)
    BY <1>4, <2>1 DEF Reconcile
  <2> QED
    BY <1>1, <2>2, StartInv
<1>5. CASE Work(n) /\ UNCHANGED ctlVars
  BY <1>1, <1>5, WorkInv
<1>6. CASE RemoveFinalizer(n)
  BY <1>1, <1>6, RemoveFinalizerNr
<1>7. CASE Finish(n)
  BY <1>1, <1>7, ReturnInv DEF Finish
<1> QED
  BY <1>2, <1>3, <1>4, <1>5, <1>6, <1>7 DEF Operator

(* Steps of the users and of the watches leave the procedures alone.       *)
LEMMA OutsideNr ==
  ASSUME NEW n, User(n) \/ WatchEvent(n) \/ LaggardCatchesUp(n)
  PROVE  UNCHANGED allVars
  BY DEF User, Create, Scale, Remove, Edit, WatchEvent, LaggardCatchesUp,
         allVars

(* A list that replaces the watch changes the copy alone.                  *)
LEMMA RelistOutside == Relist => UNCHANGED <<allVars, obj, old>>
  BY DEF Relist, allVars

LEMMA NextNr ==
  ASSUME CtlInv, [Next]_vars
  PROVE  NrInv'
<1>1. NrInv
  BY DEF CtlInv
<1>2. ASSUME NEW n \in Nodes,
             User(n) \/ WatchEvent(n) \/ LaggardCatchesUp(n)
      PROVE  NrInv'
  BY <1>1, <1>2, OutsideNr, AroundInv
<1>3. ASSUME NEW n \in Nodes, Operator(n) PROVE NrInv'
  BY <1>3, OperatorNr
<1>4. CASE Surroundings \/ Relist \/ UNCHANGED vars
  BY <1>1, <1>4, AroundInv, RelistOutside DEF vars, allVars
<1>5. CASE Restart
  BY <1>1, <1>5, CrashInv DEF Restart
<1> QED
  BY <1>2, <1>3, <1>4, <1>5 DEF Next

-----------------------------------------------------------------------------
(* The objects keep their type.                                            *)

LEMMA EditTypes ==
  ASSUME ObjectsTypeOK, NEW n \in Nodes,
         NEW o \in IpfsNode \cup {None}, Edit(n, o)
  PROVE  ObjectsTypeOK'
  BY CtlAssumption DEF ObjectsTypeOK, Edit

LEMMA UserTypes ==
  ASSUME ObjectsTypeOK, NEW n \in Nodes, User(n)
  PROVE  ObjectsTypeOK'
<1>1. ASSUME NEW r \in Replicas, Create(n, r) PROVE ObjectsTypeOK'
  BY <1>1, EditTypes DEF Create, IpfsNode
<1>2. ASSUME NEW r \in Replicas, Scale(n, r) PROVE ObjectsTypeOK'
  <2>1. [obj[n] EXCEPT !.replicas = r] \in IpfsNode
    BY <1>2 DEF Scale, ObjectsTypeOK, IpfsNode
  <2> QED
    BY <1>2, <2>1, EditTypes DEF Scale
<1>3. CASE Remove(n)
  <2>1. [obj[n] EXCEPT !.deleting = TRUE] \in IpfsNode
    BY <1>3 DEF Remove, ObjectsTypeOK, IpfsNode
  <2> QED
    BY <1>3, <2>1, EditTypes DEF Remove
<1> QED
  BY <1>1, <1>2, <1>3 DEF User

LEMMA OperatorTypes ==
  ASSUME ObjectsTypeOK, NEW n \in Nodes, Operator(n)
  PROVE  ObjectsTypeOK'
<1>1. CASE AddFinalizer(n)
  <2>1. CASE obj' = [obj EXCEPT ![n].finalizer = TRUE] /\ obj[n] # None
    <3>1. [obj[n] EXCEPT !.finalizer = TRUE] \in IpfsNode
      BY <2>1 DEF ObjectsTypeOK, IpfsNode
    <3> QED
      BY <1>1, <2>1, <3>1 DEF AddFinalizer, Unschedule, ObjectsTypeOK
  <2>2. CASE UNCHANGED obj
    BY <1>1, <2>2 DEF AddFinalizer, Unschedule, ObjectsTypeOK
  <2> QED
    BY <1>1, <2>1, <2>2 DEF AddFinalizer
<1>2. CASE RemoveFinalizer(n)
  <2> DEFINE o == IF obj[n].deleting THEN None
                                     ELSE [obj[n] EXCEPT !.finalizer = FALSE]
  <2>1. CASE obj' = [obj EXCEPT ![n] = o] /\ obj[n] # None
    <3>1. [obj[n] EXCEPT !.finalizer = FALSE] \in IpfsNode
      BY <2>1 DEF ObjectsTypeOK, IpfsNode
    <3> QED
      BY <1>2, <2>1, <3>1 DEF RemoveFinalizer, ObjectsTypeOK
  <2>2. CASE UNCHANGED obj
    BY <1>2, <2>2 DEF RemoveFinalizer, ObjectsTypeOK
  <2> QED
    BY <1>2, <2>1, <2>2 DEF RemoveFinalizer
<1>3. CASE Finish(n)
  <2>1. due' \in [Nodes -> BOOLEAN]
    BY <1>3 DEF Finish, ObjectsTypeOK
  <2> QED
    BY <1>3, <2>1 DEF Finish, ObjectsTypeOK
<1>4. CASE Forget(n) \/ Reconcile(n)
  BY <1>4 DEF Forget, Reconcile, Unschedule, ObjectsTypeOK
<1>5. CASE Work(n) /\ UNCHANGED ctlVars
  BY <1>5 DEF ctlVars, ObjectsTypeOK
<1> QED
  BY <1>1, <1>2, <1>3, <1>4, <1>5 DEF Operator

LEMMA NextTypes ==
  ASSUME ObjectsTypeOK, [Next]_vars
  PROVE  ObjectsTypeOK'
<1>1. ASSUME NEW n \in Nodes, WatchEvent(n) PROVE ObjectsTypeOK'
  <2>1. due' \in [Nodes -> BOOLEAN]
    BY <1>1 DEF WatchEvent, ObjectsTypeOK
  <2> QED
    BY <1>1, <2>1 DEF WatchEvent, ObjectsTypeOK
<1>2. ASSUME NEW n \in Nodes, LaggardCatchesUp(n) PROVE ObjectsTypeOK'
  BY <1>2 DEF LaggardCatchesUp, ObjectsTypeOK
<1>3. CASE Restart
  <2>1. due' \in [Nodes -> BOOLEAN]
    BY <1>3 DEF Restart
  <2>2. store' \in {obj, old}
    BY <1>3 DEF Restart
  <2> QED
    BY <1>3, <2>1, <2>2 DEF Restart, ObjectsTypeOK
<1>4. CASE (Surroundings /\ UNCHANGED ctlVars) \/ UNCHANGED vars
  BY <1>4 DEF ctlVars, vars, ObjectsTypeOK
<1>5. CASE Relist
  BY <1>5, CtlAssumption DEF Relist, ObjectsTypeOK
<1> QED
  BY <1>1, <1>2, <1>3, <1>4, <1>5, UserTypes, OperatorTypes DEF Next

LEMMA CtlInitInv == CtlInit => CtlInv
  BY NrInitInv, CtlAssumption DEF CtlInit, CtlInv, ObjectsTypeOK

LEMMA CtlNextInv == CtlInv /\ [Next]_vars => CtlInv'
  BY NextNr, NextTypes DEF CtlInv

THEOREM CtlInvariant == Spec => []CtlInv
  BY CtlInitInv, CtlNextInv, PTL DEF Spec

(* Type correctness of the controller.                                     *)
THEOREM ControllerTypeCorrect == Spec => []TypeOK
<1>1. CtlInv => TypeOK
  BY DEF CtlInv, NrInv, LbInv, ResourcesTypeOK, NrTypeOK, ObjectsTypeOK,
         TypeOK
<1> QED
  BY <1>1, CtlInvariant, PTL

(* Under the controller too, whichever objects are created, edited and     *)
(* deleted, a workload has what its pods mount.                            *)
THEOREM ControllerWorkloadsCanStart == Spec => []WorkloadMountsExist
<1>1. CtlInv => WorkloadMountsExist
  BY DEF CtlInv, NrInv, NodeInv, ObjectsAgree, WorkloadMountsExist
<1> QED
  BY <1>1, CtlInvariant, PTL

(* And the configs of a node carry the keys it publishes, its addresses    *)
(* lead to the peers they belong to, and every identity has its pod.       *)
THEOREM ControllerObjectsAgree ==
  Spec => [](ConfigsCarryIdentities /\ AddressesOfIdentities
               /\ PodsCoverIdentities)
<1>1. CtlInv => ConfigsCarryIdentities /\ AddressesOfIdentities
  BY DEF CtlInv, NrInv, NodeInv, ObjectsAgree, ConfigsCarryIdentities,
         AddressesOfIdentities
<1>2. CtlInv => PodsCoverIdentities
  BY PodsCover DEF CtlInv
<1> QED
  BY <1>1, <1>2, CtlInvariant, PTL

-----------------------------------------------------------------------------
(* The inductive invariant for fresh lists.                                *)

Cleaning(n) == pc[n] \in {"delete", "delete_lb", "cleaned"}
Owning(n) == (\E k \in Kinds : Exists(n, k)) \/ pc[n] \in DeployLabels
Protected(n) == obj[n] # None /\ obj[n].finalizer

(* What is known of the object of n.  A copy that calls for a deploy is    *)
(* one of an object that still has its finalizer; a copy marked for        *)
(* deletion may be that of an earlier object of the same name, but then    *)
(* the present one has no finalizer; and while a cleanup runs, no copy     *)
(* calls for a deploy.                                                     *)
ObjectInv(n) ==
  /\ Owning(n) => Protected(n)
  /\ obj[n] # None /\ obj[n].deleting => obj[n].finalizer
  /\ store[n] # None /\ store[n].deleting => store[n].finalizer
  /\ store[n] # None /\ store[n].finalizer /\ ~store[n].deleting
       => Protected(n)
  /\ store[n] # None /\ store[n].deleting /\ Protected(n)
       => obj[n].deleting
  /\ Cleaning(n) /\ Protected(n) => obj[n].deleting
  /\ Cleaning(n) /\ store[n] # None /\ store[n].finalizer
       => store[n].deleting

FreshInv == CtlInv /\ \A n \in Nodes : ObjectInv(n)

-----------------------------------------------------------------------------
(* What a step of a procedure does to what its node owns.                  *)

(* A step of deploy or delete changes no other node.                       *)
Alone(n) == \A m \in Nodes \ {n} : res'[m] = res[m] /\ pc'[m] = pc[m]

(* It creates something only within a deploy, and neither begins a deploy  *)
(* nor a delete.                                                           *)
Continues(n) ==
  /\ \A k \in Kinds : Exists(n, k)' => Exists(n, k) \/ pc[n] \in DeployLabels
  /\ pc'[n] \in DeployLabels => pc[n] \in DeployLabels
  /\ Cleaning(n)' => Cleaning(n)

LEMMA DeployContinues ==
  ASSUME ResourcesTypeOK, NEW n \in Nodes, pc[n] \in DeployLabels,
         NEW next \in DeployLabels \cup {"deployed"},
         NEW k \in Kinds, NEW o \in Objects \cup {None},
         \/ Apply(n, k, o, next)
         \/ (Read(n, next) \/ Fail(n)) /\ UNCHANGED res
  PROVE  Alone(n) /\ Continues(n)
<1>1. next \in Labels
  BY DEF Labels, Results
<1>2. /\ \A m \in Nodes \ {n} : res'[m] = res[m] /\ pc'[m] = pc[m]
      /\ pc'[n] \in {next, "failed"}
  BY <1>1, ApplyEffect, ReadEffect
<1>3. pc'[n] \notin {"delete", "delete_lb", "cleaned"}
  BY <1>2 DEF DeployLabels
<1> QED
  BY <1>2, <1>3 DEF Alone, Continues, Cleaning

LEMMA GetSecretContinues ==
  ASSUME ResourcesTypeOK, NEW n \in Nodes,
         GetPeerInfo(n) \/ GetClusterSecret(n)
  PROVE  Alone(n) /\ Continues(n)
<1>1. /\ pc[n] \in DeployLabels /\ res' = res
      /\ \A m \in Nodes \ {n} : pc'[m] = pc[m]
      /\ pc'[n] \in DeployLabels
  BY DEF GetPeerInfo, GetClusterSecret, GetSecret, Goto, ResourcesTypeOK,
         DeployLabels
<1>2. pc'[n] \notin {"delete", "delete_lb", "cleaned"}
  BY <1>1 DEF DeployLabels
<1> QED
  BY <1>1, <1>2 DEF Alone, Continues, Cleaning

LEMMA PutSecretContinues ==
  ASSUME ResourcesTypeOK, NEW n \in Nodes,
         PutPeerInfo(n) \/ PutClusterSecret(n)
  PROVE  Alone(n) /\ Continues(n)
<1>1. PICK k \in Kinds, next \in DeployLabels, key \in Keys :
        Apply(n, k, Object(key, 1, NoKey), next)
  BY DEF PutPeerInfo, PutClusterSecret, PutSecret, NewKeys, Kinds,
         DeployLabels
<1>2. pc[n] \in DeployLabels
  BY DEF PutPeerInfo, PutClusterSecret, PutSecret, DeployLabels
<1>3. Object(key, 1, NoKey) \in Objects
  BY ObjectTypes
<1> QED
  BY <1>1, <1>2, <1>3, DeployContinues

LEMMA PutConfigsContinues ==
  ASSUME ResourcesTypeOK, NEW n \in Nodes,
         PutConfigs(n) \/ PutStatefulSet(n)
  PROVE  Alone(n) /\ Continues(n)
<1>1. CASE PutConfigs(n)
  <2> DEFINE o == Object(ids[n].key, ids[n].size, BootKey(n))
  <2>1. o \in Objects
    BY DEF ResourcesTypeOK, Object, Objects, BootKey
  <2>2. /\ pc[n] \in DeployLabels /\ "put_sts" \in DeployLabels
        /\ "configs" \in Kinds
        /\ Apply(n, "configs", o, "put_sts") \/ (Fail(n) /\ UNCHANGED res)
    BY <1>1 DEF PutConfigs, DeployLabels, Kinds
  <2> QED
    BY <2>1, <2>2, DeployContinues
<1>2. CASE PutStatefulSet(n)
  <2>1. /\ pc[n] \in DeployLabels /\ "sts" \in Kinds
        /\ \/ spec[n] >= 0 /\ Apply(n, "sts", Plain(spec[n]), "deployed")
           \/ Fail(n) /\ UNCHANGED res
    BY <1>2 DEF PutStatefulSet, DeployLabels, Kinds
  <2>2. CASE spec[n] >= 0 /\ Apply(n, "sts", Plain(spec[n]), "deployed")
    <3>1. spec[n] \in Nat
      BY <2>2 DEF ResourcesTypeOK
    <3>2. Plain(spec[n]) \in Objects
      BY <3>1, ObjectTypes
    <3> QED
      BY <2>1, <2>2, <3>2, DeployContinues
  <2>3. CASE Fail(n) /\ UNCHANGED res
    BY <2>1, <2>3, DeployContinues, ObjectTypes
  <2> QED
    BY <2>1, <2>2, <2>3
<1> QED
  BY <1>1, <1>2

LEMMA PlainContinues ==
  ASSUME ResourcesTypeOK, NEW n \in Nodes,
         \/ CopyScripts(n) \/ GetIdentities(n) \/ PutIdentities(n)
         \/ PutAddresses(n) \/ GetBootIdentities(n) \/ GetBootAddresses(n)
  PROVE  Alone(n) /\ Continues(n)
<1>1. Plain(2) \in Objects
  BY ObjectTypes
<1>2. CASE CopyScripts(n)
  <2>1. /\ pc[n] \in DeployLabels /\ "get_ids" \in DeployLabels
        /\ "startup-scripts" \in Kinds
        /\ Apply(n, "startup-scripts", Plain(2), "get_ids")
    BY <1>2 DEF CopyScripts, DeployLabels, Kinds
  <2> QED
    BY <1>1, <2>1, DeployContinues
<1>3. CASE GetIdentities(n) \/ GetBootIdentities(n) \/ GetBootAddresses(n)
  <2>1. /\ pc[n] \in DeployLabels /\ res' = res
        /\ \E next \in DeployLabels : Read(n, next) \/ Fail(n)
    BY <1>3 DEF GetIdentities, GetBootIdentities, GetBootAddresses,
                DeployLabels
  <2> QED
    BY <1>1, <2>1, DeployContinues DEF Kinds
<1>4. CASE PutIdentities(n)
  <2>1. PICK key \in Keys :
          Apply(n, "identities", Object(key, Count(spec[n]), NoKey), "lb")
    BY <1>4 DEF PutIdentities
  <2>2. Object(key, Count(spec[n]), NoKey) \in Objects
    BY CountValue, ObjectTypes DEF ResourcesTypeOK
  <2>3. /\ pc[n] \in DeployLabels /\ "lb" \in DeployLabels
        /\ "identities" \in Kinds
    BY <1>4 DEF PutIdentities, DeployLabels, Kinds
  <2> QED
    BY <2>1, <2>2, <2>3, DeployContinues
<1>5. CASE PutAddresses(n)
  <2>1. PICK next \in DeployLabels :
          Apply(n, "external-addresses",
                Object(ids[n].key, Count(spec[n]), NoKey), next)
    BY <1>5 DEF PutAddresses, DeployLabels
  <2>2. Object(ids[n].key, Count(spec[n]), NoKey) \in Objects
    <3>1. Count(spec[n]) \in Nat /\ ids[n].key \in Keys \cup {NoKey}
      BY CountValue DEF ResourcesTypeOK, Objects
    <3> QED
      BY <3>1, ObjectTypes
  <2>3. pc[n] \in DeployLabels /\ "external-addresses" \in Kinds
    BY <1>5 DEF PutAddresses, DeployLabels, Kinds
  <2> QED
    BY <2>1, <2>2, <2>3, DeployContinues
<1> QED
  BY <1>2, <1>3, <1>4, <1>5

LEMMA DeleteContinues ==
  ASSUME NrInv, NEW n \in Nodes, DeleteObject(n)
  PROVE  Alone(n) /\ Continues(n)
<1>1. ResourcesTypeOK /\ pc[n] = "delete" /\ pos[n] \in 1 .. Len(DeleteOrder(n))
  <2>1. ResourcesTypeOK /\ pos[n] <= Len(DeleteOrder(n)) /\ pc[n] = "delete"
    BY DEF NrInv, NodeInv, DeleteProgress, DeleteObject
  <2>2. pos[n] \in 1 .. 7
    BY <2>1 DEF ResourcesTypeOK
  <2> QED
    BY <2>1, <2>2, DeleteOrderKinds
<1>2. PICK k \in Kinds, next \in {"delete", "delete_lb"} :
        Apply(n, k, None, next)
  BY <1>1, DeleteOrderKinds DEF DeleteObject
<1>3. next \in Labels
  BY DEF Labels, DeleteLabels
<1>4. /\ \A m \in Nodes \ {n} : res'[m] = res[m] /\ pc'[m] = pc[m]
      /\ \A j \in Kinds \ {k} : res'[n][j] = res[n][j]
      /\ pc'[n] \in {next, "failed"} /\ res'[n][k] \in {None, res[n][k]}
  BY <1>1, <1>2, <1>3, ApplyEffect
<1>5. \A j \in Kinds : Exists(n, j)' => Exists(n, j)
  BY <1>4 DEF Exists
<1>6. pc'[n] \notin DeployLabels
  BY <1>4 DEF DeployLabels
<1> QED
  BY <1>1, <1>4, <1>5, <1>6 DEF Alone, Continues, Cleaning

LEMMA LbCallContinues ==
  ASSUME NrInv, NEW n \in Nodes,
         \/ CallLbDeploy(n) \/ CallLbDelete(n)
         \/ LbWork(n) /\ UNCHANGED nrVars
         \/ LbResult(n)
  PROVE  Alone(n) /\ Continues(n)
<1>1. CASE UNCHANGED nrVars
  <2>1. NodeInv(n) /\ res' = res /\ pc' = pc
    BY <1>1 DEF NrInv, nrVars
  <2> QED
    BY <2>1 DEF Alone, Continues, Cleaning, Exists
<1>2. CASE LbResult(n)
  <2>1. res' = res
    BY <1>2 DEF LbResult
  <2> QED
    BY <1>2, <2>1, LbResultLabel
    DEF Alone, Continues, Cleaning, Exists, NrInv, NodeInv, ResourcesTypeOK,
        DeployLabels
<1> QED
  BY <1>1, <1>2 DEF CallLbDeploy, CallLbDelete

LEMMA WorkContinues ==
  ASSUME NrInv, NEW n \in Nodes, Work(n)
  PROVE  Alone(n) /\ Continues(n)
<1>1. ResourcesTypeOK
  BY DEF NrInv
<1> QED
  BY <1>1, GetSecretContinues, PutSecretContinues, PlainContinues,
     PutConfigsContinues, DeleteContinues, LbCallContinues
  DEF Work, ObjectStep
-----------------------------------------------------------------------------
(* The invariant for fresh lists is inductive: what a step does to the     *)
(* object of each node.                                                    *)

(* The invariant of m depends on nothing but what belongs to m.            *)
LEMMA ObjectFrame ==
  ASSUME NEW m \in Nodes, ObjectInv(m), res'[m] = res[m], pc'[m] = pc[m],
         obj'[m] = obj[m], store'[m] = store[m]
  PROVE  ObjectInv(m)'
  BY DEF ObjectInv, Owning, Protected, Cleaning, Exists

(* What a node owns once its procedure is at rest it owned before.         *)
LEMMA RestOwning ==
  ASSUME NEW n \in Nodes, res'[n] = res[n],
         pc'[n] \in {"idle", "failed"}
  PROVE  /\ Owning(n)' => \E k \in Kinds : Exists(n, k)
         /\ ~Cleaning(n)'
  BY DEF Owning, Exists, Cleaning, DeployLabels

LEMMA UserFresh ==
  ASSUME FreshInv, NEW n \in Nodes, User(n)
  PROVE  ObjectInv(n)'
<1>1. ObjectInv(n) /\ ObjectsTypeOK
  BY DEF FreshInv, CtlInv
<1>2. /\ res' = res /\ pc' = pc /\ store' = store
      /\ Owning(n)' = Owning(n) /\ Cleaning(n)' = Cleaning(n)
  BY DEF User, Create, Scale, Remove, Edit, nrVars, Owning, Exists, Cleaning
<1>3. ASSUME NEW r \in Replicas, Create(n, r) PROVE ObjectInv(n)'
  <2>1. ~Protected(n) /\ ~Owning(n)
    BY <1>1, <1>3 DEF Create, ObjectInv, Protected
  <2>2. /\ ~obj'[n].finalizer /\ ~obj'[n].deleting
    BY <1>1, <1>3 DEF Create, Edit, ObjectsTypeOK
  <2> QED
    BY <1>1, <1>2, <2>1, <2>2 DEF ObjectInv, Protected
<1>4. ASSUME NEW r \in Replicas, Scale(n, r) PROVE ObjectInv(n)'
  <2>1. /\ obj[n] # None /\ obj'[n] # None
        /\ obj'[n].finalizer = obj[n].finalizer
        /\ obj'[n].deleting = obj[n].deleting
    <3>1. obj[n] # None /\ obj'[n] = [obj[n] EXCEPT !.replicas = r]
      BY <1>1, <1>4 DEF Scale, Edit, ObjectsTypeOK
    <3>2. [obj[n] EXCEPT !.replicas = r] \in IpfsNode
      BY <1>1, <3>1 DEF ObjectsTypeOK, IpfsNode
    <3> QED
      BY <1>1, <3>1, <3>2, NoObjectAssumption DEF ObjectsTypeOK, IpfsNode
  <2> QED
    BY <1>1, <1>2, <2>1 DEF ObjectInv, Protected
<1>5. CASE Remove(n)
  <2>1. obj[n] # None /\ ~obj[n].deleting
    BY <1>5 DEF Remove
  <2>2. CASE obj[n].finalizer
    <3>1. obj'[n] = [obj[n] EXCEPT !.deleting = TRUE]
      BY <1>1, <1>5, <2>2 DEF Remove, Edit, ObjectsTypeOK
    <3>2. [obj[n] EXCEPT !.deleting = TRUE] \in IpfsNode
      BY <1>1, <2>1 DEF ObjectsTypeOK, IpfsNode
    <3>3. obj'[n] # None /\ obj'[n].deleting /\ obj'[n].finalizer
      BY <1>1, <2>1, <2>2, <3>1, <3>2, NoObjectAssumption
      DEF ObjectsTypeOK, IpfsNode
    <3> QED
      BY <1>1, <1>2, <3>3 DEF ObjectInv, Protected
  <2>3. CASE ~obj[n].finalizer
    <3>1. obj'[n] = None
      BY <1>1, <1>5, <2>3 DEF Remove, Edit, ObjectsTypeOK
    <3>2. ~Protected(n)
      BY <2>3 DEF Protected
    <3> QED
      BY <1>1, <1>2, <3>1, <3>2 DEF ObjectInv, Protected
  <2> QED
    BY <2>2, <2>3
<1> QED
  BY <1>3, <1>4, <1>5 DEF User

(* The reflector copies the object as it is.                               *)
LEMMA CopyFresh ==
  ASSUME NEW n \in Nodes, ObjectInv(n), res'[n] = res[n], pc'[n] = pc[n],
         obj' = obj, store'[n] = obj[n]
  PROVE  ObjectInv(n)'
<1>1. Owning(n)' = Owning(n) /\ Cleaning(n)' = Cleaning(n)
  BY DEF Owning, Exists, Cleaning
<1> QED
  BY <1>1 DEF ObjectInv, Protected

LEMMA AddFinalizerFresh ==
  ASSUME FreshInv, NEW n \in Nodes, AddFinalizer(n)
  PROVE  ObjectInv(n)'
<1>1. ObjectInv(n) /\ ObjectsTypeOK
  BY DEF FreshInv, CtlInv
<1>2. /\ res' = res /\ pc' = pc /\ store' = store /\ pc[n] = "idle"
      /\ store[n] # None /\ ~store[n].finalizer
  BY DEF AddFinalizer, nrVars, Scheduled
<1>3. CASE UNCHANGED obj
  BY <1>1, <1>2, <1>3, ObjectFrame
<1>4. CASE /\ obj[n] # None /\ ~obj[n].finalizer
           /\ obj' = [obj EXCEPT ![n].finalizer = TRUE]
  <2>1. obj'[n] = [obj[n] EXCEPT !.finalizer = TRUE]
    BY <1>1, <1>4 DEF ObjectsTypeOK
  <2>2. [obj[n] EXCEPT !.finalizer = TRUE] \in IpfsNode
    BY <1>1, <1>4 DEF ObjectsTypeOK, IpfsNode
  <2>3. obj'[n] # None /\ obj'[n].finalizer
    BY <1>1, <1>4, <2>1, <2>2, NoObjectAssumption
    DEF ObjectsTypeOK, IpfsNode
  <2>4. ~Cleaning(n)'
    BY <1>2 DEF Cleaning
  <2>5. ~store[n].deleting
    BY <1>1, <1>2 DEF ObjectInv
  <2> QED
    BY <1>2, <2>3, <2>4, <2>5 DEF ObjectInv, Protected
<1> QED
  BY <1>3, <1>4 DEF AddFinalizer

LEMMA ReconcileFresh ==
  ASSUME FreshInv, NEW n \in Nodes, Reconcile(n)
  PROVE  ObjectInv(n)'
<1>1. ObjectInv(n) /\ pc \in [Nodes -> Labels]
  BY DEF FreshInv, CtlInv, NrInv, ResourcesTypeOK
<1>2. /\ res' = res /\ obj' = obj /\ store' = store
      /\ store[n] # None /\ store[n].finalizer
      /\ \A k : Exists(n, k)' = Exists(n, k)
      /\ Protected(n)' = Protected(n)
  BY DEF Reconcile, StartDeploy, StartDelete, Exists, Protected
<1>3. CASE store[n].deleting
  <2>1. pc'[n] = "delete"
    BY <1>1, <1>3 DEF Reconcile, StartDelete, Goto
  <2>2. Owning(n)' => Owning(n)
    BY <1>2, <2>1 DEF Owning, DeployLabels
  <2> QED
    BY <1>1, <1>2, <1>3, <2>2 DEF ObjectInv
<1>4. CASE ~store[n].deleting
  <2>1. ~Cleaning(n)'
    BY <1>1, <1>4 DEF Reconcile, StartDeploy, Goto, Cleaning
  <2>2. Protected(n)
    BY <1>1, <1>2, <1>4 DEF ObjectInv
  <2> QED
    BY <1>1, <1>2, <1>4, <2>1, <2>2 DEF ObjectInv
<1> QED
  BY <1>3, <1>4

(* Where the finalizer is removed, the objects of the node are gone, and   *)
(* no copy still calls for a deploy.                                       *)
LEMMA RemoveFinalizerFresh ==
  ASSUME FreshInv, NEW n \in Nodes, RemoveFinalizer(n)
  PROVE  ObjectInv(n)'
<1>1. ObjectInv(n) /\ ObjectsTypeOK /\ NodeInv(n) /\ pc \in [Nodes -> Labels]
  BY DEF FreshInv, CtlInv, NrInv, ResourcesTypeOK
<1>2. /\ pc[n] = "cleaned" /\ res' = res /\ store' = store
      /\ pc'[n] \in {"idle", "failed"}
  BY <1>1 DEF RemoveFinalizer, CleanupOver, Return, Goto
<1>3. Cleaning(n) /\ \A k \in Kinds : ~Exists(n, k)
  BY <1>1, <1>2 DEF NodeInv, DeleteProgress, Cleaning
<1>4. ~Owning(n)' /\ ~Cleaning(n)'
  BY <1>2, <1>3, RestOwning
<1>5. CASE UNCHANGED obj
  BY <1>1, <1>2, <1>4, <1>5 DEF ObjectInv, Protected
<1>6. CASE /\ obj[n] # None /\ obj[n].finalizer
           /\ obj' = [obj EXCEPT ![n] =
                IF obj[n].deleting THEN None
                                   ELSE [obj[n] EXCEPT !.finalizer = FALSE]]
  <2>1. obj[n].deleting
    BY <1>1, <1>3, <1>6 DEF ObjectInv, Protected
  <2>2. obj'[n] = None
    BY <1>1, <1>6, <2>1 DEF ObjectsTypeOK
  <2>3. store[n] # None /\ store[n].finalizer => store[n].deleting
    BY <1>1, <1>3 DEF ObjectInv
  <2> QED
    BY <1>1, <1>2, <1>4, <2>2, <2>3 DEF ObjectInv, Protected
<1> QED
  BY <1>5, <1>6 DEF RemoveFinalizer

(* A procedure at rest, the object and its copy as they were.              *)
LEMMA RestFresh ==
  ASSUME NEW n \in Nodes, ObjectInv(n), res'[n] = res[n],
         pc'[n] = "idle", obj'[n] = obj[n], store'[n] = store[n]
  PROVE  ObjectInv(n)'
<1>1. (Owning(n)' => Owning(n)) /\ ~Cleaning(n)'
  BY RestOwning DEF Owning
<1> QED
  BY <1>1 DEF ObjectInv, Protected

LEMMA WorkFresh ==
  ASSUME FreshInv, NEW n \in Nodes, Work(n), UNCHANGED ctlVars
  PROVE  ObjectInv(n)'
<1>1. ObjectInv(n) /\ Continues(n) /\ obj' = obj /\ store' = store
  BY WorkContinues DEF FreshInv, CtlInv, ctlVars
<1>2. (Owning(n)' => Owning(n)) /\ (Cleaning(n)' => Cleaning(n))
  BY <1>1 DEF Continues, Owning
<1> QED
  BY <1>1, <1>2 DEF ObjectInv, Protected

-----------------------------------------------------------------------------
(* What is known of one object is safe from the steps of the others.       *)
NoOther(n) ==
  \A m \in Nodes \ {n} :
    /\ res'[m] = res[m] /\ pc'[m] = pc[m]
    /\ obj'[m] = obj[m] /\ store'[m] = store[m]

LEMMA OneObjectSuffices ==
  ASSUME FreshInv, CtlInv', NEW n \in Nodes, NoOther(n), ObjectInv(n)'
  PROVE  FreshInv'
<1>1. ASSUME NEW m \in Nodes, m # n PROVE ObjectInv(m)'
  BY <1>1, ObjectFrame DEF FreshInv, NoOther
<1> QED
  BY <1>1 DEF FreshInv

LEMMA OutsideFresh ==
  ASSUME FreshInv, CtlInv', NEW n \in Nodes,
         User(n) \/ WatchEvent(n) \/ LaggardCatchesUp(n)
  PROVE  FreshInv'
<1>1. NoOther(n)
  BY DEF FreshInv, CtlInv, ObjectsTypeOK, NoOther, User, Create, Scale,
         Remove, Edit, WatchEvent, LaggardCatchesUp, nrVars
<1>2. ObjectInv(n) /\ ObjectsTypeOK
  BY DEF FreshInv, CtlInv
<1>3. ASSUME WatchEvent(n) PROVE ObjectInv(n)'
  BY <1>2, <1>3, CopyFresh DEF WatchEvent, nrVars, ObjectsTypeOK
<1>4. ASSUME LaggardCatchesUp(n) PROVE ObjectInv(n)'
  BY <1>2, <1>4, ObjectFrame DEF LaggardCatchesUp, nrVars
<1> QED
  BY <1>1, <1>3, <1>4, UserFresh, OneObjectSuffices

LEMMA OperatorFresh ==
  ASSUME FreshInv, CtlInv', NEW n \in Nodes, Operator(n)
  PROVE  FreshInv'
<1>1. /\ ObjectInv(n) /\ ObjectsTypeOK /\ NrInv
      /\ pc \in [Nodes -> Labels]
  BY DEF FreshInv, CtlInv, NrInv, ResourcesTypeOK
<1>2. CASE Forget(n)
  <2>1. UNCHANGED <<res, pc, obj, store>>
    BY <1>2 DEF Forget, nrVars
  <2> QED
    BY <1>1, <2>1, ObjectFrame, OneObjectSuffices DEF NoOther
<1>3. CASE AddFinalizer(n)
  <2>1. NoOther(n)
    BY <1>1, <1>3 DEF AddFinalizer, NoOther, ObjectsTypeOK, nrVars
  <2> QED
    BY <1>3, <2>1, AddFinalizerFresh, OneObjectSuffices
<1>4. CASE Reconcile(n)
  <2>1. NoOther(n)
    BY <1>1, <1>4 DEF Reconcile, StartDeploy, StartDelete, Goto, NoOther
  <2> QED
    BY <1>4, <2>1, ReconcileFresh, OneObjectSuffices
<1>5. CASE Work(n) /\ UNCHANGED ctlVars
  <2>1. NoOther(n)
    BY <1>1, <1>5, WorkContinues DEF Alone, NoOther, ctlVars
  <2> QED
    BY <1>5, <2>1, WorkFresh, OneObjectSuffices
<1>6. CASE RemoveFinalizer(n)
  <2>1. NoOther(n)
    BY <1>1, <1>6 DEF RemoveFinalizer, Return, Goto, NoOther, ObjectsTypeOK
  <2> QED
    BY <1>6, <2>1, RemoveFinalizerFresh, OneObjectSuffices
<1>7. CASE Finish(n)
  <2>1. NoOther(n) /\ res' = res /\ pc'[n] = "idle" /\ obj' = obj
        /\ store' = store
    BY <1>1, <1>7 DEF Finish, Return, Goto, NoOther
  <2> QED
    BY <1>1, <2>1, RestFresh, OneObjectSuffices
<1> QED
  BY <1>2, <1>3, <1>4, <1>5, <1>6, <1>7 DEF Operator

(* A restart reads the objects as they are, if the list does not lag.      *)
LEMMA RestartFresh ==
  ASSUME FreshInv, CtlInv', ~StaleLists, Restart
  PROVE  FreshInv'
<1>1. /\ res' = res /\ obj' = obj /\ store' = obj
      /\ \A n \in Nodes : pc'[n] = "idle"
  BY DEF Restart, Crash
<1>2. ASSUME NEW n \in Nodes PROVE ObjectInv(n)'
  <2>1. ObjectInv(n)
    BY DEF FreshInv
  <2>2. (Owning(n)' => Owning(n)) /\ ~Cleaning(n)'
    BY <1>1, RestOwning DEF Owning
  <2> QED
    BY <1>1, <2>1, <2>2 DEF ObjectInv, Protected
<1> QED
  BY <1>2 DEF FreshInv

LEMMA FreshInitInv == CtlInit => FreshInv
<1> SUFFICES ASSUME CtlInit, NEW n \in Nodes PROVE ObjectInv(n)
  BY CtlInitInv DEF FreshInv
<1>1. obj[n] = None /\ store[n] = None
  BY DEF CtlInit
<1>2. pc[n] = "idle" /\ \A k \in Kinds : ~Exists(n, k)
  BY DEF CtlInit, NrInit, Exists
<1>3. ~Owning(n) /\ ~Cleaning(n)
  BY <1>2 DEF Owning, Cleaning, DeployLabels
<1> QED
  BY <1>1, <1>3 DEF ObjectInv, Protected

LEMMA FreshNextInv ==
  ASSUME FreshInv, [Next]_vars, ~StaleLists
  PROVE  FreshInv'
<1>1. CtlInv'
  BY CtlNextInv DEF FreshInv
<1>2. CASE (Surroundings /\ UNCHANGED ctlVars) \/ UNCHANGED vars
  <2>1. UNCHANGED <<res, pc, obj, store>>
    BY <1>2 DEF Surroundings, nrVars, ctlVars, vars
  <2> QED
    BY <1>1, <2>1, ObjectFrame DEF FreshInv
<1> QED
  BY <1>1, <1>2, OutsideFresh, OperatorFresh, RestartFresh DEF Next, Relist

(* While no list lags, nothing that a node owns ever outlives the          *)
(* finalizer of its object, however edits, failed requests and restarts    *)
(* interleave with deploys and deletes.                                    *)
THEOREM FinalizerProtects ==
  ASSUME ~StaleLists
  PROVE  Spec => []OwnedIsProtected
<1>1. FreshInv /\ [Next]_vars => FreshInv'
  BY FreshNextInv
<1>2. FreshInv => OwnedIsProtected
  BY DEF FreshInv, ObjectInv, Owning, Protected, OwnedIsProtected
<1> QED
  BY <1>1, <1>2, FreshInitInv, PTL DEF Spec

(* And so an object that is gone leaves no StatefulSet, ConfigMap or       *)
(* Secret behind.                                                          *)
THEOREM NothingIsOrphaned ==
  ASSUME ~StaleLists
  PROVE  Spec => []NothingOrphaned
<1>1. OwnedIsProtected => NothingOrphaned
  BY DEF OwnedIsProtected, NothingOrphaned
<1> QED
  BY <1>1, FinalizerProtects, PTL
-----------------------------------------------------------------------------
(* The load balancers of an object that is gone, when no request failed.   *)

(* What is known of the load balancers of n: a deletion that came to its   *)
(* end has deleted them all, and until then the finalizer stays.           *)
ServicesInv(n) ==
  /\ DeletePending(n)
  /\ pc[n] = "cleaned" => lb[n] = {}
  /\ lb[n] # {} => Protected(n)

(* A finalizer goes only after a cleanup.                                  *)
LEMMA ProtectionStays ==
  ASSUME FreshInv, [Next]_vars, NEW n \in Nodes, Protected(n),
         pc[n] # "cleaned"
  PROVE  Protected(n)'
<1>1. ObjectsTypeOK /\ obj[n] \in IpfsNode /\ obj[n].finalizer
  BY DEF FreshInv, CtlInv, ObjectsTypeOK, Protected
<1>2. CASE obj'[n] = obj[n]
  BY <1>2 DEF Protected
<1>3. ASSUME NEW o \in IpfsNode, o.finalizer, obj' = [obj EXCEPT ![n] = o]
      PROVE  Protected(n)'
  BY <1>1, <1>3, NoObjectAssumption DEF ObjectsTypeOK, Protected
<1>4. ASSUME NEW m \in Nodes, User(m) PROVE Protected(n)'
  <2>1. CASE m # n
    BY <1>1, <1>2, <1>4, <2>1
    DEF User, Create, Scale, Remove, Edit, ObjectsTypeOK
  <2>2. CASE m = n
    <3>1. ASSUME NEW r \in Replicas, Scale(n, r) PROVE Protected(n)'
      <4> DEFINE o == [obj[n] EXCEPT !.replicas = r]
      <4>1. o \in IpfsNode /\ o.finalizer
        BY <1>1 DEF IpfsNode
      <4> HIDE DEF o
      <4>2. obj' = [obj EXCEPT ![n] = o]
        BY <3>1 DEF Scale, Edit, o
      <4> QED
        BY <1>3, <4>1, <4>2
    <3>2. ASSUME Remove(n) PROVE Protected(n)'
      <4> DEFINE o == [obj[n] EXCEPT !.deleting = TRUE]
      <4>1. o \in IpfsNode /\ o.finalizer
        BY <1>1 DEF IpfsNode
      <4> HIDE DEF o
      <4>2. obj' = [obj EXCEPT ![n] = o]
        BY <1>1, <3>2 DEF Remove, Edit, o
      <4> QED
        BY <1>3, <4>1, <4>2
    <3> QED
      BY <1>1, <1>4, <2>2, <3>1, <3>2, NoObjectAssumption DEF User, Create
  <2> QED
    BY <2>1, <2>2
<1>5. ASSUME NEW m \in Nodes, AddFinalizer(m) PROVE Protected(n)'
  <2>1. CASE obj' = obj \/ m # n
    BY <1>1, <1>2, <1>5, <2>1 DEF AddFinalizer, ObjectsTypeOK
  <2>2. CASE m = n /\ obj' # obj
    BY <1>1, <1>5, <2>2 DEF AddFinalizer
  <2> QED
    BY <2>1, <2>2
<1>6. ASSUME NEW m \in Nodes, RemoveFinalizer(m) PROVE Protected(n)'
  <2>1. m # n
    BY <1>6 DEF RemoveFinalizer, CleanupOver
  <2> QED
    BY <1>1, <1>2, <1>6, <2>1 DEF RemoveFinalizer, ObjectsTypeOK
<1>7. ASSUME NEW m \in Nodes,
             Forget(m) \/ Reconcile(m) \/ Finish(m)
      PROVE  Protected(n)'
  BY <1>2, <1>7 DEF Forget, Reconcile, Finish
<1>8. ASSUME NEW m \in Nodes, Operator(m) PROVE Protected(n)'
  <2>1. CASE UNCHANGED ctlVars
    BY <1>2, <2>1 DEF ctlVars
  <2> QED
    BY <1>5, <1>6, <1>7, <1>8, <2>1 DEF Operator
<1>9. ASSUME NEW m \in Nodes, WatchEvent(m) \/ LaggardCatchesUp(m)
      PROVE  Protected(n)'
  BY <1>2, <1>9 DEF WatchEvent, LaggardCatchesUp
<1>10. CASE \/ Surroundings /\ UNCHANGED ctlVars
            \/ Relist \/ Restart \/ UNCHANGED vars
  BY <1>2, <1>10, RelistOutside DEF Restart, vars, ctlVars
<1> QED
  BY <1>4, <1>8, <1>9, <1>10 DEF Next

(* A cleanup is over where a load balancer call says so.                   *)
LEMMA ObjectStepNotCleaned ==
  ASSUME ResourcesTypeOK, NEW n \in Nodes, ObjectStep(n)
  PROVE  /\ \A m \in Nodes \ {n} : pc'[m] = pc[m]
         /\ pc'[n] # "cleaned"
<1>1. PICK next \in Labels \ {"cleaned"} : Goto(n, next)
  <2>1. CASE GetPeerInfo(n) \/ GetClusterSecret(n) \/ PutPeerInfo(n)
             \/ PutClusterSecret(n)
    BY <2>1 DEF GetPeerInfo, GetClusterSecret, PutPeerInfo, PutClusterSecret,
                GetSecret, PutSecret, Apply, Labels, DeployLabels, Results
  <2>2. CASE CopyScripts(n) \/ GetIdentities(n) \/ PutIdentities(n)
             \/ PutAddresses(n) \/ GetBootIdentities(n)
             \/ GetBootAddresses(n)
    BY <2>2 DEF CopyScripts, GetIdentities, PutIdentities, PutAddresses,
                GetBootIdentities, GetBootAddresses, Apply, Read, Fail,
                Labels, DeployLabels, Results
  <2>3. CASE PutConfigs(n) \/ PutStatefulSet(n) \/ DeleteObject(n)
    BY <2>3 DEF PutConfigs, PutStatefulSet, DeleteObject, Apply, Fail,
                Labels, DeployLabels, DeleteLabels, Results
  <2> QED
    BY <2>1, <2>2, <2>3 DEF ObjectStep
<1> QED
  BY <1>1 DEF Goto, ResourcesTypeOK
(* A step that leaves the load balancers and their calls alone.            *)
LEMMA ServicesFrame ==
  ASSUME FreshInv, [Next]_vars, NEW n \in Nodes, ServicesInv(n),
         lb'[n] = lb[n], todo'[n] = todo[n], lbpc'[n] = lbpc[n],
         pc'[n] = "cleaned" => pc[n] = "cleaned"
  PROVE  ServicesInv(n)'
<1>1. DeletePending(n)'
  BY DEF ServicesInv, DeletePending
<1>2. lb'[n] # {} => Protected(n)'
  BY ProtectionStays DEF ServicesInv
<1> QED
  BY <1>1, <1>2 DEF ServicesInv

(* A load balancer call that runs, undisturbed.                            *)
LEMMA CallServices ==
  ASSUME FreshInv, [Next]_vars, Unfailed', NEW n \in Nodes,
         \A m \in Nodes : ServicesInv(m),
         \/ CallLbDeploy(n) \/ CallLbDelete(n)
         \/ LbWork(n) /\ UNCHANGED nrVars
  PROVE  \A m \in Nodes : ServicesInv(m)'
<1>1. /\ LbInv /\ NodeInv(n) /\ ObjectInv(n) /\ pc' = pc /\ faults \in Nat
  BY LbAssumption
  DEF FreshInv, CtlInv, NrInv, LbInv, LbTypeOK, CallLbDeploy, CallLbDelete,
      nrVars
<1>2. ASSUME NEW m \in Nodes \ {n} PROVE ServicesInv(m)'
  <2>1. lb'[m] = lb[m] /\ todo'[m] = todo[m] /\ lbpc'[m] = lbpc[m]
    BY <1>1
    DEF CallLbDeploy, CallLbDelete, LbDeploy, LbDelete, LbWork,
        RemoveService, CreateService, DeleteService, WaitIps, AddService,
        DropService, KeepServices, LbStep, LbInv, LbTypeOK
  <2> QED
    BY <1>1, <2>1, ServicesFrame
<1> DEFINE goal == /\ DeletePending(n)'
                   /\ lb'[n] \subseteq lb[n] \/ lbpc[n] = "creating"
<1>3. goal
  <2>1. DeletePending(n)
    BY DEF ServicesInv
  <2>2. CASE CallLbDeploy(n)
    BY <1>1, <2>2
    DEF CallLbDeploy, LbDeploy, LbStep, DeletePending, LbInv, LbTypeOK
  <2>3. CASE CallLbDelete(n)
    BY <1>1, <2>3
    DEF CallLbDelete, LbDelete, Listed, LbStep, While, Fault, Unfailed,
        DeletePending, LbInv, LbTypeOK
  <2>4. ASSUME NEW i \in todo[n],
               RemoveService(n, i) \/ CreateService(n, i)
                 \/ DeleteService(n, i)
        PROVE  goal
    BY <1>1, <2>1, <2>4
    DEF RemoveService, CreateService, DeleteService, AddService,
        DropService, KeepServices, LbStep, While, Fault, NoFault, Unfailed,
        DeletePending, LbInv, LbTypeOK
  <2>5. CASE WaitIps(n)
    BY <1>1, <2>1, <2>5
    DEF WaitIps, LbStep, DeletePending, LbInv, LbTypeOK
  <2>6. LbWork(n) => goal
    <3> HIDE DEF goal
    <3> QED
      BY <2>4, <2>5 DEF LbWork
  <2> HIDE DEF goal
  <2> QED
    BY <2>2, <2>3, <2>6
<1>4. pc[n] # "cleaned"
  <2>1. lbpc[n] # "idle" \/ pc[n] \in {"lb", "delete_lb"}
    BY DEF CallLbDeploy, CallLbDelete, LbWork, RemoveService, CreateService,
           DeleteService, WaitIps
  <2> QED
    BY <1>1, <2>1 DEF NodeInv, LbPhasesOf
<1>5. lbpc[n] = "creating" => Protected(n)
  <2>1. lbpc[n] = "creating" => pc[n] = "lb"
    BY <1>1 DEF NodeInv, LbPhasesOf
  <2> QED
    BY <1>1, <2>1 DEF ObjectInv, Owning, DeployLabels
<1>6. lb'[n] # {} => Protected(n)'
  BY <1>3, <1>4, <1>5, ProtectionStays DEF ServicesInv
<1> QED
  BY <1>1, <1>2, <1>3, <1>4, <1>6 DEF ServicesInv

LEMMA ResultServices ==
  ASSUME FreshInv, [Next]_vars, NEW n \in Nodes, LbResult(n),
         \A m \in Nodes : ServicesInv(m)
  PROVE  \A m \in Nodes : ServicesInv(m)'
<1>1. /\ NrInv /\ LbInv /\ ResourcesTypeOK /\ NodeInv(n) /\ ServicesInv(n)
      /\ LbReturn(n)
  BY DEF FreshInv, CtlInv, NrInv, LbResult
<1>2. \A m \in Nodes : lb'[m] = lb[m]
  BY <1>1 DEF LbReturn
<1>3. ASSUME NEW m \in Nodes \ {n} PROVE ServicesInv(m)'
  <2>1. todo'[m] = todo[m] /\ lbpc'[m] = lbpc[m] /\ pc'[m] = pc[m]
    BY <1>1 DEF LbReturn, LbStep, LbInv, LbTypeOK, LbResult, Goto,
                ResourcesTypeOK
  <2> QED
    BY <1>2, <2>1, ServicesFrame
<1>4. lbpc'[n] = "idle"
  BY <1>1 DEF LbReturn, LbStep, LbInv, LbTypeOK
<1>5. pc[n] # "cleaned"
  BY DEF LbResult
<1>6. pc'[n] = "cleaned" => lb'[n] = {}
  <2>1. pc'[n] = "cleaned" => lbpc[n] = "deleted"
    BY <1>1 DEF LbResult, Goto, AfterLb, ResourcesTypeOK, LbReturn, LbReturns
  <2> QED
    BY <1>1, <1>2, <2>1 DEF ServicesInv, DeletePending
<1>7. lb'[n] # {} => Protected(n)'
  BY <1>1, <1>2, <1>5, ProtectionStays DEF ServicesInv
<1>8. ServicesInv(n)'
  BY <1>4, <1>6, <1>7 DEF ServicesInv, DeletePending
<1> QED
  BY <1>3, <1>8

LEMMA WorkServices ==
  ASSUME FreshInv, [Next]_vars, Unfailed', NEW n \in Nodes, Work(n),
         \A m \in Nodes : ServicesInv(m)
  PROVE  \A m \in Nodes : ServicesInv(m)'
<1>1. CASE ObjectStep(n) /\ UNCHANGED lbLocals
  <2>1. ResourcesTypeOK
    BY DEF FreshInv, CtlInv, NrInv
  <2>2. \A m \in Nodes : pc'[m] = "cleaned" => pc[m] = "cleaned"
    BY <1>1, <2>1, ObjectStepNotCleaned
  <2> QED
    BY <1>1, <2>2, ServicesFrame DEF lbLocals
<1> QED
  BY <1>1, CallServices, ResultServices DEF Work

LEMMA NextServices ==
  ASSUME FreshInv, [Next]_vars, Unfailed',
         \A m \in Nodes : ServicesInv(m)
  PROVE  \A m \in Nodes : ServicesInv(m)'
<1>1. pc \in [Nodes -> Labels]
  BY DEF FreshInv, CtlInv, NrInv, ResourcesTypeOK
<1>2. CASE /\ UNCHANGED <<lb, todo, lbpc>>
           /\ \A m \in Nodes : pc'[m] = "cleaned" => pc[m] = "cleaned"
  BY <1>2, ServicesFrame
<1>3. ASSUME NEW n \in Nodes, Operator(n)
      PROVE  \A m \in Nodes : ServicesInv(m)'
  <2>1. CASE Forget(n) \/ AddFinalizer(n)
    BY <1>2, <2>1 DEF Forget, AddFinalizer, lbVars, lbLocals, nrVars
  <2>2. CASE Reconcile(n)
    BY <1>1, <1>2, <2>2
    DEF Reconcile, StartDeploy, StartDelete, Goto, lbVars
  <2>3. CASE RemoveFinalizer(n) \/ Finish(n)
    BY <1>1, <1>2, <2>3
    DEF RemoveFinalizer, Finish, Return, Goto, lbVars, lbLocals
  <2> QED
    BY <1>3, <2>1, <2>2, <2>3, WorkServices DEF Operator
<1>4. ASSUME NEW n \in Nodes,
             User(n) \/ WatchEvent(n) \/ LaggardCatchesUp(n)
      PROVE  \A m \in Nodes : ServicesInv(m)'
  BY <1>2, <1>4, OutsideNr DEF allVars, lbVars, nrVars
<1>5. CASE (Surroundings /\ UNCHANGED ctlVars) \/ UNCHANGED vars
  BY <1>2, <1>5
  DEF Surroundings, LbAddress, AssignIp, CacheCatchesUp, nrVars, vars, lbVars
<1>6. CASE Relist
  BY <1>2, <1>6, RelistOutside DEF allVars, lbVars, nrVars
<1>7. CASE Restart
  <2>1. /\ lb' = lb
        /\ \A n \in Nodes : pc'[n] = "idle" /\ lbpc'[n] = "idle"
    BY <1>7 DEF Restart, Crash, LbCrash
  <2>2. ASSUME NEW n \in Nodes PROVE lb'[n] # {} => Protected(n)'
    BY <2>1, ProtectionStays DEF ServicesInv
  <2> QED
    BY <2>1, <2>2 DEF ServicesInv, DeletePending
<1> QED
  BY <1>3, <1>4, <1>5, <1>6, <1>7 DEF Next

(* Failures are counted, and never taken back.                             *)
LEMMA FaultsGrow ==
  ASSUME FreshInv, [Next]_vars
  PROVE  faults \in Nat /\ faults' \in {faults, faults + 1}
<1>1. faults \in Nat
  BY LbAssumption DEF FreshInv, CtlInv, NrInv, LbInv, LbTypeOK
<1>2. CASE Fault \/ NoFault
  BY <1>1, <1>2 DEF Fault, NoFault
<1>3. CASE UNCHANGED lbVars
  BY <1>1, <1>3 DEF lbVars
<1>4. ASSUME NEW n \in Nodes, Operator(n)
      PROVE  faults' \in {faults, faults + 1}
  <2>1. CASE Forget(n) \/ Reconcile(n) \/ Finish(n)
    BY <1>3, <2>1 DEF Forget, Reconcile, Finish
  <2>2. CASE AddFinalizer(n) \/ RemoveFinalizer(n)
    BY <1>2, <2>2 DEF AddFinalizer, RemoveFinalizer
  <2>3. CASE Work(n)
    BY <1>2, <2>3, WorkFaults
  <2> QED
    BY <1>4, <2>1, <2>2, <2>3 DEF Operator
<1>5. ASSUME NEW n \in Nodes,
             User(n) \/ WatchEvent(n) \/ LaggardCatchesUp(n)
      PROVE  faults' \in {faults, faults + 1}
  BY <1>3, <1>5, OutsideNr DEF allVars
<1>6. CASE \/ Surroundings /\ UNCHANGED ctlVars
           \/ Restart \/ UNCHANGED vars
  BY <1>1, <1>6
  DEF Surroundings, LbAddress, AssignIp, CacheCatchesUp, Restart, Crash,
      LbCrash, vars, lbVars
<1>7. CASE Relist
  BY <1>3, <1>7, RelistOutside DEF allVars
<1> QED
  BY <1>1, <1>4, <1>5, <1>6, <1>7 DEF Next

ServicesKept == FreshInv /\ (Unfailed => \A n \in Nodes : ServicesInv(n))

LEMMA FreshLists ==
  ASSUME FreshInv, ~StaleLists
  PROVE  seen = NoCache
  BY DEF FreshInv, CtlInv, NrInv, LbInv, LbTypeOK

LEMMA ServicesNextInv ==
  ASSUME ServicesKept, [Next]_vars, ~StaleLists
  PROVE  ServicesKept'
<1>1. FreshInv'
  BY FreshNextInv DEF ServicesKept
<1>2. ASSUME Unfailed' PROVE \A n \in Nodes : ServicesInv(n)'
  <2>1. Unfailed
    BY <1>2, FaultsGrow, FreshLists DEF ServicesKept, Unfailed
  <2> QED
    BY <1>2, <2>1, NextServices DEF ServicesKept
<1> QED
  BY <1>1, <1>2 DEF ServicesKept

(* And so an object that is gone leaves no load balancer behind, if no     *)
(* request failed, however edits, restarts and the addresses of the cloud  *)
(* interleave with deploys and deletes.                                    *)
THEOREM NoServiceIsOrphaned ==
  ASSUME ~StaleLists
  PROVE  Spec => []NoLoadBalancerOrphaned
<1>1. CtlInit => ServicesKept
  <2>1. CtlInit => \A n \in Nodes : ServicesInv(n)
    BY DEF CtlInit, NrInit, LbInit, ServicesInv, DeletePending
  <2> QED
    BY <2>1, FreshInitInv DEF ServicesKept
<1>2. ServicesKept /\ [Next]_vars => ServicesKept'
  BY ServicesNextInv
<1>3. ServicesKept => NoLoadBalancerOrphaned
  BY FreshLists
  DEF ServicesKept, Unfailed, ServicesInv, Protected, NoLoadBalancerOrphaned
<1> QED
  BY <1>1, <1>2, <1>3, PTL DEF Spec

-----------------------------------------------------------------------------
(* What deploy and delete promise of a step, the controller keeps.         *)

(* It writes the objects of nodes only by the steps of its procedures.     *)
LEMMA NextWrites ==
  ASSUME [Next]_vars
  PROVE  UNCHANGED res \/ [NrNext]_allVars
<1>1. ASSUME NEW n \in Nodes, Operator(n)
      PROVE  UNCHANGED res \/ [NrNext]_allVars
  <2>1. CASE Forget(n) \/ AddFinalizer(n)
    BY <2>1 DEF Forget, AddFinalizer, nrVars
  <2>2. CASE Reconcile(n) \/ RemoveFinalizer(n) \/ Finish(n)
    BY <2>2
    DEF Reconcile, StartDeploy, StartDelete, RemoveFinalizer, Finish, Return
  <2>3. CASE Work(n)
    BY <2>3 DEF NrNext
  <2> QED
    BY <1>1, <2>1, <2>2, <2>3 DEF Operator
<1>2. ASSUME NEW n \in Nodes,
             User(n) \/ WatchEvent(n) \/ LaggardCatchesUp(n)
      PROVE  UNCHANGED res
  BY <1>2, OutsideNr DEF allVars, nrVars
<1>3. CASE \/ Surroundings /\ UNCHANGED ctlVars
           \/ Relist \/ Restart \/ UNCHANGED vars
  BY <1>3, RelistOutside
  DEF Surroundings, Restart, Crash, vars, allVars, nrVars
<1> QED
  BY <1>1, <1>2, <1>3 DEF Next

LEMMA NextIsLife ==
  ASSUME CtlInv, [Next]_vars
  PROVE  [Lifecycle!LifeNext]_<<Published, Assigned>>
<1>1. CASE UNCHANGED res
  BY <1>1 DEF Published, Assigned, Exists
<1>2. CASE [NrNext]_allVars
  BY <1>2, NrNextIsLife DEF CtlInv
<1> QED
  BY <1>1, <1>2, NextWrites

(* Also where users, reflector and finalizers decide what is deployed and  *)
(* deleted, lists that lag and restarts included, the objects of a node    *)
(* keep what NodeLifecycle promises of them: its StatefulSet mounts        *)
(* configs of the peers it publishes, as long as there is one.             *)
THEOREM ControllerFollowsLifecycle == Spec => FollowsLifecycle
<1>1. CtlInv /\ [Next]_vars
        => [Lifecycle!LifeNext]_<<Published, Assigned>>
  BY NextIsLife
<1>2. CtlInit => Lifecycle!LifeInit
  BY NrInitIsLife DEF CtlInit
<1> QED
  BY <1>1, <1>2, CtlInvariant, PTL
  DEF Spec, FollowsLifecycle, Lifecycle!LifeSpec

(* However an object is edited, scaled, deleted and created again, and     *)
(* whichever of its reconciliations act on a late copy, the identities of  *)
(* its node are never replaced while they exist.                           *)
THEOREM ControllerKeepsIdentities == Spec => IdentitiesStable
<1>1. CtlInv /\ [Next]_vars => [\A n \in Nodes : KeepsIdentities(n)]_allVars
  <2> SUFFICES ASSUME CtlInv, [Next]_vars, NEW n \in Nodes
      PROVE  KeepsIdentities(n)
    OBVIOUS
  <2>1. CASE UNCHANGED res
    BY <2>1 DEF KeepsIdentities
  <2>2. CASE [NrNext]_allVars
    BY <2>2, NrNextKeeps DEF CtlInv
  <2> QED
    BY <2>1, <2>2, NextWrites
<1>2. Spec => [][\A n \in Nodes : KeepsIdentities(n)]_allVars
  BY <1>1, CtlInvariant, PTL DEF Spec
<1> QED
  BY <1>2 DEF IdentitiesStable

(* And only its deletion, or its deploy with another number of replicas,   *)
(* takes a node that could be listed from the bootstrap lists: no retry,   *)
(* restart or late copy does.                                              *)
THEOREM ControllerKeepsLists == Spec => ListableKept
<1>1. CtlInv /\ [Next]_vars => [\A n \in Nodes : KeepsListable(n)]_allVars
  <2> SUFFICES ASSUME CtlInv, [Next]_vars, NEW n \in Nodes
      PROVE  KeepsListable(n)
    OBVIOUS
  <2>1. CASE UNCHANGED res
    BY <2>1, ListableFrame
  <2>2. CASE [NrNext]_allVars
    BY <2>2, NrNextListable DEF CtlInv
  <2> QED
    BY <2>1, <2>2, NextWrites
<1>2. Spec => [][\A n \in Nodes : KeepsListable(n)]_allVars
  BY <1>1, CtlInvariant, PTL DEF Spec
<1> QED
  BY <1>2 DEF ListableKept
=============================================================================
