------------------------ MODULE LoadBalancer_proofs ------------------------
(***************************************************************************)
(* Proofs about LoadBalancer, for any nodes, any replicas and any width of *)
(* a usize: the type invariant, and that a deployment only moves a node's  *)
(* services toward its spec.                                               *)
(***************************************************************************)
EXTENDS LoadBalancer, FiniteSetTheorems, TLAPS

(* The inductive invariant.  What a deployment still has to do lies        *)
(* entirely on one side of its target: the pending deletes at or above,    *)
(* the pending creations below.  This, not the count the lists gave, is    *)
(* what keeps TowardSpec.                                                  *)
PendingOnOneSide ==
  \A n \in Nodes :
    /\ lbpc[n] = "removing" => \A i \in todo[n] : i >= AsUsize(want[n])
    /\ lbpc[n] = "creating" => \A i \in todo[n] : i < AsUsize(want[n])

LbInv == LbTypeOK /\ PendingOnOneSide

-----------------------------------------------------------------------------
(* A usize is below its width: `as usize` of any i32 is a possible index   *)
(* bound.                                                                  *)
LEMMA AsUsizeBound ==
  ASSUME NEW r \in Int PROVE AsUsize(r) \in Nat /\ AsUsize(r) < UsizeMod
  BY LbAssumption DEF AsUsize

(* A list counts finitely many services.                                   *)
LEMMA LbCountNat ==
  ASSUME LbTypeOK PROVE LbCount \in Nat
<1>1. IsFiniteSet(Idx)
  BY FS_Interval, LbAssumption DEF Idx
<1>2. IsFiniteSet(Storage)
  BY FS_Subset, LbAssumption
<1>3. IsFiniteSet(Storage \X Idx)
  BY <1>1, <1>2, FS_Product
<1>4. IsFiniteSet(Counted)
  BY <1>3, FS_Subset DEF Counted
<1> QED
  BY <1>4, FS_CardinalityType DEF LbCount

-----------------------------------------------------------------------------
(* The initial states satisfy the invariant.                               *)
LEMMA LbInitInv == LbInit => LbInv
  BY LbAssumption DEF LbInit, LbInv, LbTypeOK, PendingOnOneSide, LbPhases

(* The decision of load_balancer::deploy establishes it.                   *)
LEMMA LbDeployInv ==
  ASSUME LbInv, NEW n \in Nodes, NEW r \in Int, LbDeploy(n, r)
  PROVE  LbInv'
<1>1. LbCount \in Nat
  BY LbCountNat DEF LbInv
<1>2. AsUsize(r) \in Nat
  BY AsUsizeBound
<1>3. LbTypeOK'
  <2>1. Excess(LbCount, AsUsize(r)) \subseteq Nat
    BY <1>1, <1>2 DEF Excess
  <2>2. Shortfall(LbCount, AsUsize(r)) \subseteq Nat
    BY <1>1, <1>2 DEF Shortfall
  <2> QED
    BY <2>1, <2>2, LbAssumption
    DEF LbInv, LbTypeOK, LbDeploy, LbStep, Fault, NoFault, LbPhases
<1>4. PendingOnOneSide'
  <2> SUFFICES ASSUME NEW m \in Nodes
      PROVE /\ lbpc'[m] = "removing"
                 => \A i \in todo'[m] : i >= AsUsize(want'[m])
            /\ lbpc'[m] = "creating"
                 => \A i \in todo'[m] : i < AsUsize(want'[m])
    BY DEF PendingOnOneSide, AsUsize
  <2>1. CASE m = n
    BY <2>1, <1>1, <1>2
    DEF LbInv, LbTypeOK, LbDeploy, LbStep, Excess, Shortfall
  <2>2. CASE m # n
    BY <2>2
    DEF LbInv, LbTypeOK, PendingOnOneSide, LbDeploy, LbStep
  <2> QED
    BY <2>1, <2>2
<1> QED
  BY <1>3, <1>4 DEF LbInv

(* So does each later step of a call, which only shrinks what is pending.  *)
LEMMA LbWorkInv ==
  ASSUME LbInv, NEW n \in Nodes, LbWork(n)
  PROVE  LbInv'
<1>1. ASSUME NEW i \in todo[n], RemoveService(n, i)
      PROVE  LbInv'
  BY <1>1, LbAssumption
  DEF LbInv, LbTypeOK, PendingOnOneSide, RemoveService, DropService,
      KeepServices, LbStep, While, Fault, NoFault, LbPhases, AsUsize
<1>2. ASSUME NEW i \in todo[n], CreateService(n, i)
      PROVE  LbInv'
  <2>1. i \in Idx
    <3>1. want[n] \in Int /\ i \in Nat
      BY DEF LbInv, LbTypeOK
    <3>2. i < AsUsize(want[n])
      BY <1>2 DEF LbInv, PendingOnOneSide, CreateService
    <3>3. AsUsize(want[n]) \in Nat /\ AsUsize(want[n]) < UsizeMod
      BY <3>1, AsUsizeBound
    <3> QED
      BY <3>1, <3>2, <3>3, LbAssumption DEF Idx
  <2> QED
    BY <1>2, <2>1, LbAssumption
    DEF LbInv, LbTypeOK, PendingOnOneSide, CreateService, AddService,
        KeepServices, LbStep, While, Fault, NoFault, LbPhases, AsUsize
<1>3. ASSUME NEW i \in todo[n], DeleteService(n, i)
      PROVE  LbInv'
  BY <1>3, LbAssumption
  DEF LbInv, LbTypeOK, PendingOnOneSide, DeleteService, DropService,
      KeepServices, LbStep, While, Fault, NoFault, LbPhases, AsUsize
<1>4. ASSUME WaitIps(n)
      PROVE  LbInv'
  BY <1>4, LbAssumption
  DEF LbInv, LbTypeOK, PendingOnOneSide, WaitIps, LbStep, Fault, NoFault,
      LbPhases, AsUsize
<1> QED
  BY <1>1, <1>2, <1>3, <1>4 DEF LbWork

(* And a deletion, which lists what exists.                                *)
LEMMA LbDeleteInv ==
  ASSUME LbInv, NEW n \in Nodes, LbDelete(n)
  PROVE  LbInv'
  BY LbAssumption
  DEF LbInv, LbTypeOK, PendingOnOneSide, LbDelete, Listed, LbStep, While,
      Fault, NoFault, LbPhases, AsUsize, Idx

(* The result of a call, the surroundings and a crash keep it.             *)
LEMMA LbReturnInv ==
  ASSUME LbInv, NEW n \in Nodes, LbReturn(n)
  PROVE  LbInv'
  BY DEF LbInv, LbTypeOK, PendingOnOneSide, LbReturn, LbStep, LbPhases,
         LbReturns, AsUsize

LEMMA LbAddressInv ==
  ASSUME LbInv, LbAddress
  PROVE  LbInv'
  BY DEF LbInv, LbTypeOK, PendingOnOneSide, LbAddress, AssignIp, AsUsize

LEMMA CacheCatchesUpInv ==
  ASSUME LbInv, CacheCatchesUp
  PROVE  LbInv'
  BY DEF LbInv, LbTypeOK, PendingOnOneSide, CacheCatchesUp, AsUsize

LEMMA LbCrashInv ==
  ASSUME LbInv, LbCrash
  PROVE  LbInv'
  BY LbAssumption
  DEF LbInv, LbTypeOK, PendingOnOneSide, LbCrash, LbPhases, AsUsize

LEMMA LbStutterInv ==
  ASSUME LbInv, UNCHANGED lbVars
  PROVE  LbInv'
  BY DEF LbInv, LbTypeOK, PendingOnOneSide, lbVars, AsUsize

(* Every step keeps the invariant.                                         *)
LEMMA LbNextInv == LbInv /\ [LbNext]_lbVars => LbInv'
<1> SUFFICES ASSUME LbInv, [LbNext]_lbVars PROVE LbInv'
  OBVIOUS
<1>1. ASSUME NEW n \in Nodes, NEW r \in Replicas, LbDeploy(n, r)
      PROVE  LbInv'
  BY <1>1, LbDeployInv, LbAssumption
<1>2. ASSUME NEW n \in Nodes, LbDelete(n) \/ LbWork(n) \/ LbReturn(n)
      PROVE  LbInv'
  BY <1>2, LbDeleteInv, LbWorkInv, LbReturnInv
<1>3. CASE LbAddress \/ CacheCatchesUp \/ LbCrash \/ UNCHANGED lbVars
  BY <1>3, LbAddressInv, CacheCatchesUpInv, LbCrashInv, LbStutterInv
<1> QED
  BY <1>1, <1>2, <1>3 DEF LbNext

THEOREM LbInvariant == LbSpec => []LbInv
  BY LbInitInv, LbNextInv, PTL DEF LbSpec

(* Type correctness of the load balancer calls.                            *)
THEOREM LbTypeCorrect == LbSpec => []LbTypeOK
  BY LbInvariant, PTL DEF LbInv

-----------------------------------------------------------------------------
(* What a step of a call may do to the services of a node.                 *)
TowardStep(n) ==
  /\ lb'[n] # lb[n] => lbpc[n] \in {"removing", "creating", "deleting"}
  /\ Deploying(n) =>
       LET wanted == 0 .. AsUsize(want[n]) - 1 IN
       /\ lb[n] \cap wanted \subseteq lb'[n]
       /\ lb'[n] \ lb[n] \subseteq wanted

(* A step that leaves the services of m alone is as it may be.             *)
LEMMA UntouchedToward ==
  ASSUME NEW m \in Nodes, lb'[m] = lb[m]
  PROVE  TowardStep(m)
  BY DEF TowardStep

(* A delete of the excess branch takes a service the spec does not ask     *)
(* for.                                                                    *)
LEMMA RemoveToward ==
  ASSUME LbInv, NEW n \in Nodes, NEW i \in todo[n], RemoveService(n, i),
         NEW m \in Nodes
  PROVE  TowardStep(m)
<1>1. CASE m = n
  <2>1. i >= AsUsize(want[n]) /\ i \in Nat /\ AsUsize(want[n]) \in Nat
    BY AsUsizeBound
    DEF LbInv, LbTypeOK, PendingOnOneSide, RemoveService
  <2>2. lb'[n] \subseteq lb[n] /\ lb[n] \subseteq lb'[n] \cup {i}
    BY DEF RemoveService, DropService, KeepServices, LbInv, LbTypeOK
  <2> QED
    BY <1>1, <2>1, <2>2 DEF TowardStep, RemoveService
<1>2. CASE m # n
  <2>1. lb'[m] = lb[m]
    BY <1>2 DEF RemoveService, DropService, KeepServices, LbInv, LbTypeOK
  <2> QED
    BY <2>1, UntouchedToward
<1> QED
  BY <1>1, <1>2

(* A creation makes one the spec asks for.                                 *)
LEMMA CreateToward ==
  ASSUME LbInv, NEW n \in Nodes, NEW i \in todo[n], CreateService(n, i),
         NEW m \in Nodes
  PROVE  TowardStep(m)
<1>1. CASE m = n
  <2>1. i < AsUsize(want[n]) /\ i \in Nat /\ AsUsize(want[n]) \in Nat
    BY AsUsizeBound
    DEF LbInv, LbTypeOK, PendingOnOneSide, CreateService
  <2>2. lb[n] \subseteq lb'[n] /\ lb'[n] \subseteq lb[n] \cup {i}
    BY DEF CreateService, AddService, KeepServices, LbInv, LbTypeOK
  <2> QED
    BY <1>1, <2>1, <2>2 DEF TowardStep, CreateService
<1>2. CASE m # n
  <2>1. lb'[m] = lb[m]
    BY <1>2 DEF CreateService, AddService, KeepServices, LbInv, LbTypeOK
  <2> QED
    BY <2>1, UntouchedToward
<1> QED
  BY <1>1, <1>2

(* A deletion is not a deployment, and touches its own node.               *)
LEMMA DeleteToward ==
  ASSUME LbInv, NEW n \in Nodes, NEW i \in todo[n], DeleteService(n, i),
         NEW m \in Nodes
  PROVE  TowardStep(m)
<1>1. CASE m = n
  BY <1>1 DEF TowardStep, DeleteService, Deploying
<1>2. CASE m # n
  <2>1. lb'[m] = lb[m]
    BY <1>2 DEF DeleteService, DropService, KeepServices, LbInv, LbTypeOK
  <2> QED
    BY <2>1, UntouchedToward
<1> QED
  BY <1>1, <1>2

(* Every other step leaves the services alone.                             *)
LEMMA LbNextToward ==
  ASSUME LbInv, [LbNext]_lbVars, NEW m \in Nodes
  PROVE  TowardStep(m)
<1>1. ASSUME NEW n \in Nodes, LbWork(n)
      PROVE  TowardStep(m)
  <2>1. ASSUME WaitIps(n) PROVE TowardStep(m)
    BY <2>1, UntouchedToward DEF WaitIps
  <2> QED
    BY <1>1, <2>1, RemoveToward, CreateToward, DeleteToward DEF LbWork
<1>2. CASE UNCHANGED lb
  BY <1>2, UntouchedToward
<1>3. ASSUME NEW n \in Nodes,
             (\E r \in Replicas : LbDeploy(n, r)) \/ LbDelete(n) \/ LbReturn(n)
      PROVE  UNCHANGED lb
  BY <1>3 DEF LbDeploy, LbDelete, LbReturn
<1>4. ASSUME LbAddress \/ CacheCatchesUp \/ LbCrash \/ UNCHANGED lbVars
      PROVE  UNCHANGED lb
  BY <1>4 DEF LbAddress, AssignIp, CacheCatchesUp, LbCrash, lbVars
<1> QED
  BY <1>1, <1>2, <1>3, <1>4 DEF LbNext

(* A deployment only moves services toward its spec, whatever its list     *)
(* counted: the services of other clusters, or a cache that lags.          *)
THEOREM DeployMovesTowardSpec == LbSpec => TowardSpec
<1>1. LbInv /\ [LbNext]_lbVars
        => [\A n \in Nodes : TowardStep(n)]_lbVars
  BY LbNextToward
<1>2. LbSpec => [][\A n \in Nodes : TowardStep(n)]_lbVars
  BY <1>1, LbInvariant, PTL DEF LbSpec
<1> QED
  BY <1>2 DEF TowardSpec, TowardStep

-----------------------------------------------------------------------------
(* The services of a sole storage cluster, while nothing failed: between   *)
(* calls an initial segment of the indices; during a call, that segment    *)
(* and what is pending.                                                    *)
Segment(n) ==
  LET target == AsUsize(want[n]) IN
  /\ lbpc[n] \in {"idle", "ready", "err", "deleted"}
       => \E k \in Nat : lb[n] = 0 .. k - 1
  /\ lbpc[n] = "deployed" => lb[n] = 0 .. target - 1
  /\ lbpc[n] = "creating"
       => \E k \in Nat : lb[n] = 0 .. k - 1 /\ todo[n] = k .. target - 1
  /\ lbpc[n] = "removing"
       => /\ lb[n] = (0 .. target - 1) \cup todo[n]
          /\ \A i \in todo[n] : i >= target
  /\ lbpc[n] = "deleting" => lb[n] = todo[n]

SegmentInv == \A n \in Nodes : Undisturbed(n) => Segment(n)

(* For a sole storage cluster the count of the list is the length of the   *)
(* segment.                                                                *)
LEMMA SoleCount ==
  ASSUME LbTypeOK, NEW n \in Nodes, Undisturbed(n),
         NEW k \in Nat, lb[n] = 0 .. k - 1
  PROVE  LbCount = k
<1>1. Counted = {n} \X (0 .. k - 1)
  BY DEF Counted, Listed, Undisturbed, LbTypeOK
<1>2. IsFiniteSet({n}) /\ Cardinality({n}) = 1
  BY FS_Singleton
<1>3. IsFiniteSet(0 .. k - 1) /\ Cardinality(0 .. k - 1) = k
  BY FS_Interval
<1>4. Cardinality({n} \X (0 .. k - 1)) = 1 * k
  BY <1>2, <1>3, FS_Product
<1> QED
  BY <1>1, <1>4 DEF LbCount

(* A cache that lags never turns into no cache.                            *)
LEMMA CacheStays ==
  ASSUME LbTypeOK, NEW n \in Nodes, CacheCatchesUp
  PROVE  seen # NoCache /\ seen' # NoCache
<1>1. seen # NoCache /\ seen' = lb
  BY DEF CacheCatchesUp
<1>2. DOMAIN lb = Nodes /\ DOMAIN NoCache = {}
  BY DEF LbTypeOK, NoCache
<1> QED
  BY <1>1, <1>2

LEMMA SeenBefore ==
  ASSUME LbInv, [LbNext]_lbVars, NEW n \in Nodes, seen' = NoCache
  PROVE  seen = NoCache
<1>1. CASE CacheCatchesUp
  BY <1>1, CacheStays DEF LbInv
<1>2. ASSUME NEW m \in Nodes,
             \/ \E r \in Replicas : LbDeploy(m, r)
             \/ LbDelete(m) \/ LbWork(m) \/ LbReturn(m)
      PROVE  seen' = seen
  BY <1>2 DEF LbDeploy, LbDelete, LbWork, RemoveService, CreateService,
              DeleteService, DropService, AddService, KeepServices, WaitIps,
              LbReturn
<1>3. CASE LbAddress \/ LbCrash \/ UNCHANGED lbVars
  BY <1>3 DEF LbAddress, AssignIp, LbCrash, lbVars
<1> QED
  BY <1>1, <1>2, <1>3 DEF LbNext

(* A step never undoes a failure or a crash.                               *)
LEMMA UndisturbedBefore ==
  ASSUME LbInv, [LbNext]_lbVars, NEW n \in Nodes, Undisturbed(n)'
  PROVE  Undisturbed(n) /\ faults' = faults /\ crashes' = crashes
<1>1. faults \in Nat /\ crashes \in Nat
  BY LbAssumption DEF LbInv, LbTypeOK
<1>2. ASSUME NEW m \in Nodes,
             \/ \E r \in Replicas : LbDeploy(m, r)
             \/ LbDelete(m) \/ LbWork(m)
      PROVE  faults' \in {faults, faults + 1} /\ crashes' = crashes
  BY <1>2 DEF LbDeploy, LbDelete, LbWork, RemoveService, CreateService,
              DeleteService, WaitIps, Fault, NoFault
<1>3. ASSUME NEW m \in Nodes, LbReturn(m)
      PROVE  faults' = faults /\ crashes' = crashes
  BY <1>3 DEF LbReturn
<1>4. ASSUME LbAddress \/ CacheCatchesUp \/ UNCHANGED lbVars
      PROVE  faults' = faults /\ crashes' = crashes
  BY <1>4 DEF LbAddress, AssignIp, CacheCatchesUp, lbVars
<1>5. ASSUME LbCrash
      PROVE  faults' = faults /\ crashes' = crashes + 1
  BY <1>5 DEF LbCrash
<1>6. faults' \in {faults, faults + 1} /\ crashes' \in {crashes, crashes + 1}
  BY <1>2, <1>3, <1>4, <1>5 DEF LbNext
<1> QED
  BY <1>1, <1>6, SeenBefore DEF Undisturbed

LEMMA DeploySegment ==
  ASSUME LbInv, NEW n \in Nodes, NEW r \in Int, LbDeploy(n, r),
         Undisturbed(n), Segment(n), faults' = faults
  PROVE  Segment(n)'
<1>1. PICK k \in Nat : lb[n] = 0 .. k - 1
  BY DEF Segment, LbDeploy
<1>2. LbCount = k
  BY <1>1, SoleCount DEF LbInv
<1>3. AsUsize(r) \in Nat
  BY AsUsizeBound
<1>4. want'[n] = r /\ lb'[n] = 0 .. k - 1
  BY <1>1 DEF LbDeploy, LbInv, LbTypeOK
<1>5. AsUsize(want[n])' = AsUsize(r)
  BY <1>4 DEF AsUsize
<1>6. \/ k > AsUsize(r) /\ lbpc'[n] = "removing"
         /\ todo'[n] = AsUsize(r) .. k - 1
      \/ k < AsUsize(r) /\ lbpc'[n] = "creating"
         /\ todo'[n] = k .. AsUsize(r) - 1
      \/ k = AsUsize(r) /\ lbpc'[n] = "deployed"
  BY <1>2 DEF LbDeploy, LbStep, Fault, Excess, Shortfall, LbInv, LbTypeOK
<1>7. CASE k > AsUsize(r) /\ lbpc'[n] = "removing"
           /\ todo'[n] = AsUsize(r) .. k - 1
  BY <1>3, <1>4, <1>5, <1>7 DEF Segment
<1>8. CASE k < AsUsize(r) /\ lbpc'[n] = "creating"
           /\ todo'[n] = k .. AsUsize(r) - 1
  BY <1>3, <1>4, <1>5, <1>8 DEF Segment
<1>9. CASE k = AsUsize(r) /\ lbpc'[n] = "deployed"
  BY <1>3, <1>4, <1>5, <1>9 DEF Segment
<1> QED
  BY <1>6, <1>7, <1>8, <1>9

LEMMA RemoveSegment ==
  ASSUME LbInv, NEW n \in Nodes, NEW i \in todo[n], RemoveService(n, i),
         Segment(n), faults' = faults
  PROVE  Segment(n)'
<1> DEFINE target == AsUsize(want[n])
<1>1. target \in Nat /\ want' = want /\ AsUsize(want[n])' = target
  BY AsUsizeBound DEF RemoveService, AsUsize, LbInv, LbTypeOK
<1>2. /\ lb[n] = (0 .. target - 1) \cup todo[n]
      /\ \A j \in todo[n] : j >= target
  BY DEF Segment, RemoveService
<1>3. lb'[n] = lb[n] \ {i} /\ todo'[n] = todo[n] \ {i}
      /\ lbpc'[n] = While("removing", todo[n] \ {i}, "deployed")
  BY DEF RemoveService, DropService, LbStep, Fault, LbInv, LbTypeOK
<1>4. i \notin 0 .. target - 1
  BY <1>1, <1>2
<1>5. lb'[n] = (0 .. target - 1) \cup todo'[n]
  BY <1>2, <1>3, <1>4
<1> QED
  BY <1>1, <1>2, <1>3, <1>5 DEF Segment, While

LEMMA CreateSegment ==
  ASSUME LbInv, NEW n \in Nodes, NEW i \in todo[n], CreateService(n, i),
         Segment(n), faults' = faults
  PROVE  Segment(n)'
<1> DEFINE target == AsUsize(want[n])
<1>1. target \in Nat /\ want' = want /\ AsUsize(want[n])' = target
  BY AsUsizeBound DEF CreateService, AsUsize, LbInv, LbTypeOK
<1>2. PICK k \in Nat : lb[n] = 0 .. k - 1 /\ todo[n] = k .. target - 1
  BY DEF Segment, CreateService
<1>3. i = k /\ k < target
  <2>1. i \in k .. target - 1
    BY <1>2
  <2>2. k \in k .. target - 1
    BY <1>1, <2>1
  <2>3. i <= k
    BY <1>2, <2>2 DEF CreateService
  <2> QED
    BY <1>1, <2>1, <2>3
<1>4. lb'[n] = lb[n] \cup {i} /\ todo'[n] = todo[n] \ {i}
      /\ lbpc'[n] = While("creating", todo[n] \ {i}, "deployed")
  BY DEF CreateService, AddService, LbStep, Fault, LbInv, LbTypeOK
<1>5. lb'[n] = 0 .. (k + 1) - 1
  BY <1>2, <1>3, <1>4
<1>6. todo'[n] = k + 1 .. target - 1
  BY <1>1, <1>2, <1>3, <1>4
<1>7. CASE todo'[n] = {}
  <2>1. k + 1 = target
    BY <1>1, <1>3, <1>6, <1>7
  <2> QED
    BY <1>1, <1>4, <1>5, <1>7, <2>1 DEF Segment, While
<1>8. CASE todo'[n] # {}
  <2>1. \E l \in Nat : lb'[n] = 0 .. l - 1 /\ todo'[n] = l .. target - 1
    BY <1>5, <1>6
  <2>2. lbpc'[n] = "creating"
    BY <1>4, <1>8 DEF While
  <2> QED
    BY <1>1, <2>1, <2>2 DEF Segment
<1> QED
  BY <1>7, <1>8

LEMMA DeleteSegment ==
  ASSUME LbInv, NEW n \in Nodes, Segment(n), faults' = faults,
         seen = NoCache,
         LbDelete(n) \/ \E i \in todo[n] : DeleteService(n, i)
  PROVE  Segment(n)'
<1>1. CASE LbDelete(n)
  <2>1. lb'[n] = lb[n] /\ todo'[n] = lb[n]
        /\ lbpc'[n] = While("deleting", lb[n], "deleted")
    BY <1>1 DEF LbDelete, Listed, LbStep, Fault, LbInv, LbTypeOK
  <2>2. lb[n] = {} => lb[n] = 0 .. 0 - 1
    OBVIOUS
  <2> QED
    BY <2>1, <2>2 DEF Segment, While
<1>2. ASSUME NEW i \in todo[n], DeleteService(n, i)
      PROVE  Segment(n)'
  <2>1. lb'[n] = lb[n] \ {i} /\ todo'[n] = todo[n] \ {i} /\ lb[n] = todo[n]
        /\ lbpc'[n] = While("deleting", todo[n] \ {i}, "deleted")
    BY <1>2 DEF DeleteService, DropService, LbStep, Fault, LbInv, LbTypeOK,
                Segment
  <2>2. lb'[n] = {} => lb'[n] = 0 .. 0 - 1
    OBVIOUS
  <2> QED
    BY <2>1, <2>2 DEF Segment, While
<1> QED
  BY <1>1, <1>2

LEMMA WaitReturnSegment ==
  ASSUME LbInv, NEW n \in Nodes, Segment(n), WaitIps(n) \/ LbReturn(n)
  PROVE  Segment(n)'
<1>1. CASE WaitIps(n)
  <2>1. AsUsize(want[n]) \in Nat
    BY AsUsizeBound DEF LbInv, LbTypeOK
  <2>2. lb'[n] = 0 .. AsUsize(want[n]) - 1 /\ lbpc'[n] \in {"ready", "err"}
    BY <1>1 DEF WaitIps, LbStep, Segment, LbInv, LbTypeOK
  <2> QED
    BY <2>1, <2>2 DEF Segment
<1>2. CASE LbReturn(n)
  <2>1. lb'[n] = lb[n] /\ lbpc'[n] = "idle"
        /\ lbpc[n] \in {"idle", "ready", "err", "deleted"}
    BY <1>2 DEF LbReturn, LbReturns, LbStep, LbInv, LbTypeOK
  <2> QED
    BY <2>1 DEF Segment
<1> QED
  BY <1>1, <1>2

(* What a call of another node, or nobody's call, does not touch.          *)
LEMMA KeptSegment ==
  ASSUME NEW n \in Nodes, Segment(n), lb'[n] = lb[n], lbpc'[n] = lbpc[n],
         want'[n] = want[n], todo'[n] = todo[n]
  PROVE  Segment(n)'
  BY DEF Segment, AsUsize

LEMMA OtherSegment ==
  ASSUME LbInv, NEW m \in Nodes, NEW n \in Nodes, m # n, Segment(n),
         \/ \E r \in Replicas : LbDeploy(m, r)
         \/ LbDelete(m) \/ LbWork(m) \/ LbReturn(m)
  PROVE  Segment(n)'
<1>1. lb'[n] = lb[n] /\ lbpc'[n] = lbpc[n]
  BY DEF LbDeploy, LbDelete, LbWork, LbReturn, RemoveService, CreateService,
         DeleteService, WaitIps, DropService, AddService, KeepServices,
         LbStep, LbInv, LbTypeOK
<1>2. want'[n] = want[n] /\ todo'[n] = todo[n]
  BY DEF LbDeploy, LbDelete, LbWork, LbReturn, RemoveService, CreateService,
         DeleteService, WaitIps, LbStep, LbInv, LbTypeOK
<1> QED
  BY <1>1, <1>2, KeptSegment

(* Every step keeps the segment.                                           *)
LEMMA LbNextSegment ==
  LbInv /\ SegmentInv /\ [LbNext]_lbVars => SegmentInv'
<1> SUFFICES ASSUME LbInv, SegmentInv, [LbNext]_lbVars,
                    NEW n \in Nodes, Undisturbed(n)'
             PROVE  Segment(n)'
  BY DEF SegmentInv
<1>1. Undisturbed(n) /\ faults' = faults /\ crashes' = crashes
  BY UndisturbedBefore
<1>2. Segment(n)
  BY <1>1 DEF SegmentInv
<1>3. ASSUME NEW m \in Nodes,
             \/ \E r \in Replicas : LbDeploy(m, r)
             \/ LbDelete(m) \/ LbWork(m) \/ LbReturn(m)
      PROVE  Segment(n)'
  <2>1. CASE m # n
    BY <1>2, <1>3, <2>1, OtherSegment
  <2>2. CASE m = n /\ \E r \in Replicas : LbDeploy(m, r)
    BY <1>1, <1>2, <2>2, DeploySegment, LbAssumption
  <2>3. CASE m = n /\ LbWork(m)
    BY <1>1, <1>2, <2>3, RemoveSegment, CreateSegment, DeleteSegment,
       WaitReturnSegment
    DEF LbWork, Undisturbed
  <2>4. CASE m = n /\ (LbDelete(m) \/ LbReturn(m))
    BY <1>1, <1>2, <2>4, DeleteSegment, WaitReturnSegment DEF Undisturbed
  <2> QED
    BY <1>3, <2>1, <2>2, <2>3, <2>4
<1>4. CASE LbCrash
  BY <1>1, <1>4 DEF LbCrash, LbInv, LbTypeOK
<1>5. CASE LbAddress \/ CacheCatchesUp \/ UNCHANGED lbVars
  BY <1>2, <1>5, KeptSegment
  DEF LbAddress, AssignIp, CacheCatchesUp, lbVars
<1> QED
  BY <1>3, <1>4, <1>5 DEF LbNext

LEMMA LbInitSegment == LbInit => SegmentInv
<1> SUFFICES ASSUME LbInit, NEW n \in Nodes PROVE Segment(n)
  BY DEF SegmentInv
<1>1. lb[n] = 0 .. 0 - 1 /\ lbpc[n] = "idle"
  BY DEF LbInit
<1> QED
  BY <1>1 DEF Segment

(* Undisturbed, load_balancer::deploy returns Ok with exactly the services *)
(* 0..replicas of the sole storage cluster, whatever its history.          *)
THEOREM ExactDeployment == LbSpec => []ExactWhenSole
<1>1. LbSpec => []SegmentInv
  BY LbInitSegment, LbNextSegment, LbInvariant, PTL DEF LbSpec
<1>2. SegmentInv => ExactWhenSole
  BY DEF SegmentInv, Undisturbed, Segment, ExactWhenSole
<1> QED
  BY <1>1, <1>2, PTL

-----------------------------------------------------------------------------
(* While no request failed, what a deletion has not deleted is pending.    *)
Unfailed == faults = 0 /\ seen = NoCache

DeletePending(n) ==
  /\ lbpc[n] = "deleting" => lb[n] \subseteq todo[n]
  /\ lbpc[n] = "deleted" => lb[n] = {}

(* A step of a call of m leaves no failure out of account, and keeps what  *)
(* is pending of any n.                                                    *)
CallStep(m) ==
  (\E r \in Int : LbDeploy(m, r)) \/ LbDelete(m) \/ LbWork(m) \/ LbReturn(m)

LEMMA CallUnfailed ==
  ASSUME LbInv, NEW m \in Nodes, CallStep(m), Unfailed'
  PROVE  Unfailed /\ faults' = faults
<1>1. faults \in Nat
  BY LbAssumption DEF LbInv, LbTypeOK
<1>2. faults' \in {faults, faults + 1} /\ seen' = seen
  BY <1>1
  DEF CallStep, LbDeploy, LbDelete, LbWork, RemoveService, CreateService,
      DeleteService, WaitIps, LbReturn, Fault, NoFault
<1> QED
  BY <1>1, <1>2 DEF Unfailed

LEMMA CallDeletePending ==
  ASSUME LbInv, NEW m \in Nodes, CallStep(m), Unfailed',
         NEW n \in Nodes, DeletePending(n)
  PROVE  DeletePending(n)'
<1>1. Unfailed /\ faults' = faults /\ faults \in Nat
  BY CallUnfailed, LbAssumption DEF LbInv, LbTypeOK
<1>2. ASSUME \E r \in Int : LbDeploy(m, r) PROVE DeletePending(n)'
  BY <1>1, <1>2 DEF LbDeploy, LbStep, DeletePending, LbInv, LbTypeOK
<1>3. ASSUME LbDelete(m) PROVE DeletePending(n)'
  BY <1>1, <1>3
  DEF LbDelete, Listed, LbStep, While, Fault, NoFault, Unfailed,
      DeletePending, LbInv, LbTypeOK
<1>4. ASSUME NEW i \in todo[m], RemoveService(m, i) PROVE DeletePending(n)'
  BY <1>1, <1>4
  DEF RemoveService, DropService, LbStep, While, Fault, NoFault,
      DeletePending, LbInv, LbTypeOK
<1>5. ASSUME NEW i \in todo[m], CreateService(m, i) PROVE DeletePending(n)'
  BY <1>1, <1>5
  DEF CreateService, AddService, LbStep, While, Fault, NoFault,
      DeletePending, LbInv, LbTypeOK
<1>6. ASSUME NEW i \in todo[m], DeleteService(m, i) PROVE DeletePending(n)'
  BY <1>1, <1>6
  DEF DeleteService, DropService, LbStep, While, Fault, NoFault,
      DeletePending, LbInv, LbTypeOK
<1>7. ASSUME WaitIps(m) \/ LbReturn(m) PROVE DeletePending(n)'
  BY <1>1, <1>7
  DEF WaitIps, LbReturn, LbStep, DeletePending, LbInv, LbTypeOK
<1> QED
  BY <1>2, <1>3, <1>4, <1>5, <1>6, <1>7 DEF CallStep, LbWork

DeletePendingInv == Unfailed => \A n \in Nodes : DeletePending(n)

LEMMA LbNextDeletePending ==
  LbInv /\ DeletePendingInv /\ [LbNext]_lbVars => DeletePendingInv'
<1> SUFFICES ASSUME LbInv, DeletePendingInv, [LbNext]_lbVars, Unfailed',
                    NEW n \in Nodes
             PROVE  DeletePending(n)'
  BY DEF DeletePendingInv
<1>1. ASSUME NEW m \in Nodes,
             \/ \E r \in Replicas : LbDeploy(m, r)
             \/ LbDelete(m) \/ LbWork(m) \/ LbReturn(m)
      PROVE  DeletePending(n)'
  <2>1. CallStep(m)
    BY <1>1, LbAssumption DEF CallStep
  <2> QED
    BY <2>1, CallUnfailed, CallDeletePending DEF DeletePendingInv
<1>2. CASE LbAddress \/ CacheCatchesUp \/ LbCrash \/ UNCHANGED lbVars
  <2>1. seen = NoCache
    BY SeenBefore DEF Unfailed
  <2> QED
    BY <1>2, <2>1
    DEF LbAddress, AssignIp, CacheCatchesUp, LbCrash, lbVars, Unfailed,
        DeletePendingInv, DeletePending
<1> QED
  BY <1>1, <1>2 DEF LbNext

(* A deletion that returned Ok leaves no service when no request failed,   *)
(* however often the operator died before.                                 *)
THEOREM CompleteDeletion == LbSpec => []DeleteComplete
<1>1. LbInit => DeletePendingInv
  BY DEF LbInit, DeletePendingInv, DeletePending
<1>2. LbSpec => []DeletePendingInv
  BY <1>1, LbNextDeletePending, LbInvariant, PTL DEF LbSpec
<1>3. DeletePendingInv => DeleteComplete
  BY DEF DeletePendingInv, DeletePending, DeleteComplete, Unfailed
<1> QED
  BY <1>2, <1>3, PTL
=============================================================================
