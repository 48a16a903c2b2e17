---------------------------- MODULE Rollout_proofs ----------------------------
(***************************************************************************)
(* Proofs about Rollout, for any nodes, replicas, failures and stale       *)
(* lists: whatever the two operators did to the objects of a node while    *)
(* both ran, one call of the new one, alone, to a good end mends it.       *)
(***************************************************************************)
EXTENDS Rollout, NodeCalls_proofs

(* The lemmas of NodeCalls_proofs about the calls of the old operator.     *)
OldP == INSTANCE NodeCalls_proofs WITH
          pc <- pcOld, spec <- specOld, ids <- idsOld, boot <- bootOld,
          pos <- posOld, lbpc <- lbpcOld, want <- wantOld, todo <- todoOld

(* The inductive invariant.  Of the calls of either operator only their    *)
(* place is known while both run; a call that began after the old one was  *)
(* gone makes its own progress; and once one came to a good end the node   *)
(* is as NodeResources has it for one operator.                            *)
NewPhase(n) ==
  /\ phase[n] # "overlap" => ~alive /\ ServicesGone(n)
  /\ phase[n] = "alone" => OwnProgress(n)
  /\ phase[n] = "settled" => NodeInv(n)

RollInv ==
  /\ Typed
  /\ OldP!Typed
  /\ phase \in [Nodes -> Phases]
  /\ alive \in BOOLEAN
  /\ \A n \in Nodes :
       Written(n) /\ InPlace(n) /\ OldP!InPlace(n) /\ NewPhase(n)

-----------------------------------------------------------------------------
(* Both instances say the same of a step of the old operator.              *)

LEMMA OldObjectStep ==
  ASSUME NEW n \in Nodes, Old!ObjectStep(n)
  PROVE  OldP!ObjectStep(n)
<1> USE DEF Old!Apply, OldP!Apply, Old!Read, OldP!Read, Old!Fail, OldP!Fail,
            Old!Goto, OldP!Goto, Old!Put, OldP!Put, Old!Fault,
            OldP!Fault, Old!NoFault, OldP!NoFault, Old!Exists,
            OldP!Exists, Old!HasData, OldP!HasData, Old!Object,
            OldP!Object, Old!Plain, OldP!Plain, Old!nrLocals,
            OldP!nrLocals
<1>1. Old!GetPeerInfo(n) => OldP!GetPeerInfo(n)
  BY DEF Old!GetPeerInfo, OldP!GetPeerInfo, Old!GetSecret, OldP!GetSecret
<1>2. Old!PutPeerInfo(n) => OldP!PutPeerInfo(n)
  BY DEF Old!PutPeerInfo, OldP!PutPeerInfo, Old!PutSecret, OldP!PutSecret,
         Old!NewKeys, OldP!NewKeys
<1>3. Old!GetClusterSecret(n) => OldP!GetClusterSecret(n)
  BY DEF Old!GetClusterSecret, OldP!GetClusterSecret, Old!GetSecret,
         OldP!GetSecret
<1>4. Old!PutClusterSecret(n) => OldP!PutClusterSecret(n)
  BY DEF Old!PutClusterSecret, OldP!PutClusterSecret, Old!PutSecret,
         OldP!PutSecret, Old!NewKeys, OldP!NewKeys
<1>5. Old!CopyScripts(n) => OldP!CopyScripts(n)
  BY DEF Old!CopyScripts, OldP!CopyScripts
<1>6. Old!GetIdentities(n) => OldP!GetIdentities(n)
  BY DEF Old!GetIdentities, OldP!GetIdentities
<1>7. Old!PutIdentities(n) => OldP!PutIdentities(n)
  BY DEF Old!PutIdentities, OldP!PutIdentities, Old!Count, OldP!Count, Old!Pods,
         OldP!Pods, Old!Cardinality, OldP!Cardinality
<1>8. Old!PutAddresses(n) => OldP!PutAddresses(n)
  BY DEF Old!PutAddresses, OldP!PutAddresses, Old!Count, OldP!Count, Old!Pods,
         OldP!Pods, Old!Cardinality, OldP!Cardinality
<1>9. Old!GetBootIdentities(n) => OldP!GetBootIdentities(n)
  BY DEF Old!GetBootIdentities, OldP!GetBootIdentities
<1>10. Old!GetBootAddresses(n) => OldP!GetBootAddresses(n)
  BY DEF Old!GetBootAddresses, OldP!GetBootAddresses
<1>11. Old!PutConfigs(n) => OldP!PutConfigs(n)
  BY DEF Old!PutConfigs, OldP!PutConfigs, Old!Configurable, OldP!Configurable,
         Old!BootKey, OldP!BootKey, Old!Count, OldP!Count, Old!Pods,
         OldP!Pods, Old!Cardinality, OldP!Cardinality
<1>12. Old!PutStatefulSet(n) => OldP!PutStatefulSet(n)
  BY DEF Old!PutStatefulSet, OldP!PutStatefulSet
<1>13. Old!DeleteObject(n) => OldP!DeleteObject(n)
  BY DEF Old!DeleteObject, OldP!DeleteObject, Old!DeleteOrder, OldP!DeleteOrder
<1> QED
  BY <1>1, <1>2, <1>3, <1>4, <1>5, <1>6, <1>7, <1>8, <1>9, <1>10, <1>11,
     <1>12, <1>13
  DEF Old!ObjectStep, OldP!ObjectStep

LEMMA OldWork ==
  ASSUME NEW n \in Nodes, Old!Work(n)
  PROVE  OldP!Work(n)
<1> USE DEF Old!LbStep, OldP!LbStep, Old!While, OldP!While, Old!Fault, OldP!Fault,
            Old!NoFault, OldP!NoFault, Old!Listed, OldP!Listed,
            Old!NoCache, OldP!NoCache, Old!nrVars, OldP!nrVars
<1>1. Old!CallLbDeploy(n) => OldP!CallLbDeploy(n)
  BY DEF Old!CallLbDeploy, OldP!CallLbDeploy, Old!LbDeploy, OldP!LbDeploy,
         Old!AsUsize, OldP!AsUsize, Old!LbCount, OldP!LbCount,
         Old!Cardinality, OldP!Cardinality, Old!Counted, OldP!Counted,
         Old!Idx, OldP!Idx, Old!Excess, OldP!Excess, Old!Shortfall,
         OldP!Shortfall
<1>2. Old!CallLbDelete(n) => OldP!CallLbDelete(n)
  BY DEF Old!CallLbDelete, OldP!CallLbDelete, Old!LbDelete, OldP!LbDelete
<1>3. Old!LbWork(n) => OldP!LbWork(n)
  BY DEF Old!LbWork, OldP!LbWork, Old!RemoveService, OldP!RemoveService,
         Old!CreateService, OldP!CreateService, Old!DeleteService,
         OldP!DeleteService, Old!WaitIps, OldP!WaitIps, Old!DropService,
         OldP!DropService, Old!AddService, OldP!AddService,
         Old!KeepServices, OldP!KeepServices, Old!Pods, OldP!Pods
<1>4. Old!LbResult(n) => OldP!LbResult(n)
  BY DEF Old!LbResult, OldP!LbResult, Old!LbReturn, OldP!LbReturn, Old!LbReturns,
         OldP!LbReturns, Old!AfterLb, OldP!AfterLb, Old!Goto, OldP!Goto,
         Old!nrLocals, OldP!nrLocals
<1>5. UNCHANGED Old!lbLocals => UNCHANGED OldP!lbLocals
  BY DEF Old!lbLocals, OldP!lbLocals
<1> QED
  BY <1>1, <1>2, <1>3, <1>4, <1>5, OldObjectStep DEF Old!Work, OldP!Work

LEMMA OldBoundary ==
  ASSUME NEW n \in Nodes,
         CallsOld(n) \/ (Old!Return(n) /\ UNCHANGED oldLbVars)
  PROVE  /\ UNCHANGED OldP!lbVars
         /\ \/ (\E r \in Replicas : OldP!StartDeploy(n, r))
            \/ OldP!StartDelete(n) \/ OldP!Return(n)
  BY DEF CallsOld, oldLbVars, OldP!lbVars,
         Old!StartDeploy, OldP!StartDeploy, Old!StartDelete, OldP!StartDelete,
         Old!Return, OldP!Return, Old!Results, OldP!Results, Old!Goto,
         OldP!Goto, Old!nrLocals, OldP!nrLocals, Old!Empty, OldP!Empty,
         Old!Plain, OldP!Plain, Old!Object, OldP!Object

(* And of the objects, which they share.                                   *)
LEMMA WrittenByEither ==
  ASSUME NEW n
  PROVE  (Written(n) <=> OldP!Written(n)) /\ (Written(n)' <=> OldP!Written(n)')
<1>1. Written(n) <=> OldP!Written(n)
  BY DEF Written, Exists, OldP!Written, OldP!Exists
<1>2. Written(n)' <=> OldP!Written(n)'
  BY DEF Written, Exists, OldP!Written, OldP!Exists
<1> QED
  BY <1>1, <1>2

(* What the lemmas about either assume of the constants is the same.       *)
LEMMA OldAssumptions ==
  /\ OldP!IsFiniteSet(Nodes)
  /\ None \notin OldP!Objects
<1>1. OldP!IsFiniteSet(Nodes)
  BY LbAssumption DEF IsFiniteSet, OldP!IsFiniteSet
<1>2. None \notin OldP!Objects
  BY NoneAssumption DEF Objects, OldP!Objects
<1> QED
  BY <1>1, <1>2

-----------------------------------------------------------------------------
(* What the two share keeps its type for both.                             *)

LEMMA TypedForOld ==
  ASSUME OldP!Typed, Typed', UNCHANGED oldVars
  PROVE  OldP!Typed'
<1>1. OldP!LbInv'
  BY DEF Typed, LbInv, LbTypeOK, OldP!Typed, OldP!LbInv, OldP!LbTypeOK,
         OldP!PendingOnOneSide, OldP!AsUsize, oldVars, Idx, OldP!Idx,
         LbPhases, OldP!LbPhases, NoCache, OldP!NoCache
<1>2. OldP!ResourcesTypeOK'
  BY DEF Typed, ResourcesTypeOK, OldP!Typed, OldP!ResourcesTypeOK, oldVars,
         Kinds, OldP!Kinds, Objects, OldP!Objects, Labels, OldP!Labels
<1> QED
  BY <1>1, <1>2 DEF OldP!Typed

LEMMA TypedForNew ==
  ASSUME Typed, OldP!Typed', UNCHANGED newVars
  PROVE  Typed'
<1>1. LbInv'
  BY DEF Typed, LbInv, LbTypeOK, OldP!Typed, OldP!LbInv, OldP!LbTypeOK,
         PendingOnOneSide, AsUsize, newVars, Idx, OldP!Idx,
         LbPhases, OldP!LbPhases, NoCache, OldP!NoCache
<1>2. ResourcesTypeOK'
  BY DEF Typed, ResourcesTypeOK, OldP!Typed, OldP!ResourcesTypeOK, newVars,
         nrLocals, Kinds, OldP!Kinds, Objects, OldP!Objects
<1> QED
  BY <1>1, <1>2 DEF Typed

(* The place of a call is that of its own locals.                          *)
LEMMA InPlaceFrame ==
  ASSUME NEW m, InPlace(m), pc'[m] = pc[m], pos'[m] = pos[m],
         lbpc'[m] = lbpc[m]
  PROVE  InPlace(m)'
  BY DEF InPlace, DeleteOrder, LbPhasesOf, StorageLabels

LEMMA OldInPlaceFrame ==
  ASSUME NEW m, OldP!InPlace(m), pcOld'[m] = pcOld[m], posOld'[m] = posOld[m],
         lbpcOld'[m] = lbpcOld[m]
  PROVE  OldP!InPlace(m)'
  BY DEF OldP!InPlace, OldP!DeleteOrder, OldP!LbPhasesOf, OldP!StorageLabels

-----------------------------------------------------------------------------
(* What the old operator does disturbs no call that is said to progress.   *)

LEMMA LingerInv ==
  ASSUME RollInv, NEW n \in Nodes, Linger(n)
  PROVE  RollInv'
<1>1. /\ Typed /\ OldP!Typed /\ alive
      /\ \A m \in Nodes :
           Written(m) /\ InPlace(m) /\ OldP!InPlace(m) /\ NewPhase(m)
      /\ UNCHANGED <<newVars, alive, phase>>
  BY DEF RollInv, Linger
<1>2. OldP!Control(n)
  BY <1>1, WrittenByEither DEF OldP!Control
<1>3. OldP!Control(n)' /\ OldP!OnlyNode(n)
  <2>1. CASE Old!Work(n)
    <3>1. OldP!Work(n)
      BY <2>1, OldWork
    <3> QED
      BY <1>2, <3>1, OldP!WorkControl, LbAssumption, NrAssumption,
         OldAssumptions
      DEF OldP!WorkControl
  <2>2. CASE CallsOld(n) \/ (Old!Return(n) /\ UNCHANGED oldLbVars)
    <3>1. /\ UNCHANGED OldP!lbVars
          /\ \/ (\E r \in Replicas : OldP!StartDeploy(n, r))
             \/ OldP!StartDelete(n) \/ OldP!Return(n)
      BY <2>2, OldBoundary
    <3> QED
      BY <1>2, <3>1, OldP!StartControl, OldP!ReturnControl, LbAssumption,
         NrAssumption, OldAssumptions
      DEF OldP!StartControl, OldP!ReturnControl
  <2> QED
    BY <2>1, <2>2 DEF Linger
<1>4. OldP!Typed' /\ Typed'
  BY <1>1, <1>3, TypedForNew DEF OldP!Control
<1>5. ASSUME NEW m \in Nodes
      PROVE  Written(m)' /\ InPlace(m)' /\ OldP!InPlace(m)' /\ NewPhase(m)'
  <2>1. InPlace(m)'
    BY <1>1, InPlaceFrame DEF newVars, nrLocals
  <2>2. NewPhase(m)'
    BY <1>1 DEF NewPhase
  <2>3. Written(m)' /\ OldP!InPlace(m)'
    <3>1. CASE m = n
      BY <1>3, <3>1, WrittenByEither DEF OldP!Control
    <3>2. CASE m # n
      <4>1. /\ res'[m] = res[m] /\ pcOld'[m] = pcOld[m]
            /\ posOld'[m] = posOld[m] /\ lbpcOld'[m] = lbpcOld[m]
        BY <1>3, <3>2 DEF OldP!OnlyNode
      <4> QED
        BY <1>1, <4>1, SameWritten, OldInPlaceFrame
    <3> QED
      BY <3>1, <3>2
  <2> QED
    BY <2>1, <2>2, <2>3
<1> QED
  BY <1>1, <1>4, <1>5 DEF RollInv

-----------------------------------------------------------------------------
(* The steps of the new operator.                                          *)

LEMMA ControlOf == ASSUME RollInv, NEW n \in Nodes PROVE Control(n)
  BY DEF RollInv, Control

(* A step of n leaves what is said of another node.                        *)
LEMMA OtherPhase ==
  ASSUME RollInv, NEW n \in Nodes, OnlyNode(n), NEW m \in Nodes \ {n},
         alive' = alive, phase'[m] = phase[m], ServicesGone(m) => ServicesGone(m)'
  PROVE  NewPhase(m)'
<1>1. /\ NewPhase(m) /\ pos[m] \in 1 .. 7 /\ lbpc[m] \in LbPhasesOf(pc[m])
  BY DEF RollInv, Typed, ResourcesTypeOK, InPlace
<1>2. /\ \A k \in Kinds : res'[m][k] = res[m][k]
      /\ pc'[m] = pc[m] /\ spec'[m] = spec[m] /\ ids'[m] = ids[m]
      /\ pos'[m] = pos[m] /\ lbpc'[m] = lbpc[m]
  BY DEF OnlyNode
<1>3. NodeInv(m) => NodeInv(m)'
  BY <1>1, <1>2, NodeFrame
<1>4. OwnProgress(m) => OwnProgress(m)'
  BY <1>1, <1>2, OwnFrame
<1> QED
  BY <1>1, <1>3, <1>4 DEF NewPhase

(* It is enough to look at n.                                              *)
LEMMA NewStepInv ==
  ASSUME RollInv, NEW n \in Nodes, Control(n)', OnlyNode(n),
         UNCHANGED <<oldVars, alive>>,
         phase' \in [Nodes -> Phases], NewPhase(n)',
         \A m \in Nodes \ {n} : phase'[m] = phase[m],
         \A m \in Nodes \ {n} : ServicesGone(m) => ServicesGone(m)'
  PROVE  RollInv'
<1>1. Typed' /\ OldP!Typed'
  BY TypedForOld DEF RollInv, Control
<1>2. ASSUME NEW m \in Nodes
      PROVE  Written(m)' /\ InPlace(m)' /\ OldP!InPlace(m)' /\ NewPhase(m)'
  <2>1. OldP!InPlace(m)'
    BY OldInPlaceFrame DEF RollInv, oldVars
  <2>2. CASE m = n
    BY <2>1, <2>2 DEF Control
  <2>3. CASE m # n
    <3>1. /\ Written(m) /\ InPlace(m) /\ \A k \in Kinds : res'[m][k] = res[m][k]
          /\ pc'[m] = pc[m] /\ pos'[m] = pos[m] /\ lbpc'[m] = lbpc[m]
      BY <2>3 DEF RollInv, OnlyNode
    <3>2. Written(m)' /\ InPlace(m)'
      BY <3>1, ControlFrame
    <3>3. NewPhase(m)'
      BY <2>3, OtherPhase
    <3> QED
      BY <2>1, <3>2, <3>3
  <2> QED
    BY <2>2, <2>3
<1> QED
  BY <1>1, <1>2 DEF RollInv

(* A call begins: what others left of the node does not matter to it.      *)
LEMMA BeginInv ==
  ASSUME RollInv, NEW n \in Nodes, Begin(n)
  PROVE  RollInv'
<1> DEFINE starts == (\E r \in Replicas : StartDeploy(n, r)) \/ StartDelete(n)
<1>1. /\ UNCHANGED lbVars /\ starts
      /\ UNCHANGED <<oldVars, alive>>
      /\ phase' = [phase EXCEPT ![n] =
           IF @ = "settled" THEN @ ELSE IF alive THEN "overlap" ELSE "alone"]
  BY DEF Begin, Calls
<1>2. Control(n) /\ NewPhase(n) /\ phase \in [Nodes -> Phases]
  BY ControlOf DEF RollInv
<1>3. Control(n)' /\ OnlyNode(n)
  BY <1>1, <1>2, StartControl
<1>4. /\ phase' \in [Nodes -> Phases]
      /\ \A m \in Nodes \ {n} : phase'[m] = phase[m]
      /\ phase'[n] = IF phase[n] = "settled" THEN "settled"
                     ELSE IF alive THEN "overlap" ELSE "alone"
  BY <1>1, <1>2 DEF Phases
<1>5. \A m \in Nodes \ {n} : ServicesGone(m) => ServicesGone(m)'
  BY <1>1, <1>3, ServicesGoneFrame DEF OnlyNode, Unfailed, lbVars, NoCache
<1>6. NewPhase(n)'
  <2>1. ServicesGone(n)'
    BY <1>1, <1>2, BoundaryServicesGone
  <2>2. OwnProgress(n)'
    BY <1>1, <1>2, StartOwn
  <2>3. phase[n] = "settled" => NodeInv(n)'
    <3>1. phase[n] = "settled" => StepInv(n)
      BY <1>2 DEF NewPhase, Control, Typed, StepInv
    <3> QED
      BY <1>1, <3>1, NodeStartInv DEF StepInv
  <2> QED
    BY <1>1, <1>2, <1>4, <2>1, <2>2, <2>3 DEF NewPhase
<1> QED
  BY <1>1, <1>3, <1>4, <1>5, <1>6, NewStepInv

(* A call goes on, or ends.                                                *)
LEMMA AdvanceInv ==
  ASSUME RollInv, NEW n \in Nodes, Advance(n)
  PROVE  RollInv'
<1>1. /\ Work(n) \/ (Return(n) /\ UNCHANGED lbVars)
      /\ UNCHANGED <<oldVars, alive>>
      /\ phase' = [phase EXCEPT ![n] =
           IF @ = "alone" /\ pc'[n] \in {"deployed", "cleaned"}
           THEN "settled" ELSE @]
  BY DEF Advance
<1>2. Control(n) /\ NewPhase(n) /\ phase \in [Nodes -> Phases]
  BY ControlOf DEF RollInv
<1>3. Control(n)' /\ OnlyNode(n)
  BY <1>1, <1>2, WorkControl, ReturnControl
<1>4. /\ phase' \in [Nodes -> Phases]
      /\ \A m \in Nodes \ {n} : phase'[m] = phase[m]
      /\ phase'[n] = IF phase[n] = "alone" /\ pc'[n] \in {"deployed", "cleaned"}
                     THEN "settled" ELSE phase[n]
  BY <1>1, <1>2 DEF Phases
<1>5. \A m \in Nodes : ServicesGone(m) => ServicesGone(m)'
  <2>1. CASE Work(n)
    BY <1>2, <2>1, WorkServicesGone
  <2>2. CASE Return(n) /\ UNCHANGED lbVars
    <3>1. ASSUME NEW m \in Nodes \ {n}, ServicesGone(m)
          PROVE  ServicesGone(m)'
      BY <1>3, <2>2, <3>1, ServicesGoneFrame
      DEF OnlyNode, Unfailed, lbVars, NoCache
    <3>2. ServicesGone(n)'
      BY <1>2, <2>2, BoundaryServicesGone
    <3> QED
      BY <3>1, <3>2
  <2> QED
    BY <1>1, <2>1, <2>2
<1>6. NewPhase(n)'
  <2>1. phase[n] = "alone" => OwnProgress(n)'
    BY <1>1, <1>2, WorkOwn, ReturnOwn DEF NewPhase
  <2>2. phase[n] = "settled" => NodeInv(n)'
    <3>1. phase[n] = "settled" => StepInv(n)
      BY <1>2 DEF NewPhase, Control, Typed, StepInv
    <3> QED
      BY <1>1, <3>1, NodeWorkInv, NodeReturnInv DEF StepInv
  <2>3. OwnProgress(n)' /\ pc'[n] \in {"deployed", "cleaned"} => NodeInv(n)'
    <3>1. EndsWell'
      BY SettledInv, PTL
    <3> QED
      BY <1>3, <3>1 DEF EndsWell, StepInv
  <2> QED
    BY <1>1, <1>2, <1>4, <1>5, <2>1, <2>2, <2>3 DEF NewPhase
<1> QED
  BY <1>1, <1>3, <1>4, <1>5, <1>6, NewStepInv

-----------------------------------------------------------------------------
(* What neither of them does.                                              *)

LEMMA RestInv ==
  ASSUME RollInv,
         \/ Surroundings /\ UNCHANGED <<oldVars, alive, phase>>
         \/ UNCHANGED rollVars
  PROVE  RollInv'
<1>1. /\ UNCHANGED <<nrVars, lbpc, oldVars, alive, phase>>
  BY DEF Surroundings, LbAddress, AssignIp, CacheCatchesUp, rollVars, allVars,
         lbVars
<1>2. Typed' /\ OldP!Typed'
  <2>1. LbInv'
    BY LbAddressInv, CacheCatchesUpInv, LbStutterInv
    DEF RollInv, Typed, Surroundings, rollVars, allVars
  <2>2. Typed'
    BY <1>1, <2>1 DEF RollInv, Typed, ResourcesTypeOK, nrVars
  <2> QED
    BY <1>1, <2>2, TypedForOld DEF RollInv
<1>3. ASSUME NEW m \in Nodes
      PROVE  Written(m)' /\ InPlace(m)' /\ OldP!InPlace(m)' /\ NewPhase(m)'
  <2>1. /\ Written(m) /\ InPlace(m) /\ OldP!InPlace(m) /\ NewPhase(m)
        /\ pos[m] \in 1 .. 7 /\ lbpc[m] \in LbPhasesOf(pc[m])
    BY DEF RollInv, Typed, ResourcesTypeOK, InPlace
  <2>2. Written(m)' /\ InPlace(m)' /\ OldP!InPlace(m)'
    BY <1>1, <2>1, SameWritten, InPlaceFrame, OldInPlaceFrame
    DEF nrVars, oldVars
  <2>3. ServicesGone(m) => ServicesGone(m)'
    <3>1. CASE Surroundings
      BY <3>1, AroundServicesGone DEF RollInv
    <3>2. CASE UNCHANGED rollVars
      BY <3>2, ServicesGoneFrame
      DEF rollVars, allVars, lbVars, nrVars, Unfailed, NoCache
    <3> QED
      BY <3>1, <3>2
  <2>4. NodeInv(m) => NodeInv(m)'
    BY <1>1, <2>1, NodeFrame DEF nrVars
  <2>5. OwnProgress(m) => OwnProgress(m)'
    BY <1>1, <2>1, OwnFrame DEF nrVars
  <2> QED
    BY <1>1, <2>1, <2>2, <2>3, <2>4, <2>5 DEF NewPhase
<1> QED
  BY <1>1, <1>2, <1>3 DEF RollInv

(* The old operator's end leaves the new one's calls where they stand.     *)
LEMMA EndInv ==
  ASSUME RollInv, End
  PROVE  RollInv'
<1>1. Typed'
  BY LbStutterInv
  DEF RollInv, End, Typed, ResourcesTypeOK, allVars, nrVars
<1>2. OldP!Typed'
  <2>1. OldP!LbInv'
    BY <1>1
    DEF Typed, End, LbInv, LbTypeOK, OldP!LbInv, OldP!LbTypeOK, OldP!PendingOnOneSide,
        Idx, OldP!Idx, OldP!LbPhases, NoCache, OldP!NoCache
  <2>2. OldP!ResourcesTypeOK'
    <3>1. Empty \in Objects
      BY ObjectTypes
    <3> QED
      BY <1>1, <3>1
      DEF Typed, End, ResourcesTypeOK, OldP!ResourcesTypeOK, Kinds,
          OldP!Kinds, Objects, OldP!Objects, OldP!Labels
  <2> QED
    BY <2>1, <2>2 DEF OldP!Typed
<1>3. ASSUME NEW m \in Nodes
      PROVE  Written(m)' /\ InPlace(m)' /\ OldP!InPlace(m)' /\ NewPhase(m)'
  <2>1. Written(m) /\ InPlace(m) /\ NewPhase(m) /\ alive
        /\ UNCHANGED <<nrVars, lbpc, phase>>
    BY DEF RollInv, End, allVars, lbVars
  <2>2. Written(m)' /\ InPlace(m)'
    BY <2>1, SameWritten, InPlaceFrame DEF nrVars
  <2>3. OldP!InPlace(m)'
    <3>1. 1 <= Len(DeleteOrder(m))
      BY DeleteOrderKinds
    <3>2. OldP!DeleteOrder(m)' = DeleteOrder(m)
      BY DEF OldP!DeleteOrder, DeleteOrder
    <3> QED
      BY <3>1, <3>2
      DEF End, OldP!InPlace, OldP!LbPhasesOf, OldP!StorageLabels
  <2>4. NewPhase(m)'
    BY <2>1 DEF NewPhase
  <2> QED
    BY <2>2, <2>3, <2>4
<1> QED
  BY <1>1, <1>2, <1>3 DEF RollInv, End

-----------------------------------------------------------------------------
(* The two begin with nothing done.                                        *)

LEMMA RollInitInv == RollInit => RollInv
<1> SUFFICES ASSUME RollInit PROVE RollInv
  OBVIOUS
<1>1. ASSUME NEW n \in Nodes PROVE Control(n)
  BY NrInitInv, StepInvOf, StepInvControl DEF RollInit
<1>2. Typed
  BY NrInitInv DEF RollInit, NrInv, Typed
<1>3. OldP!Typed
  <2>1. OldP!LbInv
    BY <1>2
    DEF Typed, RollInit, Old!NrInit, Old!LbInit, LbInv, LbTypeOK, OldP!LbInv,
        OldP!LbTypeOK, OldP!PendingOnOneSide, Idx, OldP!Idx, OldP!LbPhases,
        NoCache, OldP!NoCache
  <2>2. OldP!ResourcesTypeOK
    <3>1. Empty \in Objects /\ Old!Empty = Empty
      BY ObjectTypes DEF Old!Empty, Old!Plain, Old!Object, Empty, Plain, Object
    <3> QED
      BY <1>2, <3>1
      DEF Typed, RollInit, Old!NrInit, ResourcesTypeOK, OldP!ResourcesTypeOK,
          Kinds, OldP!Kinds, Objects, OldP!Objects, OldP!Labels
  <2> QED
    BY <2>1, <2>2 DEF OldP!Typed
<1>4. ASSUME NEW n \in Nodes PROVE OldP!InPlace(n)
  <2>1. 1 <= Len(DeleteOrder(n)) /\ OldP!DeleteOrder(n) = DeleteOrder(n)
    BY DeleteOrderKinds DEF OldP!DeleteOrder, DeleteOrder
  <2> QED
    BY <2>1
    DEF RollInit, Old!NrInit, Old!LbInit, OldP!InPlace, OldP!LbPhasesOf,
        OldP!StorageLabels
<1> QED
  BY <1>1, <1>2, <1>3, <1>4
  DEF RollInit, Phases, RollInv, NewPhase, Control

LEMMA RollNextInv == RollInv /\ [RollNext]_rollVars => RollInv'
<1> SUFFICES ASSUME RollInv, [RollNext]_rollVars PROVE RollInv'
  OBVIOUS
<1>1. ASSUME NEW n \in Nodes, Begin(n) \/ Advance(n) \/ Linger(n)
      PROVE  RollInv'
  BY <1>1, BeginInv, AdvanceInv, LingerInv
<1>2. CASE \/ Surroundings /\ UNCHANGED <<oldVars, alive, phase>>
           \/ UNCHANGED rollVars
  BY <1>2, RestInv
<1>3. CASE End
  BY <1>3, EndInv
<1> QED
  BY <1>1, <1>2, <1>3 DEF RollNext

(* Where the calls of both operators stand, and what the new one has made  *)
(* of each node, in every state of a rolling update.                       *)
THEOREM RollInvariant == RollSpec => []RollInv
  BY RollInitInv, RollNextInv, PTL DEF RollSpec

-----------------------------------------------------------------------------
(* What follows for every state.                                           *)

(* Whatever two operators wrote beside each other, a workload that mounts  *)
(* what is missing or configs of other keys included: it does not outlast  *)
(* the first call the new operator, alone, brings to a good end.           *)
THEOREM UpdatesMend == RollSpec => []UpdateMends
<1>1. RollInv => UpdateMends
  <2> SUFFICES ASSUME RollInv, NEW n \in Nodes, phase[n] = "settled"
      PROVE
        /\ Exists(n, "sts") =>
             /\ \A k \in Mounts(n) : Exists(n, k)
             /\ res[n]["configs"].size <= res[n]["sts"].size
             /\ n \notin Storage =>
                  res[n]["sts"].size = res[n]["configs"].size
        /\ \A k \in {"configs", "external-addresses"} :
             Exists(n, k) =>
               /\ Exists(n, "identities")
               /\ res[n][k].key = res[n]["identities"].key
    BY DEF UpdateMends
  <2>1. ObjectsAgree(n)
    BY DEF RollInv, NewPhase, NodeInv
  <2>2. "configs" \in Mounts(n)
    BY MountsAre
  <2> QED
    BY <2>1, <2>2 DEF ObjectsAgree
<1> QED
  BY <1>1, RollInvariant, PTL

(* A cleanup the new operator finishes alone leaves nothing of the node,   *)
(* whichever of the two deployed it and however far the old one had come,  *)
(* if no request failed and no list of services was stale.                 *)
THEOREM UpdatesLeaveNothing == RollSpec => []UpdateLeavesNothing
<1>1. RollInv => UpdateLeavesNothing
  <2> SUFFICES ASSUME RollInv, NEW n \in Nodes, phase[n] = "settled",
                      pc[n] = "cleaned", faults = 0, seen = NoCache
      PROVE  (\A k \in Kinds : ~Exists(n, k)) /\ lb[n] = {}
    BY DEF UpdateLeavesNothing
  <2>1. NodeInv(n) /\ ServicesGone(n)
    BY DEF RollInv, NewPhase
  <2> QED
    BY <2>1 DEF NodeInv, DeleteProgress, ServicesGone, Unfailed
<1> QED
  BY <1>1, RollInvariant, PTL

-----------------------------------------------------------------------------
(* Two deploys of one node scale its services between their two specs.     *)

LEMMA SameTowardStep ==
  ASSUME NEW m, UNCHANGED lb
  PROVE  TowardStep(m) /\ OldP!TowardStep(m)
  BY DEF TowardStep, OldP!TowardStep

LEMMA NewToward ==
  ASSUME RollInv, NEW n \in Nodes, Begin(n) \/ Advance(n), NEW m \in Nodes
  PROVE  TowardStep(m)
<1>1. CASE LbWork(n)
  BY <1>1, LbNextToward DEF RollInv, Typed, LbNext
<1>2. CASE ~LbWork(n)
  <2>1. UNCHANGED lb
    BY <1>2
    DEF Begin, Calls, Advance, Work, CallLbDeploy, CallLbDelete, LbResult,
        LbDeploy, LbDelete, LbReturn, lbLocals, lbVars
  <2> QED
    BY <2>1, SameTowardStep
<1> QED
  BY <1>1, <1>2

LEMMA OldToward ==
  ASSUME RollInv, NEW n \in Nodes, Linger(n), NEW m \in Nodes
  PROVE  OldP!TowardStep(m)
<1>1. CASE Old!Work(n)
  <2>1. OldP!Work(n)
    BY <1>1, OldWork
  <2>2. CASE OldP!LbWork(n)
    <3>1. OldP!LbInv /\ [OldP!LbNext]_(OldP!lbVars)
      BY <2>2 DEF RollInv, OldP!Typed, OldP!LbNext
    <3> QED
      BY <3>1, OldP!LbNextToward, LbAssumption, NrAssumption, OldAssumptions
      DEF OldP!LbNextToward
  <2>3. CASE ~OldP!LbWork(n)
    <3>1. UNCHANGED lb
      BY <2>1, <2>3
      DEF OldP!Work, OldP!CallLbDeploy, OldP!CallLbDelete, OldP!LbResult,
          OldP!LbDeploy, OldP!LbDelete, OldP!LbReturn, OldP!lbLocals
    <3> QED
      BY <3>1, SameTowardStep
  <2> QED
    BY <2>2, <2>3
<1>2. CASE ~Old!Work(n)
  BY <1>2, SameTowardStep DEF Linger, CallsOld, oldLbVars
<1> QED
  BY <1>1, <1>2

LEMMA RollNextToward ==
  ASSUME RollInv, [RollNext]_rollVars, NEW m \in Nodes
  PROVE  TowardStep(m) \/ OldP!TowardStep(m)
<1>1. ASSUME NEW n \in Nodes, Begin(n) \/ Advance(n) \/ Linger(n)
      PROVE  TowardStep(m) \/ OldP!TowardStep(m)
  BY <1>1, NewToward, OldToward
<1>2. CASE Surroundings \/ End \/ UNCHANGED rollVars
  BY <1>2, SameTowardStep
  DEF Surroundings, LbAddress, AssignIp, CacheCatchesUp, End, rollVars,
      allVars, lbVars
<1> QED
  BY <1>1, <1>2 DEF RollNext

(* While the operators deploy a node with two numbers of replicas, neither *)
(* deletes a service that both specs ask for, nor creates one that neither *)
(* asks for, however wrong the other's steps make the count it acts on.    *)
THEOREM UpdatesScaleBetween == RollSpec => ScaledBetween
<1> DEFINE Between ==
      \A n \in Nodes :
        Deploying(n) /\ Old!Deploying(n) =>
          /\ lb[n] \cap Wanted(want[n]) \cap Wanted(wantOld[n])
               \subseteq lb'[n]
          /\ lb'[n] \ lb[n] \subseteq Wanted(want[n]) \cup Wanted(wantOld[n])
<1>1. RollInv /\ [RollNext]_rollVars => Between
  <2> SUFFICES ASSUME RollInv, [RollNext]_rollVars, NEW n \in Nodes,
                      Deploying(n), Old!Deploying(n)
      PROVE  /\ lb[n] \cap Wanted(want[n]) \cap Wanted(wantOld[n])
                  \subseteq lb'[n]
             /\ lb'[n] \ lb[n]
                  \subseteq Wanted(want[n]) \cup Wanted(wantOld[n])
    OBVIOUS
  <2>1. CASE TowardStep(n)
    BY <2>1 DEF TowardStep, Wanted
  <2>2. CASE OldP!TowardStep(n)
    BY <2>2
    DEF OldP!TowardStep, OldP!Deploying, Old!Deploying, OldP!AsUsize, AsUsize,
        Wanted
  <2> QED
    BY <2>1, <2>2, RollNextToward
<1>2. RollSpec => [][Between]_rollVars
  BY <1>1, RollInvariant, PTL DEF RollSpec
<1> QED
  BY <1>2 DEF ScaledBetween
=============================================================================
