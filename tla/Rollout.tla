------------------------------ MODULE Rollout ------------------------------
(***************************************************************************)
(* A rolling update of the operator itself.  Its Deployment has one        *)
(* replica and no strategy, so Kubernetes starts the new pod before it     *)
(* ends the old one, and nothing elects a leader: for a while two          *)
(* operators reconcile the same objects.                                   *)
(*                                                                         *)
(* Each has the calls of NodeResources for its own; the cluster is shared. *)
(* The variables without a suffix are the new operator's.                  *)
(***************************************************************************)
EXTENDS NodeResources

VARIABLES
  alive,                                    \* the old operator runs
  pcOld, specOld, idsOld, bootOld, posOld,  \* its calls
  lbpcOld, wantOld, todoOld,
  phase   \* phase[n]: how far the new operator is with n (history)

oldVars == <<pcOld, specOld, idsOld, bootOld, posOld, lbpcOld, wantOld, todoOld>>
oldLbVars == <<lb, ip, seen, lbpcOld, wantOld, todoOld, faults, crashes>>
newVars == <<pc, nrLocals, lbpc, want, todo>>
rollVars == <<allVars, oldVars, alive, phase>>

Old == INSTANCE NodeResources WITH
         pc <- pcOld, spec <- specOld, ids <- idsOld, boot <- bootOld,
         pos <- posOld, lbpc <- lbpcOld, want <- wantOld, todo <- todoOld

(* Of a node that the new operator has not yet brought to a result alone:  *)
(* "overlap" when its latest call began beside the old operator, "alone"   *)
(* when it began after the old one was gone; "settled" when it has.        *)
Phases == {"overlap", "alone", "settled"}

RollInit ==
  /\ NrInit
  /\ Old!NrInit
  /\ alive = TRUE
  /\ phase = [n \in Nodes |-> "overlap"]

Calls(n) ==
  \/ \E r \in Replicas : StartDeploy(n, r) /\ UNCHANGED lbVars
  \/ StartDelete(n) /\ UNCHANGED lbVars

CallsOld(n) ==
  \/ \E r \in Replicas : Old!StartDeploy(n, r) /\ UNCHANGED oldLbVars
  \/ Old!StartDelete(n) /\ UNCHANGED oldLbVars

(* A call the new operator begins.                                         *)
Begin(n) ==
  /\ Calls(n)
  /\ phase' = [phase EXCEPT ![n] =
       IF @ = "settled" THEN @ ELSE IF alive THEN "overlap" ELSE "alone"]
  /\ UNCHANGED <<oldVars, alive>>

(* A step of a call of the new operator.                                   *)
Advance(n) ==
  /\ Work(n) \/ (Return(n) /\ UNCHANGED lbVars)
  /\ phase' = [phase EXCEPT ![n] =
       IF @ = "alone" /\ pc'[n] \in {"deployed", "cleaned"}
       THEN "settled" ELSE @]
  /\ UNCHANGED <<oldVars, alive>>

(* What the old operator does until it is gone.                            *)
Linger(n) ==
  /\ alive
  /\ \/ CallsOld(n)
     \/ Old!Work(n)
     \/ Old!Return(n) /\ UNCHANGED oldLbVars
  /\ UNCHANGED <<newVars, alive, phase>>

(* It ends, wherever its calls stand.                                      *)
End ==
  /\ alive /\ alive' = FALSE
  /\ pcOld' = [n \in Nodes |-> "idle"]
  /\ specOld' = [n \in Nodes |-> 0]
  /\ idsOld' = [n \in Nodes |-> Empty]
  /\ bootOld' = [n \in Nodes |-> Empty]
  /\ posOld' = [n \in Nodes |-> 1]
  /\ lbpcOld' = [n \in Nodes |-> "idle"]
  /\ wantOld' = [n \in Nodes |-> 0]
  /\ todoOld' = [n \in Nodes |-> {}]
  /\ UNCHANGED <<allVars, phase>>

RollNext ==
  \/ \E n \in Nodes : Begin(n) \/ Advance(n) \/ Linger(n)
  \/ Surroundings /\ UNCHANGED <<oldVars, alive, phase>>
  \/ End

RollSpec == RollInit /\ [][RollNext]_rollVars

-----------------------------------------------------------------------------
(* Properties.                                                             *)

(* Two operators may generate two sets of identities for one node and      *)
(* write configs of the one beside the identities of the other, or a       *)
(* workload beside the configs the other one deletes.  None of it outlasts *)
(* the update: once the new operator, alone, brought one call to a good    *)
(* end, the workload has what it mounts, configs and addresses are those   *)
(* of the identities, and no config is without its pod, on a bootstrap     *)
(* node no pod without its config - whatever the two did before.  It is    *)
(* about objects: a pod that was initialised meanwhile stays the peer it   *)
(* became then.                                                            *)
UpdateMends ==
  \A n \in Nodes :
    phase[n] = "settled" =>
      /\ Exists(n, "sts") =>
           /\ \A k \in Mounts(n) : Exists(n, k)
           /\ res[n]["configs"].size <= res[n]["sts"].size
           /\ n \notin Storage =>
                res[n]["sts"].size = res[n]["configs"].size
      /\ \A k \in {"configs", "external-addresses"} :
           Exists(n, k) =>
             /\ Exists(n, "identities")
             /\ res[n][k].key = res[n]["identities"].key

(* A cleanup the new operator finishes alone leaves nothing, neither of    *)
(* its own nor of the old one, if no request failed and no list was stale. *)
UpdateLeavesNothing ==
  \A n \in Nodes :
    /\ phase[n] = "settled" /\ pc[n] = "cleaned"
    /\ faults = 0 /\ seen = NoCache
    => (\A k \in Kinds : ~Exists(n, k)) /\ lb[n] = {}

Wanted(r) == 0 .. AsUsize(r) - 1

(* While one operator scales the services of a node to one number and the  *)
(* other to another, each deciding by a count the other one makes obsolete *)
(* at once, none that both specs ask for is deleted and none that neither  *)
(* asks for is created.  (A bootstrap node counts none and deletes none,   *)
(* so this is about storage clusters, whose instances are too large for    *)
(* TLC beside the rest of this module: it is proved, in Rollout_proofs.)   *)
ScaledBetween ==
  [][\A n \in Nodes :
       Deploying(n) /\ Old!Deploying(n) =>
         /\ lb[n] \cap Wanted(want[n]) \cap Wanted(wantOld[n]) \subseteq lb'[n]
         /\ lb'[n] \ lb[n] \subseteq Wanted(want[n]) \cup Wanted(wantOld[n])
    ]_rollVars
=============================================================================
