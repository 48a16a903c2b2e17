----------------------------- MODULE Controller -----------------------------
(***************************************************************************)
(* The operator as a controller: operator/src/controller.rs on the         *)
(* runtime of the kube crate.                                              *)
(*                                                                         *)
(* Users create, edit and delete IpfsNode objects.  A reflector keeps a    *)
(* copy of them that lags behind the API server; each change it sees, each *)
(* failure and the timer of each success schedule a reconciliation, which  *)
(* runs on the copy.  reconcile wraps deploy and delete of NodeResources   *)
(* in kube's finalizer(): the finalizer is added before the first deploy,  *)
(* and removed, which lets the object go, after a delete that returned Ok. *)
(***************************************************************************)
EXTENDS NodeResources

CONSTANT MaxEdits    \* bound: what the users do, and breaks of the watch

ASSUME CtlAssumption == MaxEdits \in Nat

VARIABLES
  obj,     \* obj[n]: the IpfsNode n in the API server, or None
  store,   \* store[n]: the reflector's copy of it
  old,     \* old[n]: n as an API server that lags behind knows it
  due,     \* due[n]: a reconciliation of n is scheduled
  edits    \* what the users did so far, and how often the watch broke

ctlVars == <<obj, store, old, due, edits>>
vars == <<lbVars, nrVars, ctlVars>>

IpfsNode == [replicas : Replicas, deleting : BOOLEAN, finalizer : BOOLEAN]

ASSUME NoObjectAssumption == None \notin IpfsNode

CtlInit ==
  /\ NrInit
  /\ obj = [n \in Nodes |-> None]
  /\ store = [n \in Nodes |-> None]
  /\ old = [n \in Nodes |-> None]
  /\ due = [n \in Nodes |-> FALSE]
  /\ edits = 0

-----------------------------------------------------------------------------
(* The users and the API server.                                           *)

Edit(n, o) ==
  /\ edits < MaxEdits /\ edits' = edits + 1
  /\ obj' = [obj EXCEPT ![n] = o]
  /\ UNCHANGED <<lbVars, nrVars, store, old, due>>

Create(n, r) ==
  /\ obj[n] = None
  /\ Edit(n, [replicas |-> r, deleting |-> FALSE, finalizer |-> FALSE])

Scale(n, r) ==
  /\ obj[n] # None /\ obj[n].replicas # r
  /\ Edit(n, [obj[n] EXCEPT !.replicas = r])

(* An object with a finalizer is marked, one without goes at once.         *)
Remove(n) ==
  /\ obj[n] # None /\ ~obj[n].deleting
  /\ Edit(n, IF obj[n].finalizer THEN [obj[n] EXCEPT !.deleting = TRUE]
                                 ELSE None)

User(n) == (\E r \in Replicas : Create(n, r) \/ Scale(n, r)) \/ Remove(n)

(* The reflector sees the current state of n.  The controller is triggered *)
(* by applied objects, not by deleted ones.                                *)
WatchEvent(n) ==
  /\ store[n] # obj[n]
  /\ store' = [store EXCEPT ![n] = obj[n]]
  /\ due' = [due EXCEPT ![n] = @ \/ obj[n] # None]
  /\ UNCHANGED <<lbVars, nrVars, obj, old, edits>>

(* The watch breaks, and the list that replaces it is answered, as         *)
(* `any_semantic` permits, by the laggard: the copy goes back, and every   *)
(* object in it is applied again.  From a server that does not lag this    *)
(* list shows what the watch would.                                        *)
Relist ==
  /\ StaleLists
  /\ edits < MaxEdits /\ edits' = edits + 1
  /\ store' = old
  /\ due' = [n \in Nodes |-> due[n] \/ old[n] # None]
  /\ UNCHANGED <<lbVars, nrVars, obj, old>>

LaggardCatchesUp(n) ==
  /\ StaleLists
  /\ old[n] # obj[n]
  /\ old' = [old EXCEPT ![n] = obj[n]]
  /\ UNCHANGED <<lbVars, nrVars, obj, store, due, edits>>

-----------------------------------------------------------------------------
(* reconcile, and finalizer() around it.                                   *)

Scheduled(n) == due[n] /\ pc[n] = "idle"
Unschedule(n) == due' = [due EXCEPT ![n] = FALSE]

(* An object that has left the store is not reconciled.                    *)
Forget(n) ==
  /\ Scheduled(n) /\ store[n] = None
  /\ Unschedule(n)
  /\ UNCHANGED <<lbVars, nrVars, obj, store, old, edits>>

(* Without a finalizer: add it and await the change this makes.  The patch *)
(* tests that the object still has none.                                   *)
AddFinalizer(n) ==
  LET fits == obj[n] # None /\ ~obj[n].finalizer
      add == obj' = [obj EXCEPT ![n].finalizer = TRUE] IN
  /\ Scheduled(n) /\ store[n] # None /\ ~store[n].finalizer
  /\ \/ fits /\ NoFault /\ add /\ Unschedule(n)
     \/ fits /\ Fault /\ (add \/ UNCHANGED obj) /\ UNCHANGED due
     \/ ~fits /\ NoFault /\ UNCHANGED <<obj, due>>
  /\ UNCHANGED <<lbLocals, nrVars, store, old, edits>>

(* Mutation: the object is deployed whether or not it is being deleted.    *)
ReconcileApplyAlways(n) ==
  /\ Scheduled(n) /\ store[n] # None /\ store[n].finalizer
  /\ StartDeploy(n, store[n].replicas)
  /\ Unschedule(n)
  /\ UNCHANGED <<lbVars, obj, store, old, edits>>

(* Mutation: reconcile called directly, not through finalizer().           *)
ReconcileUnprotected(n) ==
  /\ Scheduled(n) /\ store[n] # None
  /\ IF store[n].deleting THEN StartDelete(n)
                          ELSE StartDeploy(n, store[n].replicas)
  /\ Unschedule(n)
  /\ UNCHANGED <<lbVars, obj, store, old, edits>>

(* With one: Finalizer::Apply or Finalizer::Cleanup, as the copy says.     *)
Reconcile(n) ==
  /\ Scheduled(n) /\ store[n] # None /\ store[n].finalizer
  /\ IF store[n].deleting THEN StartDelete(n)
                          ELSE StartDeploy(n, store[n].replicas)
  /\ Unschedule(n)
  /\ UNCHANGED <<lbVars, obj, store, old, edits>>

(* Mutation: the finalizer goes also after a cleanup that failed.          *)
CleanupOverAnyway(n) == pc[n] \in {"cleaned", "failed"}

CleanupOver(n) == pc[n] = "cleaned"

(* After the cleanup: the finalizer is removed, and a marked object goes.  *)
(* The patch tests that the finalizer is still there.                      *)
RemoveFinalizer(n) ==
  LET fits == obj[n] # None /\ obj[n].finalizer
      drop == obj' = [obj EXCEPT ![n] =
                IF obj[n].deleting THEN None
                                   ELSE [obj[n] EXCEPT !.finalizer = FALSE]] IN
  /\ CleanupOver(n)
  /\ \/ fits /\ NoFault /\ drop /\ Return(n)
     \/ /\ fits /\ Fault /\ (drop \/ UNCHANGED obj)
        /\ Goto(n, "failed") /\ UNCHANGED <<res, nrLocals>>
     \/ /\ ~fits /\ NoFault /\ UNCHANGED obj
        /\ Goto(n, "failed") /\ UNCHANGED <<res, nrLocals>>
  /\ UNCHANGED <<lbLocals, store, old, due, edits>>

(* Mutation: a failure awaits the next change.                             *)
RequeueOnSuccess == {"deployed"}

(* The results after which the object is requeued, in five minutes: an     *)
(* Apply that returned Ok, and error_policy's.                             *)
Requeued == {"deployed", "failed"}

Finish(n) ==
  /\ pc[n] \in {"deployed", "failed"}
  /\ due' = [due EXCEPT ![n] = @ \/ pc[n] \in Requeued]
  /\ Return(n)
  /\ UNCHANGED <<lbVars, obj, store, old, edits>>

(* The operator dies and starts again.  `any_semantic` lets its first list *)
(* be answered by any API server, the laggard included; every object in it *)
(* is reconciled.                                                          *)
Restart ==
  /\ Crash
  /\ store' \in IF StaleLists THEN {obj, old} ELSE {obj}
  /\ due' = [n \in Nodes |-> store'[n] # None]
  /\ UNCHANGED <<obj, old, edits>>

Operator(n) ==
  \/ Forget(n)
  \/ AddFinalizer(n)
  \/ Reconcile(n)
  \/ Work(n) /\ UNCHANGED ctlVars
  \/ RemoveFinalizer(n)
  \/ Finish(n)

Next ==
  \/ \E n \in Nodes : \/ User(n)
                      \/ WatchEvent(n)
                      \/ LaggardCatchesUp(n)
                      \/ Operator(n)
  \/ Surroundings /\ UNCHANGED ctlVars
  \/ Relist
  \/ Restart

Spec == CtlInit /\ [][Next]_vars

(* The operator runs what it scheduled; the watch delivers what changed;   *)
(* the cloud gives every load balancer an address.                         *)
Fairness ==
  /\ \A n \in Nodes : WF_vars(Operator(n)) /\ WF_vars(WatchEvent(n))
  /\ WF_vars(LbAddress /\ UNCHANGED <<nrVars, ctlVars>>)

FairSpec == Spec /\ Fairness

-----------------------------------------------------------------------------
(* Properties.                                                             *)

(* The type of the variables.                                              *)
TypeOK ==
  /\ NrTypeOK
  /\ obj \in [Nodes -> IpfsNode \cup {None}]
  /\ store \in [Nodes -> IpfsNode \cup {None}]
  /\ old \in [Nodes -> IpfsNode \cup {None}]
  /\ due \in [Nodes -> BOOLEAN]
  /\ edits \in 0 .. MaxEdits

(* "Finalizer cleanup (the object was deleted, ensure nothing is           *)
(* orphaned)": when an IpfsNode is gone, so are its StatefulSet, its       *)
(* ConfigMaps and its Secrets.                                             *)
NothingOrphaned ==
  \A n \in Nodes : obj[n] = None => \A k \in Kinds : ~Exists(n, k)

(* So are its load balancers, when no request failed.                      *)
NoLoadBalancerOrphaned ==
  \A n \in Nodes : obj[n] = None /\ faults = 0 => lb[n] = {}

(* While the operator knows of no finalizer it has written nothing: what a *)
(* node owns is always protected by the finalizer of its object.           *)
OwnedIsProtected ==
  \A n \in Nodes :
    (\E k \in Kinds : Exists(n, k)) \/ pc[n] \in DeployLabels
      => obj[n] # None /\ obj[n].finalizer

(* A deletion completes, however requests fail, the operator dies and      *)
(* lists lag in the meantime, a bounded number of times.  It supposes that *)
(* spec.replicas was never negative: then deploy makes one request after   *)
(* the other for 2^64 - 1 services (load_balancer.rs:47-57,181) in the     *)
(* only reconciliation of the object, and a cleanup is not reached.        *)
DeletionCompletes ==
  \A n \in Nodes :
    obj[n] # None /\ obj[n].deleting ~> obj[n] = None

Wanted(n) == obj[n] # None /\ ~obj[n].deleting
Standing(n) == Wanted(n) /\ Exists(n, "sts")

(* What a storage cluster needs in order to join: that its bootstrap       *)
(* node stands and has an address for each of its identities; and of its   *)
(* own, that spec.replicas is no less than the identities it has.          *)
Joinable(n) ==
  /\ Wanted(n)
  /\ Exists(n, "identities") =>
       res[n]["identities"].size \in 1 .. Count(obj[n].replicas)
  /\ Standing(BootstrapOf[n]) /\ Listable(BootstrapOf[n])
  /\ Undisturbed(n)

(* A storage cluster that can join comes to stand, in whatever order and   *)
(* however close it and its bootstrap node were applied: a deploy that     *)
(* found no identities or no addresses to join is tried again, and nothing *)
(* but the timer of the failure brings this about.  Each part of Joinable  *)
(* is a limit of the promise.  A bootstrap node that was scaled has more   *)
(* or fewer addresses than identities, and no retry lets anybody join it   *)
(* (ipfs.rs:72); nor does a cluster come to stand with more identities     *)
(* than pods.  And a failed request or a crash may leave a hole in the     *)
(* services that no later call fills, and whose address the cluster then   *)
(* awaits for ever (load_balancer.rs:203).                                 *)
StorageJoins ==
  \A n \in Storage : Joinable(n) ~> Standing(n) \/ ~Joinable(n)

(* The same promise for load balancers, with failures: refuted, because    *)
(* load_balancer::delete ignores the failure of a delete.                  *)
NoLoadBalancerLeft ==
  \A n \in Nodes : obj[n] = None => lb[n] = {}
=============================================================================
