---------------------------- MODULE LoadBalancer ----------------------------
(***************************************************************************)
(* The load balancers of the IpfsNodes of one namespace:                   *)
(* operator-common/src/types/load_balancer.rs over service.rs.             *)
(*                                                                         *)
(* An IpfsNode n has one Service of type LoadBalancer per pod, named       *)
(* "{n}-{idx}".  The operator holds no record of them: every call lists    *)
(* the cluster, compares a count with the replicas it wants, and deletes   *)
(* or creates the difference by index.                                     *)
(*                                                                         *)
(* A call is cut where the code waits for the API server: one action per   *)
(* list, per delete, per create.  Calls of different nodes interleave;     *)
(* calls of one node do not (the controller runs one reconciliation of an  *)
(* object at a time).                                                      *)
(***************************************************************************)
EXTENDS Integers, FiniteSets

CONSTANTS
  Nodes,       \* the IpfsNodes of the namespace
  Storage,     \* those of kind Storage; the others are of kind BootStrap
  Replicas,    \* values of spec.replicas, an i32 without a minimum
  UsizeMod,    \* 2^64 in the program: the number of values of a usize
  StaleLists,  \* TRUE: a list may be answered from a watch cache that lags
  MaxFaults,   \* bound: API requests that fail
  MaxCrashes   \* bound: times the operator process dies

ASSUME LbAssumption ==
  /\ IsFiniteSet(Nodes)
  /\ Storage \subseteq Nodes
  /\ UsizeMod \in Nat \ {0}
  /\ Replicas \subseteq Int
  /\ StaleLists \in BOOLEAN
  /\ MaxFaults \in Nat
  /\ MaxCrashes \in Nat

Idx == 0 .. UsizeMod - 1

(* Mutation: a wider signed type instead of a usize.                       *)
AsSigned(r) == r

(* `replicas as usize`: an i32 keeps its value modulo the width, so a      *)
(* negative count becomes an enormous one.                                 *)
AsUsize(r) == r % UsizeMod

(* The pods `0..replicas` of get_external_ips, an i32 range: empty when    *)
(* the count is negative.                                                  *)
Pods(r) == 0 .. r - 1

VARIABLES
  lb,      \* lb[n]: indices of n's load balancer services in the cluster
  ip,      \* ip[n]: those that were given an external address
  seen,    \* the services as the API server's watch cache knows them, or
           \* NoCache when it always answers what is true now
  lbpc,    \* lbpc[n]: where the call in progress for n stands
  want,    \* want[n]: the `replicas` argument of that call
  todo,    \* todo[n]: indices the call still has to delete or create
  faults,  \* API requests that failed so far
  crashes  \* deaths of the operator so far

lbVars == <<lb, ip, seen, lbpc, want, todo, faults, crashes>>

NoCache == [n \in {} |-> {}]

LbPhases == {"idle", "removing", "creating", "deployed", "ready",
             "deleting", "deleted", "err"}

LbInit ==
  /\ lb = [n \in Nodes |-> {}]
  /\ ip = [n \in Nodes |-> {}]
  /\ seen \in IF StaleLists THEN {NoCache, [n \in Nodes |-> {}]}
                          ELSE {NoCache}
  /\ lbpc = [n \in Nodes |-> "idle"]
  /\ want = [n \in Nodes |-> 0]
  /\ todo = [n \in Nodes |-> {}]
  /\ faults = 0
  /\ crashes = 0

(* One more request fails: refused, timed out, or its answer lost.         *)
Fault == faults < MaxFaults /\ faults' = faults + 1
NoFault == faults' = faults

-----------------------------------------------------------------------------
(* deploy: bring the services of n to `replicas`.                          *)

(* What a list is answered with.  `match_any` asks for resourceVersion 0:  *)
(* whatever the cache holds.                                               *)
Listed == IF seen = NoCache THEN lb ELSE seen

(* load_balancer::deploy's selector is set twice and the second call of    *)
(* ListParams::labels replaces the first: the instance is forgotten, and   *)
(* the services of every storage cluster are counted, those of bootstrap   *)
(* nodes never.                                                            *)
Counted == {s \in Storage \X Idx : s[2] \in Listed[s[1]]}
LbCount == Cardinality(Counted)

(* Mutations: ranges off by one, ranges that restart at zero.              *)
ExcessOffByOne(count, target) == target - 1 .. count - 1
ShortfallSkipsFirst(count, target) == count + 1 .. target - 1

Excess(count, target) == target .. count - 1
Shortfall(count, target) == count .. target - 1

LbStep(n, phase, left) ==
  /\ lbpc' = [lbpc EXCEPT ![n] = phase]
  /\ todo' = [todo EXCEPT ![n] = left]

(* The phase of a loop over `left`: it ends when nothing is left.          *)
While(phase, left, done) == IF left = {} THEN done ELSE phase

(* The list, the comparison and the choice of the branch.                  *)
LbDeploy(n, r) ==
  LET target == AsUsize(r) IN
  /\ lbpc[n] = "idle"
  /\ want' = [want EXCEPT ![n] = r]
  /\ \/ NoFault /\ LbCount > target
        /\ LbStep(n, "removing", Excess(LbCount, target))
     \/ NoFault /\ LbCount < target
        /\ LbStep(n, "creating", Shortfall(LbCount, target))
     \/ NoFault /\ LbCount = target /\ LbStep(n, "deployed", {})
     \/ Fault /\ LbStep(n, "err", {})
  /\ UNCHANGED <<lb, ip, seen, crashes>>

AddService(n, i) ==
  /\ lb' = [lb EXCEPT ![n] = @ \cup {i}]
  /\ UNCHANGED ip

DropService(n, i) ==
  /\ lb' = [lb EXCEPT ![n] = @ \ {i}]
  /\ ip' = [ip EXCEPT ![n] = @ \ {i}]

KeepServices == UNCHANGED <<lb, ip>>

(* One of the deletes the excess branch runs concurrently; a service that  *)
(* does not exist counts as deleted.  The first failure returns at `res??` *)
(* and drops the JoinSet, which aborts the tasks that are left; assumed of *)
(* the aborted ones is that they have landed, or never do, by the time the *)
(* next deploy of n begins, five minutes or an edit later.                 *)
RemoveService(n, i) ==
  LET left == todo[n] \ {i} IN
  /\ lbpc[n] = "removing"
  /\ i \in todo[n]
  /\ \/ NoFault /\ DropService(n, i)
        /\ LbStep(n, While("removing", left, "deployed"), left)
     \/ Fault /\ (KeepServices \/ DropService(n, i))
        /\ LbStep(n, "err", {})
  /\ UNCHANGED <<seen, want, crashes>>

(* _create joins every task before it spawns the next, so the services are *)
(* created in ascending order; a failed creation is ignored, `Ok(_)`       *)
(* matching the inner error too.                                           *)
CreateService(n, i) ==
  LET left == todo[n] \ {i} IN
  /\ lbpc[n] = "creating"
  /\ i \in todo[n] /\ \A j \in todo[n] : i <= j
  /\ \/ NoFault /\ AddService(n, i)
     \/ Fault /\ (KeepServices \/ AddService(n, i))
  /\ LbStep(n, While("creating", left, "deployed"), left)
  /\ UNCHANGED <<seen, want, crashes>>

(* Mutation: no timeout around the wait.                                   *)
WaitWithoutTimeout(n) ==
  /\ lbpc[n] = "deployed"
  /\ NoFault /\ Pods(want[n]) \subseteq ip[n] /\ LbStep(n, "ready", {})
  /\ UNCHANGED <<lb, ip, seen, want, crashes>>

(* get_external_ips: one task per pod waits for its service to have an     *)
(* address, for 300 seconds at most.                                       *)
WaitIps(n) ==
  /\ lbpc[n] = "deployed"
  /\ \/ NoFault /\ Pods(want[n]) \subseteq ip[n] /\ LbStep(n, "ready", {})
     \/ NoFault /\ ~(Pods(want[n]) \subseteq ip[n]) /\ LbStep(n, "err", {})
     \/ Fault /\ LbStep(n, "err", {})
  /\ UNCHANGED <<lb, ip, seen, want, crashes>>

-----------------------------------------------------------------------------
(* delete: here the selector names the instance.                           *)

(* Mutation: delete lists with deploy's selector.                          *)
LbDeleteWrongSelector(n) ==
  /\ lbpc[n] = "idle"
  /\ LET own == IF n \in Storage THEN Listed[n] ELSE {} IN
     \/ NoFault /\ LbStep(n, While("deleting", own, "deleted"), own)
     \/ Fault /\ LbStep(n, "err", {})
  /\ UNCHANGED <<lb, ip, seen, want, crashes>>

LbDelete(n) ==
  /\ lbpc[n] = "idle"
  /\ LET own == Listed[n] IN
     \/ NoFault /\ LbStep(n, While("deleting", own, "deleted"), own)
     \/ Fault /\ LbStep(n, "err", {})
  /\ UNCHANGED <<lb, ip, seen, want, crashes>>

(* The deletes run concurrently; their failures are ignored.               *)
DeleteService(n, i) ==
  LET left == todo[n] \ {i} IN
  /\ lbpc[n] = "deleting"
  /\ i \in todo[n]
  /\ \/ NoFault /\ DropService(n, i)
     \/ Fault /\ (KeepServices \/ DropService(n, i))
  /\ LbStep(n, While("deleting", left, "deleted"), left)
  /\ UNCHANGED <<seen, want, crashes>>

-----------------------------------------------------------------------------
(* Around the calls.                                                       *)

LbReturns == {"ready", "deleted", "err"}

LbReturn(n) ==
  /\ lbpc[n] \in LbReturns
  /\ LbStep(n, "idle", {})
  /\ want' = [want EXCEPT ![n] = 0]
  /\ UNCHANGED <<lb, ip, seen, faults, crashes>>

(* The cloud's service controller gives a load balancer its address.       *)
AssignIp(n, i) ==
  /\ i \in lb[n] \ ip[n]
  /\ ip' = [ip EXCEPT ![n] = @ \cup {i}]
  /\ UNCHANGED <<lb, seen, lbpc, want, todo, faults, crashes>>

(* The API server's watch cache catches up with its store.                 *)
CacheCatchesUp ==
  /\ seen \notin {NoCache, lb} /\ seen' = lb
  /\ UNCHANGED <<lb, ip, lbpc, want, todo, faults, crashes>>

(* The operator dies: its calls are gone, what they wrote stays.           *)
LbCrash ==
  /\ crashes < MaxCrashes /\ crashes' = crashes + 1
  /\ lbpc' = [n \in Nodes |-> "idle"]
  /\ want' = [n \in Nodes |-> 0]
  /\ todo' = [n \in Nodes |-> {}]
  /\ UNCHANGED <<lb, ip, seen, faults>>

(* What a call of n does after it began, up to its result.                 *)
LbWork(n) ==
  \/ \E i \in todo[n] : \/ RemoveService(n, i)
                        \/ CreateService(n, i)
                        \/ DeleteService(n, i)
  \/ WaitIps(n)

LbAddress == \E n \in Nodes : \E i \in Idx : AssignIp(n, i)

LbNext ==
  \/ \E n \in Nodes : \/ \E r \in Replicas : LbDeploy(n, r)
                      \/ LbDelete(n)
                      \/ LbWork(n)
                      \/ LbReturn(n)
  \/ LbAddress
  \/ CacheCatchesUp
  \/ LbCrash

LbSpec == LbInit /\ [][LbNext]_lbVars

-----------------------------------------------------------------------------
(* Properties.                                                             *)

(* The type of the variables; an address belongs to a service that exists. *)
LbTypeOK ==
  /\ lb \in [Nodes -> SUBSET Idx]
  /\ ip \in [Nodes -> SUBSET Idx]
  /\ \A n \in Nodes : ip[n] \subseteq lb[n]
  /\ seen \in [Nodes -> SUBSET Idx] \cup {NoCache}
  /\ ~StaleLists => seen = NoCache
  /\ lbpc \in [Nodes -> LbPhases]
  /\ want \in [Nodes -> Int]
  /\ todo \in [Nodes -> SUBSET Nat]
  /\ faults \in 0 .. MaxFaults
  /\ crashes \in 0 .. MaxCrashes

Deploying(n) == lbpc[n] \in {"removing", "creating"}

(* Whatever the list counted - the services of other clusters, a stale     *)
(* cache, what an earlier crash left - a deployment never deletes a load   *)
(* balancer its spec asks for, and never creates one beyond it; nor does   *)
(* it touch the services of another node.                                  *)
TowardSpec ==
  [][\A n \in Nodes :
       /\ lb'[n] # lb[n] => lbpc[n] \in {"removing", "creating", "deleting"}
       /\ Deploying(n) =>
            LET wanted == 0 .. AsUsize(want[n]) - 1 IN
            /\ lb[n] \cap wanted \subseteq lb'[n]
            /\ lb'[n] \ lb[n] \subseteq wanted]_lbVars

(* n is the only storage cluster, lists are current, no request failed and *)
(* the operator did not die.                                               *)
Undisturbed(n) ==
  Storage = {n} /\ faults = 0 /\ crashes = 0 /\ seen = NoCache

(* With one storage cluster in the namespace, fresh lists, no failed       *)
(* request and no crash, load_balancer::deploy returns Ok with exactly the *)
(* services 0..replicas, after any history of scaling and deleting.        *)
ExactWhenSole ==
  \A n \in Nodes :
    lbpc[n] = "deployed" /\ Undisturbed(n)
    => lb[n] = 0 .. AsUsize(want[n]) - 1

(* load_balancer::delete leaves no service when no request failed, however *)
(* often the operator died in the middle of this or of earlier calls.      *)
DeleteComplete ==
  \A n \in Nodes :
    lbpc[n] = "deleted" /\ faults = 0 /\ seen = NoCache => lb[n] = {}

(* Every call comes to a result or dies with the operator: also one that   *)
(* waits for the address of a service nobody created.                      *)
CallsEnd ==
  \A n \in Nodes :
    Deploying(n) \/ lbpc[n] \in {"deployed", "deleting"}
      ~> lbpc[n] \in LbReturns \cup {"idle"}

(* "Handle insufficient load balancers": after deploy returned Ok, the     *)
(* load balancer of every pod exists, if no request failed and nothing     *)
(* died.  A bootstrap node beside a storage cluster refutes it.            *)
Sufficient ==
  \A n \in Nodes :
    lbpc[n] = "deployed" /\ faults = 0 /\ crashes = 0
      => 0 .. AsUsize(want[n]) - 1 \subseteq lb[n]
=============================================================================
