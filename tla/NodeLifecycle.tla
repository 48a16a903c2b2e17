---------------------------- MODULE NodeLifecycle ----------------------------
(***************************************************************************)
(* What the objects of an IpfsNode promise to those who read them one at a *)
(* time, without saying how they are brought about: to the nodes that dial *)
(* the peer ids it publishes, and to the pods its workload starts, which   *)
(* find in its configs the peers assigned to them.                         *)
(*                                                                         *)
(* A node publishes one generation of peers; its workload, as long as      *)
(* there is one, is assigned the peers published and no others; and peers  *)
(* are retracted only while there is no workload.  NodeResources and       *)
(* Controller implement this specification.                                *)
(*                                                                         *)
(* It says nothing of pods.  They outlive their workload, which is deleted *)
(* in the background, and their volumes outlive them; one that finds a     *)
(* repository on its volume goes on as the peer in it (start_ipfs.sh:20,   *)
(* --init), whatever it is assigned.                                       *)
(***************************************************************************)
CONSTANTS
  Nodes,     \* the IpfsNodes
  Keys,      \* generations of peers
  NoKey      \* no peers

VARIABLES
  published, \* published[n]: the peers n makes known
  assigned   \* assigned[n]: the peers its workload is given, NoKey without one

LifeInit ==
  /\ published = [n \in Nodes |-> NoKey]
  /\ assigned = [n \in Nodes |-> NoKey]

Publish(n, key) ==
  /\ published[n] = NoKey
  /\ published' = [published EXCEPT ![n] = key]
  /\ UNCHANGED assigned

Assign(n) ==
  /\ published[n] # NoKey
  /\ assigned[n] = NoKey
  /\ assigned' = [assigned EXCEPT ![n] = published[n]]
  /\ UNCHANGED published

Withdraw(n) ==
  /\ assigned[n] # NoKey
  /\ assigned' = [assigned EXCEPT ![n] = NoKey]
  /\ UNCHANGED published

Retract(n) ==
  /\ assigned[n] = NoKey
  /\ published' = [published EXCEPT ![n] = NoKey]
  /\ UNCHANGED assigned

LifeStep(n) ==
  \/ \E key \in Keys : Publish(n, key)
  \/ Assign(n)
  \/ Withdraw(n)
  \/ Retract(n)

LifeNext == \E n \in Nodes : LifeStep(n)

LifeSpec == LifeInit /\ [][LifeNext]_<<published, assigned>>
=============================================================================
