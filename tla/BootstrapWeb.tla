---------------------------- MODULE BootstrapWeb ----------------------------
(***************************************************************************)
(* The web service that tells peers whom to dial: get_list of              *)
(* bootstrap-web/src/bootstrap.rs behind GET /seeds and /seeds/{name},     *)
(* beside the operator that writes what it reads.                          *)
(*                                                                         *)
(* A request reads the identities of a node, then its addresses, and the   *)
(* operator may do anything in between.  Requests write nothing, so one at *)
(* a time shows what any of them may see.                                  *)
(***************************************************************************)
EXTENDS NodeResources

VARIABLE req    \* the request in progress, and two facts about its time

(* What a request has read; whether the node could be listed, and whether  *)
(* its identities stood, ever since the request began (history).           *)
Requests == [at : {"none", "ids", "addrs", "listed", "refused"},
             node : Nodes, ids : Objects, addrs : Objects,
             steady : BOOLEAN, stood : BOOLEAN]

NoRequest(n) ==
  [at |-> "none", node |-> n, ids |-> Empty, addrs |-> Empty,
   steady |-> FALSE, stood |-> FALSE]

WebInit == NrInit /\ \E n \in Nodes : req = NoRequest(n)

webOthers == <<lbLocals, nrVars>>

Ask(n) ==
  /\ req.at = "none"
  /\ req' = [NoRequest(n) EXCEPT !.at = "ids",
               !.steady = Listable(n), !.stood = Exists(n, "identities")]
  /\ UNCHANGED allVars

Refuse == req' = [req EXCEPT !.at = "refused"]

ReadIdentities ==
  LET found == HasData(req.node, "identities") IN
  /\ req.at = "ids"
  /\ \/ NoFault /\ found
        /\ req' = [req EXCEPT !.at = "addrs",
                     !.ids = res[req.node]["identities"]]
     \/ NoFault /\ ~found /\ Refuse
     \/ Fault /\ Refuse
  /\ UNCHANGED webOthers

(* Mutation: as many addresses as identities are not enough.               *)
MatchMore(ids1, addrs) == ids1.size < addrs.size

(* get_bootstrap_list: an address for each identity.                       *)
Match(ids1, addrs) == ids1.size = addrs.size

ReadAddresses ==
  LET addrs == res[req.node]["external-addresses"]
      found == HasData(req.node, "external-addresses") IN
  /\ req.at = "addrs"
  /\ \/ NoFault /\ found /\ Match(req.ids, addrs)
        /\ req' = [req EXCEPT !.at = "listed", !.addrs = addrs]
     \/ NoFault /\ ~(found /\ Match(req.ids, addrs)) /\ Refuse
     \/ Fault /\ Refuse
  /\ UNCHANGED webOthers

Reply ==
  /\ req.at \in {"listed", "refused"}
  /\ req' = NoRequest(req.node)
  /\ UNCHANGED allVars

WebStep == (\E n \in Nodes : Ask(n)) \/ ReadIdentities \/ ReadAddresses \/ Reply

(* The operator goes on meanwhile.                                         *)
Meanwhile ==
  /\ NrNext
  /\ \E n \in {req.node} :
       req' = [req EXCEPT !.steady = @ /\ Listable(n)',
                          !.stood = @ /\ Exists(n, "identities")']

webVars == <<allVars, req>>
WebSpec == WebInit /\ [][WebStep \/ Meanwhile]_webVars

-----------------------------------------------------------------------------
(* Properties.                                                             *)

(* The seeds of a request pair the peer ids a node still publishes with    *)
(* the addresses of those very peers, whatever was deployed, failed or     *)
(* crashed between the two reads - unless the identities were deleted      *)
(* meanwhile, which the two reads cannot notice.                           *)
SeedsOfOneGeneration ==
  req.at = "listed" /\ req.stood =>
    /\ req.ids = res[req.node]["identities"]
    /\ req.addrs.key = req.ids.key

(* A request is refused for a reason: it failed, or at some moment of it   *)
(* the node could not be listed.                                           *)
NoSpuriousRefusal ==
  req.at = "refused" /\ faults = 0 => ~req.steady
=============================================================================
