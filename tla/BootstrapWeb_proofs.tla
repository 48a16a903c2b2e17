------------------------ MODULE BootstrapWeb_proofs ------------------------
(***************************************************************************)
(* Proofs about BootstrapWeb, for any nodes, deploys, deletes, failures    *)
(* and crashes beside a request: what a request is told fits together, and *)
(* it is refused for a reason.                                             *)
(***************************************************************************)
EXTENDS BootstrapWeb, NodeResources_proofs

(* What the request has read is what still stands, if the identities stood *)
(* all the time; and a node that could be listed all the time can be.      *)
ReadInv ==
  LET n == req.node IN
  /\ req.steady => req.stood
  /\ req.stood => req.at # "none" /\ Exists(n, "identities")
  /\ req.steady => Listable(n)
  /\ req.stood /\ req.at \in {"addrs", "listed"}
       => req.ids = res[n]["identities"]
  /\ req.stood /\ req.at = "listed" => req.addrs.key = req.ids.key
  /\ req.at = "refused" /\ faults = 0 => ~req.steady

WebInv == NrInv /\ req \in Requests /\ ReadInv

LEMMA WebInitInv == WebInit => WebInv
<1> SUFFICES ASSUME WebInit PROVE WebInv
  OBVIOUS
<1>1. NrInv
  BY NrInitInv DEF WebInit
<1>2. PICK n \in Nodes : req = NoRequest(n)
  BY DEF WebInit
<1> QED
  BY <1>1, <1>2, ObjectTypes DEF WebInv, Requests, NoRequest, ReadInv

LEMMA AskInv ==
  ASSUME WebInv, NEW n \in Nodes, Ask(n)
  PROVE  WebInv'
<1>1. NrInv'
  BY NrNextInv DEF WebInv, Ask
<1>2. /\ req' \in Requests /\ req'.at = "ids" /\ req'.node = n
      /\ req'.steady = Listable(n) /\ req'.stood = Exists(n, "identities")
  BY ObjectTypes
  DEF Ask, Requests, NoRequest, Listable, HasData, Exists
<1>3. Listable(n)' = Listable(n)
      /\ Exists(n, "identities")' = Exists(n, "identities")
  BY DEF Ask, allVars, nrVars, Listable, HasData, Exists
<1>4. Listable(n) => Exists(n, "identities")
  BY DEF Listable, HasData
<1> QED
  BY <1>1, <1>2, <1>3, <1>4 DEF WebInv, ReadInv
(* The steps of a request that read.                                       *)
LEMMA ReadsInv ==
  ASSUME WebInv, ReadIdentities \/ ReadAddresses
  PROVE  WebInv'
<1>1. NrInv /\ ResourcesTypeOK /\ req \in Requests /\ ReadInv
  BY DEF WebInv, NrInv
<1>0. PICK n \in Nodes : n = req.node
  BY <1>1 DEF Requests
<1>2. /\ UNCHANGED lbLocals /\ UNCHANGED nrVars /\ res' = res
      /\ Fault \/ NoFault
  BY DEF ReadIdentities, ReadAddresses, webOthers, nrVars
<1>3. NrInv'
  BY <1>1, <1>2, RequestInv
<1>4. /\ Listable(n)' = Listable(n)
      /\ Exists(n, "identities")' = Exists(n, "identities")
  BY <1>2 DEF Listable, HasData, Exists
<1>5. CASE ReadIdentities /\ req'.at = "addrs"
  <2> DEFINE o == res[n]["identities"]
  <2>1. o \in Objects /\ req' = [req EXCEPT !.at = "addrs", !.ids = o]
    BY <1>0, <1>1, <1>5
    DEF ReadIdentities, Refuse, Requests, HasData, Exists, ResourcesTypeOK,
        Kinds
  <2> HIDE DEF o
  <2>2. /\ req' \in Requests /\ req'.node = n /\ req'.at = "addrs"
        /\ req'.ids = o
        /\ req'.steady = req.steady /\ req'.stood = req.stood
    BY <1>0, <1>1, <2>1 DEF Requests
  <2>3. req.stood => Exists(n, "identities")
    BY <1>0, <1>1 DEF ReadInv
  <2> QED
    BY <1>0, <1>1, <1>2, <1>3, <1>4, <2>2, <2>3 DEF WebInv, ReadInv, o
<1>6. CASE ReadAddresses /\ req'.at = "listed"
  <2> DEFINE o == res[n]["external-addresses"]
  <2>1. /\ req.at = "addrs" /\ Exists(n, "external-addresses")
        /\ o \in Objects /\ req' = [req EXCEPT !.at = "listed", !.addrs = o]
    BY <1>0, <1>1, <1>6
    DEF ReadAddresses, Refuse, Requests, HasData, Exists, ResourcesTypeOK,
        Kinds
  <2>2. o.key = res[n]["identities"].key
    BY <1>1, <2>1 DEF NrInv, NodeInv, ObjectsAgree
  <2> HIDE DEF o
  <2>3. /\ req' \in Requests /\ req'.node = n /\ req'.at = "listed"
        /\ req'.ids = req.ids /\ req'.addrs = o
        /\ req'.steady = req.steady /\ req'.stood = req.stood
    BY <1>0, <1>1, <2>1 DEF Requests
  <2>4. req.stood
          => req.ids = res[n]["identities"] /\ Exists(n, "identities")
    BY <1>0, <1>1, <2>1 DEF ReadInv
  <2> QED
    BY <1>0, <1>1, <1>2, <1>3, <1>4, <2>2, <2>3, <2>4 DEF WebInv, ReadInv
<1>7. CASE Refuse
  <2>1. /\ req' \in Requests /\ req'.node = n /\ req'.at = "refused"
        /\ req'.steady = req.steady /\ req'.stood = req.stood
    BY <1>0, <1>1, <1>7 DEF Refuse, Requests
  <2>2. faults' = 0 => ~req.steady
    <3>1. CASE Fault
      BY <1>1, <3>1, LbAssumption DEF Fault, NrInv, LbInv, LbTypeOK
    <3>2. CASE ReadIdentities /\ ~HasData(n, "identities")
      BY <1>0, <1>1, <3>2 DEF ReadInv, Listable
    <3>3. CASE /\ ReadAddresses
               /\ ~(HasData(n, "external-addresses")
                     /\ Match(req.ids, res[n]["external-addresses"]))
      BY <1>0, <1>1, <3>3 DEF ReadInv, ReadAddresses, Listable, Match
    <3>4. CASE ~Fault /\ ReadIdentities /\ HasData(n, "identities")
      BY <1>0, <1>1, <1>7, <3>4 DEF ReadIdentities, Refuse, Requests
    <3>5. CASE /\ ~Fault /\ ReadAddresses
               /\ HasData(n, "external-addresses")
               /\ Match(req.ids, res[n]["external-addresses"])
      BY <1>0, <1>1, <1>7, <3>5 DEF ReadAddresses, Refuse, Requests
    <3> QED
      BY <3>1, <3>2, <3>3, <3>4, <3>5
  <2>3. req.stood => Exists(n, "identities")
    BY <1>0, <1>1 DEF ReadInv
  <2> QED
    BY <1>0, <1>1, <1>2, <1>3, <1>4, <2>1, <2>2, <2>3 DEF WebInv, ReadInv
<1>8. \/ ReadIdentities /\ req'.at = "addrs"
      \/ ReadAddresses /\ req'.at = "listed"
      \/ Refuse
  BY <1>1 DEF ReadIdentities, ReadAddresses, Requests
<1> QED
  BY <1>5, <1>6, <1>7, <1>8

LEMMA ReplyInv ==
  ASSUME WebInv, Reply
  PROVE  WebInv'
<1>1. NrInv'
  BY NrNextInv DEF WebInv, Reply
<1>2. /\ req' \in Requests /\ req'.at = "none"
      /\ ~req'.steady /\ ~req'.stood
  BY ObjectTypes DEF WebInv, Reply, Requests, NoRequest
<1> QED
  BY <1>1, <1>2 DEF WebInv, ReadInv

(* Whatever the operator does meanwhile, identities that stand are the     *)
(* same as before.                                                         *)
LEMMA MeanwhileInv ==
  ASSUME WebInv, Meanwhile
  PROVE  WebInv'
<1>1. NrInv /\ NrInv' /\ req \in Requests /\ ReadInv
  BY NrNextInv DEF WebInv, Meanwhile
<1>2. PICK n \in Nodes :
        /\ n = req.node /\ KeepsIdentities(n)
        /\ req' = [req EXCEPT !.steady = @ /\ Listable(n)',
                              !.stood = @ /\ Exists(n, "identities")']
  BY <1>1, NrNextKeeps DEF Meanwhile, Requests
<1>3. /\ req' \in Requests /\ req'.node = n /\ req'.at = req.at
      /\ req'.ids = req.ids /\ req'.addrs = req.addrs
      /\ req'.steady = (req.steady /\ Listable(n)')
      /\ req'.stood = (req.stood /\ Exists(n, "identities")')
  BY <1>1, <1>2 DEF Requests, Listable, HasData, Exists
<1>4. faults \in Nat /\ faults' \in {faults, faults + 1}
  BY <1>1, NrFaultsGrow DEF Meanwhile
<1>5. faults' = 0 => faults = 0
  BY <1>4
<1>6. Listable(n)' => Exists(n, "identities")'
  BY DEF Listable, HasData
<1>7. req'.stood => res'[n]["identities"] = res[n]["identities"]
  BY <1>1, <1>2, <1>3 DEF ReadInv, KeepsIdentities, Exists
<1> QED
  BY <1>1, <1>2, <1>3, <1>5, <1>6, <1>7 DEF WebInv, ReadInv

THEOREM WebInvariant == WebSpec => []WebInv
<1>1. WebInv /\ UNCHANGED webVars => WebInv'
  <2> SUFFICES ASSUME WebInv, UNCHANGED webVars PROVE WebInv'
    OBVIOUS
  <2>1. NrInv' /\ req' = req /\ res' = res /\ faults' = faults
    BY NrNextInv DEF WebInv, webVars, allVars, nrVars, lbVars
  <2> QED
    BY <2>1 DEF WebInv, ReadInv, Listable, HasData, Exists
<1>2. WebInv /\ [WebStep \/ Meanwhile]_webVars => WebInv'
  BY <1>1, AskInv, ReadsInv, ReplyInv, MeanwhileInv DEF WebStep
<1> QED
  BY <1>2, WebInitInv, PTL DEF WebSpec

(* The seeds of a request pair the peer ids a node still publishes with    *)
(* the addresses of those very peers.                                      *)
THEOREM SeedsFitTogether == WebSpec => []SeedsOfOneGeneration
<1>1. WebInv => SeedsOfOneGeneration
  BY DEF WebInv, ReadInv, SeedsOfOneGeneration
<1> QED
  BY <1>1, WebInvariant, PTL

(* A request is refused because it failed, or because at some moment of it *)
(* the node could not be listed.                                           *)
THEOREM RefusedForAReason == WebSpec => []NoSpuriousRefusal
<1>1. WebInv => NoSpuriousRefusal
  BY DEF WebInv, ReadInv, NoSpuriousRefusal
<1> QED
  BY <1>1, WebInvariant, PTL
=============================================================================
