-------------------------- MODULE MCNodeResources --------------------------
(* Small instances of NodeResources for TLC.                               *)
EXTENDS NodeResources, TLC

CONSTANTS s, b        \* two IpfsNodes

(* The storage cluster s joins the swarm of the bootstrap node b.          *)
MCNodes == {s, b}
MCStorage == {s}
MCBootstrapOf == [n \in {s} |-> b]

(* The bootstrap node alone.                                               *)
MCAlone == {b}
MCNoBootstrap == [n \in {} |-> b]

MCReplicas == {-1, 0, 1, 2}

(* Keys are only compared.                                                 *)
MCSymmetry == Permutations(Keys)
=============================================================================
