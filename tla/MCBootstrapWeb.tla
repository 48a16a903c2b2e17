-------------------------- MODULE MCBootstrapWeb ---------------------------
(* Small instances of BootstrapWeb for TLC.                               *)
EXTENDS BootstrapWeb

CONSTANTS s, b        \* two IpfsNodes

(* The storage cluster s joins the swarm of the bootstrap node b.          *)
MCNodes == {s, b}
MCStorage == {s}
MCBootstrapOf == [n \in {s} |-> b]

(* The bootstrap node alone.                                               *)
MCAlone == {b}
MCNoBootstrap == [n \in {} |-> b]

MCReplicas == {-1, 0, 1, 2}
=============================================================================
