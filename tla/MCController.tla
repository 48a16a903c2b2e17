---------------------------- MODULE MCController ----------------------------
(* Small instances of Controller for TLC.                                  *)
EXTENDS Controller

CONSTANTS s, b        \* two IpfsNodes

(* The storage cluster s joins the swarm of the bootstrap node b.          *)
MCNodes == {s, b}
MCStorage == {s}
MCBootstrapOf == [n \in {s} |-> b]

(* The bootstrap node alone.                                               *)
MCAlone == {b}

MCNoBootstrap == [n \in {} |-> b]
=============================================================================
