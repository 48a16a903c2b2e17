--------------------------- MODULE MCLoadBalancer ---------------------------
(* Small instances of LoadBalancer for TLC.                                *)
EXTENDS LoadBalancer

CONSTANTS s, b         \* two IpfsNodes

MCNodes == {s, b}
MCSole == {s}          \* a storage cluster s and a bootstrap node b

MCReplicas == {-1, 0, 1, 2}  \* as a usize, -1 is the largest value
=============================================================================
