----------------------------- MODULE MCRollout -----------------------------
(* A small instance of Rollout for TLC: a bootstrap node.                 *)
EXTENDS Rollout, TLC

CONSTANTS b        \* an IpfsNode

MCAlone == {b}
MCNoBootstrap == [n \in {} |-> b]

(* Keys are only compared.                                                *)
MCSymmetry == Permutations(Keys)
=============================================================================
