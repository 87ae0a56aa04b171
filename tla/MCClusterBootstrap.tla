-------------------------- MODULE MCClusterBootstrap --------------------------
(* Instances of ClusterBootstrap for TLC. *)
EXTENDS ClusterBootstrap, TLC

CONSTANTS c1, c2, c3

ControllerSymmetry == Permutations(Controllers)

=============================================================================
