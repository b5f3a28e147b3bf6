------------------------------- MODULE MCMesh -------------------------------
(***************************************************************************)
(* Instances of Mesh for TLC.                                              *)
(***************************************************************************)
EXTENDS Mesh, TLC

\* Peers, addresses and objects are not ordered.
Symmetric == Permutations(Ids) \cup Permutations(Ips) \cup Permutations(Objs)

=============================================================================
