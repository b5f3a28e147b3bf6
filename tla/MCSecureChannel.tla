-------------------------- MODULE MCSecureChannel --------------------------
(***************************************************************************)
(* An instance of SecureChannel for TLC.                                   *)
(***************************************************************************)
EXTENDS SecureChannel, TLC

\* Frames and threads are not ordered.
Symmetric == Permutations(Frames) \cup Permutations(Threads)

=============================================================================
