----------------------------- MODULE MCInstaller -----------------------------
(***************************************************************************)
(* Instances of Installer for TLC.                                         *)
(***************************************************************************)
EXTENDS Installer, TLC

\* Adapters are not ordered.
Symmetric == Permutations(Adapters)

=============================================================================
