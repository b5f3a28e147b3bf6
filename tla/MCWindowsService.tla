-------------------------- MODULE MCWindowsService --------------------------
(***************************************************************************)
(* Instances of WindowsService for TLC.                                    *)
(***************************************************************************)
EXTENDS WindowsService, TLC

\* Clients and engine processes are not ordered.
Symmetric == Permutations(Clients) \cup Permutations(Engines)

=============================================================================
