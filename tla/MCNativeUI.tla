------------------------------ MODULE MCNativeUI ------------------------------
(***************************************************************************)
(* Instances of NativeUI for TLC.                                          *)
(***************************************************************************)
EXTENDS NativeUI

=============================================================================
