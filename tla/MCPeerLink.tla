----------------------------- MODULE MCPeerLink -----------------------------
(***************************************************************************)
(* Instances of PeerLink for TLC.                                          *)
(***************************************************************************)
EXTENDS PeerLink

=============================================================================
