---------------------------- MODULE MCCDPClient ----------------------------
(* Instances of the DevTools client for TLC. *)
EXTENDS CDPClient
=============================================================================
