---------------------------- MODULE MCICamTunnel ----------------------------
(* ICamTunnel for TLC. *)
EXTENDS ICamTunnel
=============================================================================
