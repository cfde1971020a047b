-------------------------- MODULE MCMediaRecorder --------------------------
(* MediaRecorder for TLC. *)
EXTENDS MediaRecorder
=============================================================================
