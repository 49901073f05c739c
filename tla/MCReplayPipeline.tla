-------------------------- MODULE MCReplayPipeline --------------------------
(* Small instances of ReplayPipeline for TLC. *)
EXTENDS ReplayPipeline
=============================================================================
