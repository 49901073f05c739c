------------------------- MODULE MCSampleDispatcher -------------------------
(* Small instances of SampleDispatcher for TLC. *)
EXTENDS SampleDispatcher
=============================================================================
