-------------------------- MODULE MCEventPipeline --------------------------
(* Instances of EventPipeline are given by their configurations alone.      *)
EXTENDS EventPipeline
=============================================================================
