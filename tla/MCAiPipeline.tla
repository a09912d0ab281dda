---------------------------- MODULE MCAiPipeline ----------------------------
(* AiPipeline with a small restart limit and few servers. *)
EXTENDS AiPipeline
=============================================================================
