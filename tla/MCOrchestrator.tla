--------------------------- MODULE MCOrchestrator --------------------------
(* MCOrchestrator.cfg: one execution and two reviews, so that a held action*)
(* is reviewed while the request that submitted it is still under way, by  *)
(* two at a time, before and after its deadline.                           *)
(*                                                                         *)
(* MCPipeline.cfg: two executions in one or two workers, either of which   *)
(* may crash, and nobody to review a ticket.                               *)
EXTENDS Orchestrator
=============================================================================
