--------------------------- MODULE MCPlanActFlow ---------------------------
(* Small instances of PlanActFlow for TLC; the bounds are in the cfg files. *)
EXTENDS PlanActFlow
=============================================================================
