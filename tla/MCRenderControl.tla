--------------------------- MODULE MCRenderControl --------------------------
(* Render control with the budgets of the code.                             *)
EXTENDS RenderControl
=============================================================================
