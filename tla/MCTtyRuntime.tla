----------------------------- MODULE MCTtyRuntime -----------------------------
(* The TTY runtime with short waits: a MinTimeout of 1, and a longest that  *)
(* differs by mode so that a change of the mode matters.                    *)
EXTENDS TtyRuntime

MCMaxTimeoutOf == [m \in Modes |-> IF m = "Gpu" THEN 1 ELSE 2]
=============================================================================
