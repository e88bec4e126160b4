---------------------------- MODULE MCOutputPump ----------------------------
(* The output pump on small instances; the constants are in the .cfg files. *)
EXTENDS OutputPump
=============================================================================
