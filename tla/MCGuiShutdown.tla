--------------------------- MODULE MCGuiShutdown ---------------------------
(* The GUI runtime around its PTY handle, with one resize. *)
EXTENDS GuiShutdown, TLC

MCThreads == {Main, Waiter}
MCMayCall == (Main :> Op \ {"wait", "kill"}) @@ (Waiter :> {"wait"})
MCCalls == (Main :> MaxResizes + 5) @@ (Waiter :> 1)
=============================================================================
