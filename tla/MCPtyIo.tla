------------------------------ MODULE MCPtyIo ------------------------------
(* The PTY handle with the threads of a runtime: one drives the session, the *)
(* other one is the wait pump.                                               *)
EXTENDS PtyIo, TLC

CONSTANTS main, waiter

MCThreads == {main, waiter}
(* Every call from the main thread, and a wait from both. *)
MCAll == (main :> Op) @@ (waiter :> {"wait"})
MCCalls == (main :> 3) @@ (waiter :> 1)
=============================================================================
