---------------------------- MODULE OutputStream ----------------------------
(***************************************************************************)
(* What the output path promises: an ordered stream.  The terminal receives *)
(* the chunks of the PTY in order, each once, and a session whose stream    *)
(* ends as complete has delivered all of them.  A stream that is abandoned  *)
(* (a fatal error, a local shutdown, a timeout) promises nothing more.      *)
(***************************************************************************)
EXTENDS Naturals, Sequences

VARIABLES
  produced,   \* chunks the PTY has produced, numbered from 1
  delivered,  \* the sequence of chunks the terminal has received
  ended       \* "open", "complete" or "abandoned"

vars == <<produced, delivered, ended>>

firstChunks(n) == [i \in 1 .. n |-> i]

Init == produced = 0 /\ delivered = <<>> /\ ended = "open"

Produce ==
  /\ ended # "complete"
  /\ produced' = produced + 1
  /\ UNCHANGED <<delivered, ended>>

Deliver ==
  /\ ended = "open"
  /\ \E n \in Len(delivered) + 1 .. produced : delivered' = firstChunks(n)
  /\ UNCHANGED <<produced, ended>>

Complete ==
  /\ ended = "open" /\ delivered = firstChunks(produced)
  /\ ended' = "complete"
  /\ UNCHANGED <<produced, delivered>>

(* From here on delivered is not constrained. *)
Abandon ==
  /\ ended \in {"open", "abandoned"}
  /\ ended' = "abandoned"
  /\ UNCHANGED produced

Next == Produce \/ Deliver \/ Complete \/ Abandon

Spec == Init /\ [][Next]_vars
=============================================================================
