---------------------------- MODULE PendingQueue ----------------------------
(***************************************************************************)
(* _PendingMessageQueue of py_agent/agent.py: what one drain takes from a  *)
(* queue of user messages and what it leaves behind.  Agent keeps two of   *)
(* these queues, one for steering and one for follow-up messages.          *)
(***************************************************************************)
EXTENDS Sequences

QueueModes == {"all", "one-at-a-time"}

Drained(mode, queue) ==
  IF queue = <<>> \/ mode = "all" THEN queue ELSE <<Head(queue)>>

\* A drain that forgets to pop what it returns.
RemainingKeepsHead(mode, queue) == IF mode = "all" THEN <<>> ELSE queue

\* A drain that empties the queue in either mode.
RemainingNothing(mode, queue) == <<>>

Remaining(mode, queue) ==
  IF queue = <<>> \/ mode = "all" THEN <<>> ELSE Tail(queue)
=============================================================================
