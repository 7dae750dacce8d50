--------------------------- MODULE AgentLifecycle ---------------------------
(***************************************************************************)
(* What a listener of Agent.subscribe is promised: the order of the events *)
(* of one run.  A run is agent_start, turns, agent_end; a turn is          *)
(* turn_start, whole messages and tool executions, turn_end; a message is  *)
(* message_start, updates, message_end; a tool execution ends inside the   *)
(* turn it started in, once.                                               *)
(*                                                                         *)
(* Two disturbances are part of the promise when the constants admit them: *)
(* a run that fails jumps to agent_end from wherever it was, and a run     *)
(* whose task is cancelled ends without a word.                            *)
(***************************************************************************)
CONSTANTS Call,       \* the tool calls
          NoCall,     \* the call of an event that is about none
          MayFail,    \* may a listener or the provider raise?
          MayCancel   \* may the task of the run be cancelled?

VARIABLES stage,      \* where the listener believes the run is
          open,       \* the tool executions started and not ended
          event       \* the last event delivered

vars == <<stage, open, event>>

Stages == {"idle", "run", "turn", "message", "ended"}

EventTypes ==
  {"none", "agent_start", "turn_start", "message_start", "message_update",
   "message_end", "tool_execution_start", "tool_execution_end", "turn_end",
   "agent_end"}

TypeOK ==
  /\ stage \in Stages
  /\ open \subseteq Call
  /\ event \in [type : EventTypes, call : Call \cup {NoCall}]

Delivered(type) == event' = [type |-> type, call |-> NoCall]

Move(from, to, type) ==
  /\ stage = from
  /\ stage' = to
  /\ Delivered(type)
  /\ UNCHANGED open

Init ==
  /\ stage = "idle"
  /\ open = {}
  /\ event = [type |-> "none", call |-> NoCall]

AgentStart    == Move("idle", "run", "agent_start")
TurnStart     == Move("run", "turn", "turn_start")
MessageStart  == Move("turn", "message", "message_start")
MessageUpdate == Move("message", "message", "message_update")
MessageEnd    == Move("message", "turn", "message_end")
TurnEnd       == open = {} /\ Move("turn", "run", "turn_end")
AgentEnd      == Move("run", "ended", "agent_end")

ToolStart(c) ==
  /\ stage = "turn"
  /\ open' = open \cup {c}
  /\ event' = [type |-> "tool_execution_start", call |-> c]
  /\ UNCHANGED stage

ToolEnd(c) ==
  /\ stage = "turn"
  /\ c \in open
  /\ open' = open \ {c}
  /\ event' = [type |-> "tool_execution_end", call |-> c]
  /\ UNCHANGED stage

Fail ==
  /\ MayFail
  /\ stage # "idle"
  /\ stage' = "ended"
  /\ open' = {}
  /\ Delivered("agent_end")

Return ==
  /\ stage = "ended" \/ (MayCancel /\ stage # "idle")
  /\ stage' = "idle"
  /\ open' = {}
  /\ UNCHANGED event

Next ==
  \/ AgentStart \/ TurnStart \/ TurnEnd \/ AgentEnd
  \/ MessageStart \/ MessageUpdate \/ MessageEnd
  \/ \E c \in Call : ToolStart(c) \/ ToolEnd(c)
  \/ Fail \/ Return

Spec == Init /\ [][Next]_vars
=============================================================================
