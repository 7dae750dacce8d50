------------------------------- MODULE Agent -------------------------------
(***************************************************************************)
(* Agent (py_agent/agent.py) and the loop it runs (py_agent/agent_loop.py):*)
(* the transcript, the steering and follow-up queues, the turns, the tool  *)
(* batches of both execution modes, and the calls other coroutines make    *)
(* while a run is suspended.                                               *)
(*                                                                         *)
(* asyncio interleaves coroutines only where one awaits, so a step is the  *)
(* code from one suspension to the next.  Every emitted event is such a    *)
(* point: the listeners are awaited.  A step that emits an event makes the *)
(* change _process_event makes to the state, leaves the run suspended in   *)
(* the listeners, and pc says what the run does when they return.          *)
(***************************************************************************)
EXTENDS Naturals, PendingQueue, FiniteSets

CONSTANTS
  MaxUsers,     \* bound: user messages ever submitted
  MaxBatches,   \* bound: assistant messages that carry tool calls
  MaxCalls,     \* bound: tool calls of one assistant message
  Modes,        \* the queue modes a run of the model explores
  Disruptions,  \* what may disturb a run, a subset of AllDisruptions
  Waiters       \* the coroutines that may call wait_for_idle

AllDisruptions ==
  {"raise",    \* a listener, hook or provider raises
   "cancel",   \* the task awaiting the run is cancelled
   "reset",    \* Agent.reset, at any time
   "clear",    \* Agent.clear_*_queue, at any time
   "abort",    \* Agent.abort
   "mode",     \* the queue modes are set again, at any time
   "giveUp"}   \* a coroutine that waits for the end of the run is cancelled

ASSUME AgentAssumption ==
  /\ MaxUsers \in Nat
  /\ MaxBatches \in Nat
  /\ MaxCalls \in Nat \ {0}
  /\ Modes \subseteq QueueModes /\ Modes # {}
  /\ Disruptions \subseteq AllDisruptions

Calls == 1..MaxCalls

(***************************************************************************)
(* A tool call id is the number of the assistant message that carries it   *)
(* and its place there.  Batch 0 is that of messages without tool calls.   *)
(***************************************************************************)
CallId == (1..MaxBatches) \X Calls
NoCall == <<0, 0>>

Kinds == {"prompt", "steer", "followUp"}
Stops == {"stop", "error", "aborted", "partial"}

UserOf(kinds) == [role : {"user"}, kind : kinds, id : Nat]
UserMessage == UserOf(Kinds)
AssistantMessage ==
  [role : {"assistant"}, batch : 0..MaxBatches, calls : 0..MaxCalls,
   stop : Stops]
ToolResultMessage == [role : {"toolResult"}, batch : 1..MaxBatches, call : Calls]
Message == UserMessage \cup AssistantMessage \cup ToolResultMessage

User(k, n) == [role |-> "user", kind |-> k, id |-> n]
Assistant(b, n, s) ==
  [role |-> "assistant", batch |-> b, calls |-> n, stop |-> s]
Result(b, i) == [role |-> "toolResult", batch |-> b, call |-> i]

Partial == Assistant(0, 0, "partial")
NoReply == Assistant(0, 0, "stop")

VARIABLES
  \* the observable state of Agent
  messages,        \* state.messages, the transcript
  isStreaming,     \* state.is_streaming
  streaming,       \* is state.streaming_message set?
  pending,         \* state.pending_tool_calls
  event,           \* the last event the listeners were given
  \* its queues
  steeringQueue, followUpQueue, mode,
  \* the active run: its control point, abort flag, waiters, and whether the
  \* cancellation of one of them has cancelled its completion future
  pc, aborted, waiter, cancelled,
  \* the locals of run_agent_loop and _run_loop
  context, newMessages, outbox, firstPoll, skipPoll, reply,
  \* the locals of _execute_tool_calls
  tool, terminating, posted, sequential,
  \* tool tasks their run has left behind
  orphans,
  \* supply of the environment
  submitted, batch

stateVars == <<messages, isStreaming, streaming, pending>>
queueVars == <<steeringQueue, followUpQueue, mode>>
loopVars  == <<context, newMessages, outbox, firstPoll, skipPoll, reply>>
batchVars == <<tool, terminating, posted, sequential>>
restVars  == <<aborted, waiter, cancelled, orphans, submitted, batch>>
vars == <<stateVars, event, queueVars, pc, loopVars, batchVars, restVars>>

(***************************************************************************)
(* Control points.  Each is named for what the run last did; the ones in   *)
(* Emitting await the listeners of the event they emitted.  At "polled",   *)
(* and at "tools" until the last call is started, the run goes on at once. *)
(***************************************************************************)
Emitting ==
  {"started", "turnStarted", "delivering", "streaming", "replyStarted",
   "replied", "prepare", "toolEnded", "posting", "posted", "turnEnded",
   "ended"}
Points == Emitting \cup {"idle", "polled", "request", "tools", "executing", "failing"}

ToolStates == {"idle", "started", "running", "ending", "done", "raised"}

Types ==
  {"none", "agent_start", "turn_start", "message_start", "message_update",
   "message_end", "tool_execution_start", "tool_execution_end", "turn_end",
   "agent_end"}

StateTypeOK ==
  /\ messages \in Seq(Message)
  /\ isStreaming \in BOOLEAN
  /\ streaming \in BOOLEAN
  /\ pending \subseteq CallId
  /\ event \in [type : Types, call : CallId \cup {NoCall}]

QueueTypeOK ==
  /\ steeringQueue \in Seq(UserOf({"steer"}))
  /\ followUpQueue \in Seq(UserOf({"followUp"}))
  /\ mode \in [{"steer", "followUp"} -> QueueModes]

LoopTypeOK ==
  /\ pc \in Points
  /\ context \in Seq(Message)
  /\ newMessages \in Seq(Message)
  /\ outbox \in Seq(UserMessage)
  /\ firstPoll \in BOOLEAN
  /\ skipPoll \in BOOLEAN
  /\ reply \in AssistantMessage

BatchTypeOK ==
  /\ tool \in [Calls -> ToolStates]
  /\ terminating \subseteq Calls
  /\ posted \in 0..MaxCalls
  /\ sequential \in BOOLEAN

RestTypeOK ==
  /\ aborted \in BOOLEAN
  /\ waiter \in [Waiters -> {"none", "waiting", "woken"}]
  /\ cancelled \in BOOLEAN
  /\ orphans \subseteq CallId
  /\ submitted \in 0..MaxUsers
  /\ batch \in 0..MaxBatches

TypeOK ==
  /\ StateTypeOK /\ QueueTypeOK /\ LoopTypeOK /\ BatchTypeOK /\ RestTypeOK

NoTools == [i \in Calls |-> "idle"]

Init ==
  /\ messages = <<>> /\ isStreaming = FALSE /\ streaming = FALSE /\ pending = {}
  /\ event = [type |-> "none", call |-> NoCall]
  /\ steeringQueue = <<>> /\ followUpQueue = <<>>
  /\ mode \in [{"steer", "followUp"} -> Modes]
  /\ pc = "idle" /\ aborted = FALSE
  /\ waiter = [w \in Waiters |-> "none"] /\ cancelled = FALSE
  /\ context = <<>> /\ newMessages = <<>> /\ outbox = <<>>
  /\ firstPoll = FALSE /\ skipPoll = FALSE /\ reply = NoReply
  /\ tool = NoTools /\ terminating = {} /\ posted = 0 /\ sequential = FALSE
  /\ orphans = {} /\ submitted = 0 /\ batch = 0

Emit(type) == event' = [type |-> type, call |-> NoCall]
EmitCall(type, c) == event' = [type |-> type, call |-> c]

-----------------------------------------------------------------------------
(***************************************************************************)
(* Starting a run: prompt, continue_ and _run_with_lifecycle up to the     *)
(* agent_start event.  The context is a copy of the transcript plus the    *)
(* prompts, which are still to be announced one by one.                    *)
(***************************************************************************)
\* As ClearBatch, the count of the results posted surviving.
ClearBatchKeepsPosted ==
  /\ tool' = NoTools
  /\ terminating' = {}
  /\ UNCHANGED posted

ClearBatch ==
  /\ tool' = NoTools
  /\ terminating' = {}
  /\ posted' = 0

StartRun(prompts, skip) ==
  /\ pc = "idle"
  /\ pc' = "started"
  /\ isStreaming' = TRUE
  /\ streaming' = FALSE
  /\ context' = messages \o prompts
  /\ newMessages' = prompts
  /\ outbox' = prompts
  /\ firstPoll' = TRUE
  /\ skipPoll' = skip
  /\ reply' = NoReply
  /\ Emit("agent_start")
  /\ UNCHANGED <<messages, pending, mode, batchVars, aborted, waiter, cancelled,
                 orphans, batch>>

\* One prompt message, or a list of two.  An active agent refuses the call.
Prompt ==
  \E n \in 1..2 :
    /\ submitted + n <= MaxUsers
    /\ StartRun([i \in 1..n |-> User("prompt", submitted + i)], FALSE)
    /\ submitted' = submitted + n
    /\ UNCHANGED <<steeringQueue, followUpQueue>>

LastRole == IF messages = <<>> THEN "none" ELSE messages[Len(messages)].role

\* As ContinueWithSteering, the run polling the queue once more.
ContinueWithSteeringTwice ==
  /\ LastRole = "assistant"
  /\ steeringQueue # <<>>
  /\ StartRun(Drained(mode["steer"], steeringQueue), FALSE)
  /\ steeringQueue' = Remaining(mode["steer"], steeringQueue)
  /\ UNCHANGED <<followUpQueue, submitted>>

ContinueWithSteering ==
  /\ LastRole = "assistant"
  /\ steeringQueue # <<>>
  /\ StartRun(Drained(mode["steer"], steeringQueue), TRUE)
  /\ steeringQueue' = Remaining(mode["steer"], steeringQueue)
  /\ UNCHANGED <<followUpQueue, submitted>>

ContinueWithFollowUp ==
  /\ LastRole = "assistant"
  /\ steeringQueue = <<>>
  /\ followUpQueue # <<>>
  /\ StartRun(Drained(mode["followUp"], followUpQueue), FALSE)
  /\ followUpQueue' = Remaining(mode["followUp"], followUpQueue)
  /\ UNCHANGED <<steeringQueue, submitted>>

ContinueRun ==
  /\ LastRole \in {"user", "toolResult"}
  /\ StartRun(<<>>, FALSE)
  /\ UNCHANGED <<steeringQueue, followUpQueue, submitted>>

-----------------------------------------------------------------------------
(***************************************************************************)
(* The loop.  outbox holds the messages still to be announced: the prompts *)
(* first, then what a poll of a queue returned.                            *)
(***************************************************************************)
FirstTurn ==
  /\ pc = "started"
  /\ pc' = "turnStarted"
  /\ Emit("turn_start")
  /\ UNCHANGED <<stateVars, queueVars, loopVars, batchVars, restVars>>

\* The poll before the first request, once the prompts are announced.
FirstPoll ==
  /\ pc = "turnStarted" /\ firstPoll /\ outbox = <<>>
  /\ pc' = "polled"
  /\ firstPoll' = FALSE
  /\ skipPoll' = FALSE
  /\ IF skipPoll
     THEN UNCHANGED <<outbox, steeringQueue>>
     ELSE /\ outbox' = Drained(mode["steer"], steeringQueue)
          /\ steeringQueue' = Remaining(mode["steer"], steeringQueue)
  /\ UNCHANGED <<stateVars, event, followUpQueue, mode, context, newMessages,
                 reply, batchVars, restVars>>

DeliverStart ==
  /\ pc \in {"turnStarted", "polled"} /\ outbox # <<>>
  /\ pc' = "delivering"
  /\ streaming' = TRUE
  /\ Emit("message_start")
  /\ UNCHANGED <<messages, isStreaming, pending, queueVars, loopVars,
                 batchVars, restVars>>

\* Prompts are in the context from the start; injected messages join it here.
DeliverEnd ==
  /\ pc = "delivering"
  /\ pc' = "turnStarted"
  /\ messages' = Append(messages, Head(outbox))
  /\ streaming' = FALSE
  /\ outbox' = Tail(outbox)
  /\ IF firstPoll
     THEN UNCHANGED <<context, newMessages>>
     ELSE /\ context' = Append(context, Head(outbox))
          /\ newMessages' = Append(newMessages, Head(outbox))
  /\ Emit("message_end")
  /\ UNCHANGED <<isStreaming, pending, queueVars, firstPoll, skipPoll, reply,
                 batchVars, restVars>>

\* transform_context, convert_to_llm, get_api_key and stream_fn are awaited.
Request ==
  /\ pc \in {"turnStarted", "polled"} /\ ~firstPoll /\ outbox = <<>>
  /\ pc' = "request"
  /\ UNCHANGED <<stateVars, event, queueVars, loopVars, batchVars, restVars>>

-----------------------------------------------------------------------------
(***************************************************************************)
(* The reply: _stream_assistant_response.  The provider may stream it (a   *)
(* partial message joins the context and is replaced) or give it whole.    *)
(***************************************************************************)
Replies ==
  {Assistant(0, 0, s) : s \in {"stop", "error"}} \cup
  {Assistant(b, n, s) : b \in {batch + 1} \cap 1..MaxBatches,
                        n \in Calls, s \in {"stop", "error"}}

\* Whether the batch will run in parallel is up to the tools and the config.
ExpectBatch(r) ==
  /\ ClearBatch
  /\ batch' = IF r.calls = 0 THEN batch ELSE r.batch
  /\ sequential' \in (IF r.calls = 0 THEN {FALSE} ELSE BOOLEAN)

StreamStart ==
  /\ pc = "request"
  /\ pc' = "streaming"
  /\ context' = Append(context, Partial)
  /\ streaming' = TRUE
  /\ Emit("message_start")
  /\ UNCHANGED <<messages, isStreaming, pending, queueVars, newMessages,
                 outbox, firstPoll, skipPoll, reply, batchVars, restVars>>

StreamUpdate ==
  /\ pc = "streaming"
  /\ streaming' = TRUE
  /\ Emit("message_update")
  /\ UNCHANGED <<messages, isStreaming, pending, queueVars, pc, loopVars,
                 batchVars, restVars>>

StreamDone ==
  /\ pc = "streaming"
  /\ pc' = "replied"
  /\ \E r \in Replies :
       /\ context' = [context EXCEPT ![Len(context)] = r]
       /\ messages' = Append(messages, r)
       /\ newMessages' = Append(newMessages, r)
       /\ reply' = r
       /\ ExpectBatch(r)
  /\ streaming' = FALSE
  /\ Emit("message_end")
  /\ UNCHANGED <<isStreaming, pending, queueVars, outbox, firstPoll, skipPoll,
                 aborted, waiter, cancelled, orphans, submitted>>

\* A stream whose first event is the last one announces the message itself.
ReplyStart ==
  /\ pc = "request"
  /\ pc' = "replyStarted"
  /\ \E r \in Replies :
       /\ context' = Append(context, r)
       /\ reply' = r
       /\ ExpectBatch(r)
  /\ streaming' = TRUE
  /\ Emit("message_start")
  /\ UNCHANGED <<messages, isStreaming, pending, queueVars, newMessages,
                 outbox, firstPoll, skipPoll, aborted, waiter, cancelled,
                 orphans, submitted>>

ReplyEnd ==
  /\ pc = "replyStarted"
  /\ pc' = "replied"
  /\ messages' = Append(messages, reply)
  /\ newMessages' = Append(newMessages, reply)
  /\ streaming' = FALSE
  /\ Emit("message_end")
  /\ UNCHANGED <<isStreaming, pending, queueVars, context, outbox, firstPoll,
                 skipPoll, reply, batchVars, restVars>>

Failed == reply.stop = "error"

-----------------------------------------------------------------------------
(***************************************************************************)
(* The tool batch.  In parallel mode the calls are announced and prepared  *)
(* one after the other while the tasks of the earlier ones already run; in *)
(* sequential mode a call is announced, run and answered before the next.  *)
(***************************************************************************)
\* As Batch, the calls of a failed reply being executed too.
BatchOfAnyReply == 1..reply.calls

Batch == IF Failed THEN {} ELSE 1..reply.calls
OpenCalls ==
  {<<reply.batch, i>> : i \in {j \in Calls : tool[j] \in {"started", "running"}}}
AllStarted == \A i \in Batch : tool[i] # "idle"
AllDone == \A i \in Batch : tool[i] = "done"

\* Can another coroutine run?  It is a guard of the steps of others that do
\* not commute with what the loop does next.
Suspended == pc # "polled" /\ (pc = "tools" => AllStarted)

ToolStart(i) ==
  /\ pc \in IF sequential THEN {"replied", "posted"}
            ELSE {"replied", "tools", "toolEnded"}
  /\ i \in Batch
  /\ tool[i] = "idle"
  /\ \A j \in 1..(i - 1) : tool[j] # "idle"
  /\ pc' = "prepare"
  /\ tool' = [tool EXCEPT ![i] = "started"]
  /\ pending' = pending \cup {<<reply.batch, i>>}
  /\ EmitCall("tool_execution_start", <<reply.batch, i>>)
  /\ UNCHANGED <<messages, isStreaming, streaming, queueVars, loopVars,
                 terminating, posted, sequential, restVars>>

\* As CallEnded, with pending_tool_calls left as it is.
CallEndedKeepsPending(c) ==
  /\ UNCHANGED pending
  /\ EmitCall("tool_execution_end", c)

\* The effect of tool_execution_end on the state.
CallEnded(c) ==
  /\ pending' = pending \ {c}
  /\ EmitCall("tool_execution_end", c)

\* No such tool, bad arguments, or before_tool_call blocks it or raises.
RejectCall(i) ==
  /\ pc = "prepare" /\ tool[i] = "started"
  /\ pc' = "toolEnded"
  /\ tool' = [tool EXCEPT ![i] = "done"]
  /\ CallEnded(<<reply.batch, i>>)
  /\ UNCHANGED <<messages, isStreaming, streaming, queueVars, loopVars,
                 terminating, posted, sequential, restVars>>

AcceptCall(i) ==
  /\ pc = "prepare" /\ tool[i] = "started"
  /\ pc' = IF sequential THEN "executing" ELSE "tools"
  /\ tool' = [tool EXCEPT ![i] = "running"]
  /\ UNCHANGED <<stateVars, event, queueVars, loopVars, terminating, posted,
                 sequential, restVars>>

\* Executed and finalized; the result may ask to terminate.
FinishCall(i, state) ==
  /\ tool[i] = "running"
  /\ tool' = [tool EXCEPT ![i] = state]
  /\ terminating' \in {terminating, terminating \cup {i}}
  /\ CallEnded(<<reply.batch, i>>)
  /\ UNCHANGED <<messages, isStreaming, streaming, queueVars, loopVars,
                 posted, sequential, restVars>>

SequentialEnd(i) ==
  /\ pc = "executing"
  /\ pc' = "toolEnded"
  /\ FinishCall(i, "done")

\* In a task of its own, whatever the loop is doing meanwhile.
TaskEnd(i) ==
  /\ ~sequential /\ Suspended
  /\ FinishCall(i, "ending")
  /\ UNCHANGED pc

\* The listeners of the task's tool_execution_end return, or one raises.
TaskReturn(i) ==
  /\ tool[i] = "ending" /\ Suspended
  /\ \/ tool' = [tool EXCEPT ![i] = "done"]
     \/ /\ "raise" \in Disruptions
        /\ tool' = [tool EXCEPT ![i] = "raised"]
  /\ UNCHANGED <<stateVars, event, queueVars, pc, loopVars, terminating,
                 posted, sequential, restVars>>

\* As ResultStart, without waiting for the tasks.
ResultStartEarly ==
  /\ IF sequential THEN pc = "toolEnded"
     ELSE /\ pc \in {"tools", "toolEnded", "posted"}
          /\ posted < reply.calls
          /\ tool[posted + 1] = "done"
  /\ pc' = "posting"
  /\ streaming' = TRUE
  /\ Emit("message_start")
  /\ UNCHANGED <<messages, isStreaming, pending, queueVars, loopVars,
                 batchVars, restVars>>

ResultStart ==
  /\ IF sequential THEN pc = "toolEnded"
     ELSE /\ pc \in {"tools", "toolEnded", "posted"}
          /\ AllDone
          /\ posted < reply.calls
  /\ pc' = "posting"
  /\ streaming' = TRUE
  /\ Emit("message_start")
  /\ UNCHANGED <<messages, isStreaming, pending, queueVars, loopVars,
                 batchVars, restVars>>

\* As ResultEnd, the last call answered first.
ResultEndReversed ==
  /\ pc = "posting"
  /\ pc' = "posted"
  /\ posted' = posted + 1
  /\ messages' = Append(messages, Result(reply.batch, reply.calls - posted))
  /\ streaming' = FALSE
  /\ Emit("message_end")
  /\ UNCHANGED <<isStreaming, pending, queueVars, loopVars, tool, terminating,
                 sequential, restVars>>

ResultEnd ==
  /\ pc = "posting"
  /\ pc' = "posted"
  /\ posted' = posted + 1
  /\ messages' = Append(messages, Result(reply.batch, posted + 1))
  /\ streaming' = FALSE
  /\ Emit("message_end")
  /\ UNCHANGED <<isStreaming, pending, queueVars, loopVars, tool, terminating,
                 sequential, restVars>>

\* _should_terminate_batch: all of a nonempty batch ask for it.
Terminates == Batch # {} /\ terminating = Batch
HasMoreToolCalls == Batch # {} /\ ~Terminates

\* As BatchOver, the first result closing the batch.
BatchOverAtFirstResult ==
  \/ pc = "replied" /\ Batch = {}
  \/ pc = "posted"

BatchOver ==
  \/ pc = "replied" /\ Batch = {}
  \/ pc = "posted" /\ posted = reply.calls

Results == [i \in 1..posted |-> Result(reply.batch, i)]

\* As TurnEnd, the results missing from the context.
TurnEndForgetsContext ==
  /\ BatchOver
  /\ pc' = "turnEnded"
  /\ newMessages' = newMessages \o Results
  /\ Emit("turn_end")
  /\ UNCHANGED <<stateVars, queueVars, context, outbox, firstPoll, skipPoll,
                 reply, batchVars, restVars>>

TurnEnd ==
  /\ BatchOver
  /\ pc' = "turnEnded"
  /\ context' = context \o Results
  /\ newMessages' = newMessages \o Results
  /\ Emit("turn_end")
  /\ UNCHANGED <<stateVars, queueVars, outbox, firstPoll, skipPoll, reply,
                 batchVars, restVars>>

-----------------------------------------------------------------------------
(***************************************************************************)
(* After a turn: poll steering; then, if nothing is left to do, poll the   *)
(* follow-ups; then end.  A failed reply ends the run without a poll.      *)
(***************************************************************************)
BeginTurn ==
  /\ pc = "turnEnded" /\ ~Failed
  /\ pc' = "turnStarted"
  /\ Emit("turn_start")
  /\ UNCHANGED <<stateVars, mode, context, newMessages, firstPoll, skipPoll,
                 reply, batchVars, restVars>>

NextTurn ==
  /\ BeginTurn
  /\ HasMoreToolCalls \/ steeringQueue # <<>>
  /\ outbox' = Drained(mode["steer"], steeringQueue)
  /\ steeringQueue' = Remaining(mode["steer"], steeringQueue)
  /\ UNCHANGED followUpQueue

\* As FollowUpTurn, not looking at the steering queue.
FollowUpTurnEagerly ==
  /\ BeginTurn
  /\ ~HasMoreToolCalls /\ followUpQueue # <<>>
  /\ outbox' = Drained(mode["followUp"], followUpQueue)
  /\ followUpQueue' = Remaining(mode["followUp"], followUpQueue)
  /\ UNCHANGED steeringQueue

FollowUpTurn ==
  /\ BeginTurn
  /\ ~HasMoreToolCalls /\ steeringQueue = <<>> /\ followUpQueue # <<>>
  /\ outbox' = Drained(mode["followUp"], followUpQueue)
  /\ followUpQueue' = Remaining(mode["followUp"], followUpQueue)
  /\ UNCHANGED steeringQueue

AgentEnd ==
  /\ pc = "turnEnded"
  /\ \/ Failed
     \/ ~HasMoreToolCalls /\ steeringQueue = <<>> /\ followUpQueue = <<>>
  /\ pc' = "ended"
  /\ streaming' = FALSE
  /\ Emit("agent_end")
  /\ UNCHANGED <<messages, isStreaming, pending, queueVars, loopVars,
                 batchVars, restVars>>

-----------------------------------------------------------------------------
(***************************************************************************)
(* How a run is left.  Tasks of the batch that still run when an exception *)
(* or a cancellation leaves it are nobody's: they go on as orphans.        *)
(***************************************************************************)
RunningTasks ==
  IF sequential THEN {}
  ELSE {<<reply.batch, i>> : i \in {j \in Calls : tool[j] = "running"}}

LeaveLoop ==
  /\ orphans' = orphans \cup RunningTasks
  /\ ClearBatch
  /\ sequential' = FALSE
  /\ context' = <<>> /\ newMessages' = <<>> /\ outbox' = <<>>
  /\ firstPoll' = FALSE /\ skipPoll' = FALSE /\ reply' = NoReply

\* Whoever awaits the completion future is scheduled when it is done.
Woken ==
  [w \in Waiters |-> IF waiter[w] = "waiting" THEN "woken" ELSE waiter[w]]

\* As BecomeIdle, the pending calls of the run staying behind.
BecomeIdleKeepsPending ==
  /\ pc' = "idle"
  /\ isStreaming' = FALSE
  /\ streaming' = FALSE
  /\ UNCHANGED pending
  /\ aborted' = FALSE
  /\ waiter' = IF cancelled THEN waiter ELSE Woken
  /\ cancelled' = FALSE

\* As BecomeIdle, the completion future never set.
BecomeIdleKeepsWaiters ==
  /\ pc' = "idle"
  /\ isStreaming' = FALSE
  /\ streaming' = FALSE
  /\ pending' = {}
  /\ aborted' = FALSE
  /\ cancelled' = FALSE
  /\ UNCHANGED waiter

\* The finally clause of _run_with_lifecycle.  The completion future may be
\* done before: it is not set again then.
BecomeIdle ==
  /\ pc' = "idle"
  /\ isStreaming' = FALSE
  /\ streaming' = FALSE
  /\ pending' = {}
  /\ aborted' = FALSE
  /\ waiter' = IF cancelled THEN waiter ELSE Woken
  /\ cancelled' = FALSE

\* The except clause of _run_with_lifecycle.
FailRun ==
  /\ pc' = "failing"
  /\ messages' = Append(messages,
                   Assistant(0, 0, IF aborted THEN "aborted" ELSE "error"))
  /\ streaming' = FALSE
  /\ Emit("agent_end")
  /\ LeaveLoop
  /\ UNCHANGED <<isStreaming, pending, queueVars, aborted, waiter, cancelled,
                 submitted, batch>>

\* A listener raises, or a hook or the provider while a request is prepared.
Raise ==
  /\ "raise" \in Disruptions
  /\ pc \in Emitting \cup {"request"}
  /\ FailRun

\* Waiting for the tasks, the loop comes to one that has raised.
TaskRaised ==
  /\ pc \in {"tools", "toolEnded"}
  /\ AllStarted
  /\ \E i \in Batch : tool[i] = "raised"
  /\ FailRun

LeaveRun ==
  /\ BecomeIdle
  /\ LeaveLoop
  /\ UNCHANGED <<messages, event, queueVars, submitted, batch>>

Finish == pc \in {"ended", "failing"} /\ LeaveRun

Cancel ==
  /\ "cancel" \in Disruptions
  /\ pc # "idle" /\ Suspended
  /\ LeaveRun

\* An orphan's tool ends.  Its event reaches the listeners of whatever run
\* is active by then, and nobody's if there is none.
OrphanEnd(c) ==
  /\ c \in orphans /\ Suspended
  /\ orphans' = orphans \ {c}
  /\ pending' = pending \ {c}
  /\ IF pc = "idle" THEN UNCHANGED event
     ELSE EmitCall("tool_execution_end", c)
  /\ UNCHANGED <<messages, isStreaming, streaming, queueVars, pc, loopVars,
                 batchVars, aborted, waiter, cancelled, submitted, batch>>

-----------------------------------------------------------------------------
(***************************************************************************)
(* The calls other coroutines, and the listeners, make meanwhile.          *)
(***************************************************************************)
Steer ==
  /\ submitted < MaxUsers
  /\ submitted' = submitted + 1
  /\ steeringQueue' = Append(steeringQueue, User("steer", submitted + 1))
  /\ UNCHANGED <<stateVars, event, followUpQueue, mode, pc, loopVars,
                 batchVars, aborted, waiter, cancelled, orphans, batch>>

FollowUp ==
  /\ submitted < MaxUsers
  /\ submitted' = submitted + 1
  /\ followUpQueue' = Append(followUpQueue, User("followUp", submitted + 1))
  /\ UNCHANGED <<stateVars, event, steeringQueue, mode, pc, loopVars,
                 batchVars, aborted, waiter, cancelled, orphans, batch>>

ClearQueues ==
  /\ "clear" \in Disruptions
  /\ \/ steeringQueue' = <<>> /\ UNCHANGED followUpQueue
     \/ followUpQueue' = <<>> /\ UNCHANGED steeringQueue
     \/ steeringQueue' = <<>> /\ followUpQueue' = <<>>
  /\ UNCHANGED <<stateVars, event, mode, pc, loopVars, batchVars, restVars>>

\* reset does not look whether a run is active, and does not stop it.
Reset ==
  /\ "reset" \in Disruptions /\ Suspended
  /\ messages' = <<>>
  /\ isStreaming' = FALSE
  /\ streaming' = FALSE
  /\ pending' = {}
  /\ steeringQueue' = <<>> /\ followUpQueue' = <<>>
  /\ UNCHANGED <<event, mode, pc, loopVars, batchVars, restVars>>

SetMode(q, m) ==
  /\ "mode" \in Disruptions
  /\ mode' = [mode EXCEPT ![q] = m]
  /\ UNCHANGED <<stateVars, event, steeringQueue, followUpQueue, pc, loopVars,
                 batchVars, restVars>>

\* The flag is read by hooks, tools and the failure message, never by the loop.
Abort ==
  /\ "abort" \in Disruptions
  /\ pc # "idle"
  /\ aborted' = TRUE
  /\ UNCHANGED <<stateVars, event, queueVars, pc, loopVars, batchVars, waiter,
                 cancelled, orphans, submitted, batch>>

\* Awaiting a cancelled future raises at once, and changes nothing.
WaitForIdle(w) ==
  /\ waiter[w] = "none"
  /\ pc # "idle" /\ ~cancelled
  /\ waiter' = [waiter EXCEPT ![w] = "waiting"]
  /\ UNCHANGED <<stateVars, event, queueVars, pc, loopVars, batchVars, aborted,
                 cancelled, orphans, submitted, batch>>

\* The future is awaited without a shield: to cancel one waiter, as
\* asyncio.wait_for does at a timeout, cancels it for all.
CancelWaiter(w) ==
  /\ "giveUp" \in Disruptions
  /\ waiter[w] = "waiting" /\ Suspended
  /\ cancelled' = TRUE
  /\ waiter' = Woken
  /\ UNCHANGED <<stateVars, event, queueVars, pc, loopVars, batchVars, aborted,
                 orphans, submitted, batch>>

\* The woken waiter runs when the event loop gets to it, not at once.
WaiterReturns(w) ==
  /\ waiter[w] = "woken"
  /\ waiter' = [waiter EXCEPT ![w] = "none"]
  /\ UNCHANGED <<stateVars, event, queueVars, pc, loopVars, batchVars, aborted,
                 cancelled, orphans, submitted, batch>>

-----------------------------------------------------------------------------
\* What the run itself does next.
LoopStep ==
  \/ FirstTurn \/ FirstPoll \/ DeliverStart \/ DeliverEnd \/ Request
  \/ ReplyEnd \/ TurnEnd \/ NextTurn \/ FollowUpTurn \/ AgentEnd \/ Finish
  \/ TaskRaised
  \/ \E i \in Calls : ToolStart(i) \/ RejectCall(i) \/ AcceptCall(i)
  \/ ResultStart \/ ResultEnd

\* What the provider's stream does.
ProviderStep == StreamStart \/ StreamUpdate \/ StreamDone \/ ReplyStart

\* What a tool does.
ToolStep(i) == SequentialEnd(i) \/ TaskEnd(i) \/ TaskReturn(i)

\* What the callers of Agent's methods do.
UserStep ==
  \/ Prompt \/ ContinueWithSteering \/ ContinueWithFollowUp \/ ContinueRun
  \/ Steer \/ FollowUp \/ ClearQueues \/ Reset \/ Abort
  \/ \E q \in {"steer", "followUp"}, m \in Modes : SetMode(q, m)

Next ==
  \/ LoopStep \/ ProviderStep \/ UserStep
  \/ \E i \in Calls : ToolStep(i)
  \/ \E c \in orphans : OrphanEnd(c)
  \/ Raise \/ Cancel
  \/ \E w \in Waiters : WaitForIdle(w) \/ CancelWaiter(w) \/ WaiterReturns(w)

SafeSpec == Init /\ [][Next]_vars

(***************************************************************************)
(* asyncio resumes every coroutine that is ready; the provider's stream    *)
(* and the tools are assumed to come to an end.  Nobody has to call Agent. *)
(***************************************************************************)
Spec ==
  /\ SafeSpec
  /\ WF_vars(LoopStep)
  /\ WF_vars(ProviderStep)
  /\ \A i \in Calls : WF_vars(ToolStep(i))
  /\ \A w \in Waiters : WF_vars(WaiterReturns(w))

-----------------------------------------------------------------------------
MessagesOf(s) == {s[i] : i \in DOMAIN s}

Queue(k) ==
  IF k = "steer" THEN steeringQueue
  ELSE IF k = "followUp" THEN followUpQueue ELSE <<>>

\* The way of the messages of a kind: delivered, being delivered, queued.
Way(k) == messages \o outbox \o Queue(k)
OnWay(k) ==
  {i \in DOMAIN Way(k) : Way(k)[i].role = "user" /\ Way(k)[i].kind = k}

(***************************************************************************)
(* Messages of a kind reach the transcript in the order in which they were *)
(* submitted and none twice, through drains in either mode, injections at  *)
(* any turn, continue_, and whatever disturbs a run.                       *)
(***************************************************************************)
DeliveredInOrder ==
  \A k \in Kinds : \A i, j \in OnWay(k) :
    i < j => Way(k)[i].id < Way(k)[j].id

UsersHeld ==
  {m \in MessagesOf(messages) \cup MessagesOf(outbox) \cup
         MessagesOf(steeringQueue) \cup MessagesOf(followUpQueue) :
   m.role = "user"}

(***************************************************************************)
(* With DeliveredInOrder: in an undisturbed agent every submitted message  *)
(* is in the transcript, on its way there in the loop, or in its queue,    *)
(* and there is no other.                                                  *)
(***************************************************************************)
NothingLost ==
  /\ {m.id : m \in UsersHeld} = 1..submitted
  /\ \A l, m \in UsersHeld : l.id = m.id => l = m

(***************************************************************************)
(* Follow-ups wait for the agent to have nothing else to do: none is taken *)
(* from its queue, by the loop or by continue_, while a steering message   *)
(* is waiting.                                                             *)
(***************************************************************************)
SteeringFirst ==
  [][ (outbox = <<>> /\ \E m \in MessagesOf(outbox') : m.kind = "followUp")
      => steeringQueue = <<>> ]_vars

KindAt(s, k) == {i \in DOMAIN s : s[i].role = "user" /\ s[i].kind = k}

(***************************************************************************)
(* A run polls the steering queue exactly once before its first request:   *)
(* continue_ drains the queue itself and makes its run skip that poll, any *)
(* other run does not skip it.  Once more, and a queue that gives one      *)
(* message at a time would give the provider two; once less, and steering  *)
(* older than the prompt would not be in the request.                      *)
(***************************************************************************)
OneAtATime ==
  \A k \in {"steer", "followUp"} : mode[k] = "one-at-a-time" =>
    \A i, j \in KindAt(messages, k) : i < j =>
      \E a \in i..j : messages[a].role = "assistant"

NoneOverdue ==
  pc = "request" /\ mode["steer"] = "all" =>
    \A m \in MessagesOf(steeringQueue) : \A i \in KindAt(messages, "prompt") :
      messages[i].id < m.id

PolledOnce == OneAtATime /\ NoneOverdue

(***************************************************************************)
(* Two copies of the conversation are kept, the loop's context and the     *)
(* agent's transcript, written at different moments.  Whenever the         *)
(* provider is asked, they agree.                                          *)
(***************************************************************************)
RequestIsTranscript == pc = "request" => context = messages

(***************************************************************************)
(* What the provider is asked with is well formed: the calls of every      *)
(* assistant message that did not fail are answered right after it, each   *)
(* once and in the order of the calls, whatever order the tools ended in;  *)
(* and no result stands without its call.                                  *)
(***************************************************************************)
RequestWellFormed ==
  pc = "request" =>
    \A p \in DOMAIN context :
      LET m == context[p] IN
      /\ m.role = "assistant" /\ m.stop = "stop" =>
           \A i \in 1..m.calls :
             p + i \in DOMAIN context /\ context[p + i] = Result(m.batch, i)
      /\ m.role = "toolResult" =>
           /\ p - m.call \in DOMAIN context
           /\ context[p - m.call].role = "assistant"
           /\ context[p - m.call].batch = m.batch

(***************************************************************************)
(* The part of it that survives exceptions, cancellations and resets: a    *)
(* tool result in the transcript is in its place behind its call, unless a *)
(* reset in the middle of a batch has cut off all that came before.        *)
(***************************************************************************)
ResultsInPlace ==
  \A p \in DOMAIN messages :
    messages[p].role = "toolResult" =>
      LET q == p - messages[p].call IN
      \/ /\ q \in DOMAIN messages
         /\ messages[q].role = "assistant"
         /\ messages[q].batch = messages[p].batch
      \/ \A r \in 1..(p - 1) : messages[r].role = "toolResult"

(***************************************************************************)
(* state.pending_tool_calls is exactly the calls between their two         *)
(* execution events, with tasks adding and removing theirs concurrently.   *)
(***************************************************************************)
PendingIsOpen == pending = OpenCalls

(***************************************************************************)
(* Whatever ended a run - its last event, an exception, a cancellation -   *)
(* and whatever orphaned tasks still do, an idle agent shows no activity,  *)
(* and pending calls are calls of the active run.                          *)
(***************************************************************************)
IdleIsClean ==
  /\ pc = "idle" => /\ ~isStreaming /\ ~streaming /\ ~aborted
                    /\ pending = {}
                    /\ \A w \in Waiters : waiter[w] # "waiting"
  /\ pc # "failing" => pending \subseteq OpenCalls

(***************************************************************************)
(* What the control of a batch relies on, and the inductive strengthening  *)
(* of TypeOK, IdleIsClean and FailedReplyIsFinal: messages wait to be      *)
(* announced only before a request, and a failed reply is followed by      *)
(* nothing but the end of its turn and of the run; only the batch has      *)
(* tools that are not idle, and only while the loop is in it; results are  *)
(* counted within the batch; in sequential mode the call after the last    *)
(* answered one is the only one in progress, and pc tells how far it is;   *)
(* nobody waits on a cancelled future, and an idle agent has none.         *)
(***************************************************************************)
LoopInv ==
  /\ pc = "delivering" => outbox # <<>>
  /\ pc = "streaming" => context # <<>>
  /\ pc \notin {"started", "turnStarted", "polled", "delivering"} =>
       outbox = <<>>
  /\ reply.calls > 0 => reply.batch > 0
  /\ Failed => pc \in {"replyStarted", "replied", "turnEnded", "ended"}

SequentialInv ==
  /\ \A i \in Calls : /\ i <= posted => tool[i] = "done"
                      /\ i > posted + 1 => tool[i] = "idle"
  /\ pc \in {"prepare", "executing", "toolEnded", "posting"} =>
       posted + 1 \in Batch
  /\ posted + 1 \in Calls =>
       tool[posted + 1] = CASE pc = "prepare" -> "started"
                            [] pc = "executing" -> "running"
                            [] pc \in {"toolEnded", "posting"} -> "done"
                            [] OTHER -> "idle"

BatchInv ==
  /\ \A i \in Calls \ Batch : tool[i] = "idle"
  /\ posted # 0 => posted \in Batch
  /\ pc \in {"prepare", "executing", "tools", "toolEnded", "posting", "posted"}
       => ~Failed
  /\ pc \notin {"prepare", "executing", "tools", "toolEnded"} =>
       \A i \in Calls : tool[i] \in {"idle", "done"}
  /\ pc \in {"idle", "failing", "replyStarted", "replied"} =>
       tool = NoTools /\ posted = 0
  /\ \A i, j \in Calls :
       tool[i] = "started" => pc = "prepare" /\ (tool[j] = "started" => i = j)
  /\ pc = "posting" => posted + 1 \in Batch
  /\ ~sequential /\ pc \in {"posting", "posted"} => AllDone
  /\ pc = "executing" => sequential
  /\ pc = "tools" => ~sequential
  /\ sequential => SequentialInv

WaitInv == cancelled => pc # "idle" /\ \A w \in Waiters : waiter[w] # "waiting"

IInv == TypeOK /\ LoopInv /\ BatchInv /\ IdleIsClean /\ WaitInv

(***************************************************************************)
(* A reply with stop_reason error or aborted is final: its tool calls are  *)
(* never executed, nothing is taken from the queues, and the provider is   *)
(* not asked again in that run.                                            *)
(***************************************************************************)
FailedReplyIsFinal ==
  [][ Failed /\ pc' # "idle" =>
        /\ pc' \in {"replyStarted", "replied", "turnEnded", "ended", "failing"}
        /\ tool' = NoTools /\ outbox' = <<>> ]_vars

(***************************************************************************)
(* A listener sees the events of a run in the order AgentLifecycle states. *)
(***************************************************************************)
StageOf ==
  [p \in Points |->
     CASE p = "idle" -> "idle"
       [] p \in {"started", "turnEnded"} -> "run"
       [] p \in {"delivering", "streaming", "replyStarted", "posting"} ->
            "message"
       [] p \in {"ended", "failing"} -> "ended"
       [] OTHER -> "turn"]

Lifecycle == INSTANCE AgentLifecycle WITH
  Call <- CallId, stage <- StageOf[pc], open <- OpenCalls,
  MayFail <- "raise" \in Disruptions, MayCancel <- "cancel" \in Disruptions

LifecycleKept == Lifecycle!Spec

(***************************************************************************)
(* Every run comes to an end, and whoever waits for it is woken.           *)
(***************************************************************************)
RunEnds ==
  /\ pc # "idle" ~> pc = "idle"
  /\ \A w \in Waiters : waiter[w] = "waiting" ~> waiter[w] = "none"

(***************************************************************************)
(* docs/libraries/py-agent.md: after_tool_call stops the run with          *)
(* terminate=True.  No request follows a turn in which a result asked so.  *)
(***************************************************************************)
TerminateStopsRun == pc = "request" => terminating = {}
=============================================================================
