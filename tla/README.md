# A verification development of `py`

`py` is a Python workspace of four packages: `py-agent` (an agent with its
transcript, queues and tool loop), `llm-providers` (adapters that turn provider
streams into assistant messages), `py-agent-tools` (file tools and a restricted
shell) and `py-coding-agent` (the command-line program over the other three).
This directory holds TLA+ modules translated from the source, the configurations
TLC checks them with, and proofs checked by TLAPS.

`PROJECT.json` has, for every definition that models code, the lines it models.

## Inventory

| Component | State it keeps | Operations | Meets | Hard behaviour | What makes it correct |
|---|---|---|---|---|---|
| Agent (`py-agent/agent.py`) | transcript, `is_streaming`, `streaming_message`, `pending_tool_calls`, two queues, the active run with its abort flag and completion future | `prompt`, `continue_`, `steer`, `follow_up`, `clear_*`, `reset`, `abort`, `wait_for_idle`, `_process_event` | runs the loop; is called by users, listeners and hooks while a run is suspended | calls between any two awaits; exceptions and cancellation in the middle; waiters | messages delivered once and in order; an idle agent shows no activity; every run ends and wakes its waiters |
| Agent loop (`py-agent/agent_loop.py`) | the context and the list of new messages, messages to announce, the reply, the batch | prompts, polls, request, stream, tools in sequence or in parallel tasks, turns | provider stream, tools, hooks, the event sink | tasks that end in any order; tasks that survive their run | context = transcript at a request; each call answered once, in order; steering before follow-ups; the order of events |
| Tool updates (`agent_loop.py`) | the tasks `on_update` starts | start, gather | tools, event sink | gathered only if the tool returns | no update after the end of its execution |
| Event streams (`AgentEventStream`, `AssistantMessageEventStream`, `ProxyMessageEventStream`) | queue, closed flag, result future | push, end, iterate, result | a background runner and a consumer | a runner that raises; end without a result | the stream ends after its last event; the result is set once |
| Handoff (`llm-providers/communication.py`) | pending calls, results seen | one pass over a history | provider adapters | failed messages, late and missing results, id collisions | every call answered once, no orphan result |
| Provider adapters (`openai.py`, `anthropic.py`) | partial tool calls, finish reason | one step per SSE payload | integration | deltas split anywhere; several finish reasons | calls assembled whole; the finish reason of the provider |
| Session store (`py-coding-agent/session.py`) | the JSONL file | append interaction, append compaction, load | other processes on the same file | torn lines, several writers, branches | a stored record is not lost or doubled; the boundary moves forward only |
| Compaction (`compaction.py`) | none | threshold, split, summary | session store | boundaries of the split | recent context is kept, and fits |
| Coding agent app (`cli.py`) | the cycle of one prompt | respond, recover from overflow, persist, compact | store, extensions, runtime | death or a raising listener between two steps; stale plans | every prompt ends; one retry; nothing stored is forgotten |
| Extensions (`extensions.py`) | listeners, hooks | emit, run hooks | app | raise, cancel, override | see the app |
| Integration (`integration.py`) | text parts and tool calls of one reply | materialise, convert | agent, providers | errors become failed messages | the message says what the stream said |
| Shell runtime (`builtin.py`) | cwd, budget, files | program, pipeline, redirection, external command | tools of an agent | limits and failures after partial effects | the limits bound what runs; conditions choose the right steps |
| Shell parsing, configuration, skills, catalogue, credentials, TUI | tables and files | lookups, parsing | the above | little | left to unit tests |

`PROJECT.json` lists the hazards found in this code with their lines, and the
properties that would catch each going wrong.

## Modules

| Module | Models | Built on |
|---|---|---|
| `PendingQueue` | `_PendingMessageQueue`: what a drain takes and leaves | |
| `Agent` | `Agent` and the loop it runs | `PendingQueue`, `AgentLifecycle` |
| `AgentLifecycle` | what a listener is promised: the order of events of a run | |
| `AgentProofs` | theorems about `Agent`: control, types, what a step may do, the refinement of `AgentLifecycle` | `Agent`, TLAPS |
| `TranscriptProofs` | theorems about the transcript, the context, the pending calls, the delivery of messages and the handoff | `AgentProofs`, `AgentHandoff`, `Induction` |
| `AgentHandoff` | the handoff to another model of each transcript `Agent` reaches | `Agent` |
| `ToolCall` | one tool call with its progress reports and several listeners | |
| `ToolCallProofs` | theorems about `ToolCall` | `ToolCall`, TLAPS |
| `SessionLog` | the session file as readers see it, the threshold and the split | |
| `Session` | the prompt cycle of one or more processes over one file | `SessionLog` |
| `SessionProofs` | theorems about `Session` | `Session`, `Induction`, TLAPS |
| `OneShot` | what a stream of events promises its reader and who awaits its result | |
| `EventStream` | the three streams of events, with what feeds them and who reads them | `OneShot` |
| `StreamProofs` | theorems about `EventStream` | `EventStream`, TLAPS |
| `ProviderStream` | one reply, from the payloads of a provider to the message of the agent | |
| `ProviderProofs` | theorems about `ProviderStream` | `ProviderStream`, TLAPS |
| `ShellRun` | one call of the bash tool | |
| `ShellProofs` | theorems about `ShellRun` | `ShellRun`, `Induction`, TLAPS |
| `Induction` | induction and recursion over numbers, sums over finite sets: what the proofs above cite | TLAPS |

### Agent

asyncio interleaves coroutines only where one awaits, so a step of the model is
the code from one suspension to the next. Every emitted event is such a point,
since the listeners are awaited: the step that emits an event makes the change
`_process_event` makes, and the control point `pc` says where the run goes on
when the listeners return. `Emitting` is the set of these points; `request`,
`tools` and `executing` await the provider, the tool tasks and the tool.
At `polled`, and at `tools` while calls of the batch are still to be announced,
the code goes on without a suspension: the steps of others that do not commute
with the loop's next one are disabled there (`Suspended`), the rest commute and
may be taken early.

| Code | Model |
|---|---|
| `state.messages`, `pending_tool_calls`, `is_streaming`, `streaming_message` | `messages`, `pending`, `isStreaming`, `streaming` |
| `current_context`, `new_messages`, `pending_messages` or the prompts, the reply | `context`, `newMessages`, `outbox`, `reply` |
| the poll closures with `skip_first` | `firstPoll`, `skipPoll` |
| `finalized_by_order` and the tasks | `tool`, `terminating`, `posted`, `sequential` |
| tasks nobody awaits any more | `orphans` |
| `_ActiveRun`, its controller and future | `pc`, `aborted`, `waiter`, `cancelled` |

Whoever awaits `wait_for_idle` awaits the run's future itself, without a shield. So a
waiter that is cancelled (`CancelWaiter`: a timeout, or its task is cancelled) cancels
the future: all who wait are let go before the run has ended, nobody can wait for that
run any more, and its end must not set the future once more (`cancelled`).

The data is what the properties tell apart: user messages are numbered in the
order of submission and know their kind; an assistant message knows its tool
calls and whether it failed; a tool call is a batch and a place in it. Tool call
ids are thus unique; a provider that repeats an id is outside the model.

### ToolCall

`Agent` has one listener for all and no progress reports; `ToolCall` looks at one
call closely. The call is a coroutine (`pc`), of the loop or of a task of its own
(`parallel`); `_process_event` awaits the listeners one after the other, so the
start and the end of the call are told listener by listener (`teller`). Each
`on_update` starts a task (`update`, and in `at` the listener it has called last)
that does the same. `gathered` are the tasks `asyncio.gather` waits for: those
started when the tool returned; none if it raised. `verdict` is what the end event
will say, and `run` whether the agent still has the run of the call, none, or a
later one, since `_process_event` without an active run tells nobody. `heard` is
history: what each listener was called with. A step is the code between two
suspensions of one coroutine. A cancellation reaches the coroutine of the loop and,
through `gather`, the updates it waits for; a tool or a listener that swallows a
cancellation is not modelled.

### AgentHandoff

`transform_messages_for_handoff` is a pure pass over a history, so it is an operator,
`Handoff(kept, history)`: `HandOver` from one message to the next, with the locals of the
function.
`kept` is the set of calls whose ids stay as they are, because they are of the target
model or need no normalisation; all sets are tried. What is checked is its composition
with `Agent`: the messages it is applied to are the transcripts that the agent
reaches, however its runs ended. The two packages have message types of their own
with the same roles, calls and stop reasons; the program has no caller of the
function yet (`FEATURES_LLM_PROVIDERS.md`), so the composition is the one its
documentation intends. Distinct calls are taken to have distinct ids, normalised or
not.

### Session

An app is one process, a sequential program. Processes meet in the session file
only, so a step ends at an access to the file, at a call of a hook, listener or
responder, or at the end of the cycle. `Die` ends a process anywhere: killed, or
an exception of a listener, hook or generator that nothing catches. `Tear` ends
it in the middle of a write. A process that is gone is started again: an idle
app. `tail` says whether the last line has its newline. The print and json modes
are cycles of one prompt, the rpc mode's `tool` requests enter the cycle at
`answered`, and the TUI's cycle is one whose overflow is not caught (`Die`).
Records have a size in estimated tokens; a list of records that a reader takes
from the file is the set of their line numbers, whose order is the order of the
list; a summary is known by the records it was made from; the ids that `uuid4` makes
are the numbers of the prompts.

`CompactionFits` says of a branch with one writer that what a compaction leaves fits
the window less the reserve, if the settings leave room for one record more than is
kept. An app alone with fixed settings compacts after every append,
so the recovery from an overflow finds something to compact only after a compaction
was cancelled, a process died before compacting, or another process appended.

### EventStream

`push` and `end` do not suspend, so a step is one call of them, or what a task
does up to its next await. `queue`, `closed` and `result` are `_queue`, `_closed`
and the future; `seen` is what the reader has, `reader` and `waiter` are the
tasks that iterate and that await `result()`. `class` says which of the three
streams it is: the agent's, whose runner executes `run_agent_loop`; the proxy's,
whose runner turns payloads into events and keeps the growing message `content`;
and the one of `communication.py`, which its user feeds. `told` is the message
as the proxy sent it, block by block, and `strayed` whether the proxy left its
protocol. The future is awaited as it is: cancelling one task that awaits it
cancels it for all, and the push of the final event then raises. `OneShot` states
that too (`Abandon`, `Spoil`), as a part of what the stream promises. Whoever feeds
the stream is taken to stop at a push that raises; a user of the stream of
`communication.py` that catches the error and still calls `end` is not modelled.

### ProviderStream

A step is one payload, through the parser of the adapter and through
`AgenticResponder`. The server is external: `told`, `named`, `said`, `reason` and
`over` are what it has sent. `partial` is the adapter's `partial_tool_calls` by
index; `textParts`, `calls` and `stopReason` are `_AssistantBuildState`; `message`
is what `_stream_fn` returns. Text and arguments come in numbered pieces; names of
tools and usage are left out. A block of Anthropic may bring its input along when it
starts (`ContentBlockGiven`); no more of it follows then. The same actions serve both providers where the
consumer is the same, and each provider's payloads are actions of their own.

### ShellRun

The executor is a sequential program, so the interest is not in interleavings
but in what it carries from step to step: a step is the head of one of the two
loops (`StartStep`, `SkipStep`, `StartCommand`) or the end of a command with its
redirections and its accounting (`CommandEnds`). A program is not a value: the
executor never looks ahead, so each step and command is chosen when it is
reached. `late` is all that is read of the clock. `pipeline` and `command` hold
the locals of `_execute_pipeline` and `_execute_simple_command`, `budget` is
`_ShellExecutionBudget`. A text is a sequence of chunks that know their command
and size. `log` and the exit codes in `steps` are history; the properties relate
what is returned, read and written to it. Any handler returns any result of its
kind: a built-in command, `cd`, an external command; a built-in and an external one
may raise too (`HandlerRaises`).

## Runs

| Run | Configuration | Checks | Distinct states |
|---|---|---|---|
| `agent` | 3 user messages, 2 batches of up to 2 calls, both queue modes | `NothingLost`, `RequestIsTranscript`, `RequestWellFormed`, `PendingIsOpen`, `PolledOnce`, `SteeringFirst`, `LifecycleKept` (refinement of `AgentLifecycle`) | 2.2 million |
| `agent_disrupted` | `AgentHandoff`: 2 user messages, 1 batch of 2 calls, every disruption, no waiters | `IInv`, `DeliveredInOrder`, `ResultsInPlace`, `IdleIsClean`, `HandoffAnswered`, `FailedReplyIsFinal` | 2.0 million |
| `agent_live` | as above with `raise` and `cancel`, two waiters, one of which may be cancelled; one queue mode | `RunEnds`, which has the waiters woken too | 361 thousand |
| `agent_terminate` | no disruption | violates `TerminateStopsRun` | |
| `agent_stray` | `raise` | violates `LifecycleKept` | |
| `toolcall` | 1 call, 3 updates, 2 listeners, every disruption | `IInv`, `HonestEnd`, `UpdatesInside`, `CallEnds` | 98 thousand |
| `session` | 2 processes, 2 branches, 4 prompts, 2 sizes; overflow, cancel, die | `NothingForgotten`, `BoundaryKept`, `RecentKept`, `CompactionFits`, `BranchIsolated` | 419 thousand |
| `session_torn` | 2 processes, 1 branch, 3 prompts; every disruption | `IInv`, `StoredOnce`, `PromptEnds` | 185 thousand |
| `stream` | 3 classes, 4 events or payloads, 2 waiters; every disruption | type invariant, `FailureHasCause`, `Assembled`, `PromiseKept` (refinement of `OneShot`), `Released` | 368 thousand |
| `provider` | 2 providers, 3 calls or blocks, 5 pieces; every disruption | `IInv`, `MessageAsSent`, `SnapshotsGrow` | 182 thousand |
| `provider_finish` | Anthropic, 2 blocks, 3 pieces, no disruption | violates `ToolUseReported` | |
| `shell` | 3 steps, 2 commands in a pipeline, limits of 2 pipelines, 3 commands and 2 units of output; every disruption | type invariant, `Bounded`, `AndOrLists`, `OutputOfSteps`, `PipesFeed`, `FilesHold` | 5.6 million |

The type invariant of `Agent`, `Session`, `ProviderStream` and `ToolCall` is the first
conjunct of the `IInv` that one of their runs checks and a theorem proves.

Deadlock is not checked: an idle agent, or an app without a prompt, may stay so,
and a stream, a reply, a tool call or a program comes to its end.

`PolledOnce` is about `continue_`, which drains the steering queue itself and has its
run skip the first poll. One poll too many shows as two messages of a queue that gives
one at a time without a reply between them; one too few, as steering that is older than
the prompt and not in the request. `DeliveredInOrder` would hold in both cases.

Bounds. `MaxUsers`: two messages of one kind are needed to see an order, a third
of another kind to see one kind overtake another. `MaxBatches`: two batches let
results and state of the first one leak into the second. `MaxCalls`: two tasks
that end in either order. The disrupted run has one batch less, and its space is
still as large; a disturbance that reaches across runs needs one batch and a
second run, which it has. In the session runs four prompts are enough for two
compactions of one branch, one of them planned before and appended after the
other. In `toolcall` an update can be over, another under way and a third not begun
when the tool returns, and one listener can know of an event that the other does not.
In `stream` four payloads
are enough for two blocks that interleave, or for payloads after a final one; there
are two waiters, so that one is cancelled while another waits. In
`provider` two calls interleave and a third comes after them; five pieces split
each of two calls and leave one for another. In `shell` the limits are small
enough to be exceeded: the third pipeline, the fourth command, the third unit of
output. Three commands let a pipeline of two leave something behind for the next
one, or follow it; a skipped step between two that run needs three steps. One
redirection for each command: the order of several is not covered by the run.

Fairness. `LoopStep`: asyncio resumes a coroutine that is ready. `ProviderStep`
and `ToolStep`: the provider's stream and the tools end; the code has no timeout
of its own, so without this nothing ends. `WaiterReturns`: as `LoopStep`. Users,
listeners that raise and cancellation have no fairness. `Work(p)`: a process that
is alive goes on, and its responder and hooks return. In `EventStream` the runner's
source ends or raises, and asyncio resumes the reader that has an item and the
tasks whose future is settled; the user of the stream of `communication.py` has no
fairness, and `Released` says nothing of it. In `ToolCall` asyncio resumes the call
and each update task when they are ready (`CallStep`, `UpdateStep(i)`), and listeners,
the hook and the tool return; that they raise, and that the tool reports progress, has
no fairness.

What the three violations show:

* `agent_terminate`: `docs/libraries/py-agent.md` says `after_tool_call` can "stop
  the run (`terminate=True`)". The code stops only if every result of the batch
  terminates, and queued messages start it again.
* `agent_stray`: the event sequence of `docs/references/py-agent.md` ends with
  `agent_end`. When a listener raises while tool tasks run, their
  `tool_execution_end` comes after it, or inside a later run.
* `provider_finish`: a test of Anthropic's stream says of a reply that stops for
  tool use that its last finish reason is `toolUse` (`test_provider_streaming.py`).
  A real reply ends with `message_stop`, for which the adapter reports `stop`, and
  the last one wins.

The refinement holds otherwise: `AgentProofs` proves it wherever no listener
raises and no run is cancelled.

## Proofs

`AgentProofs` proves, for every value of the constants `AgentAssumption` admits
(all bounds, modes and disruptions), about `SafeSpec`:

* `Inductive`: `IInv` is an invariant. `TypeCorrect` and `IdleClean` follow.
* `FailedReplyEnds`: after a failed reply no tool runs, no queue is drained and
  the provider is not asked again. It is a step property, from `IInv` in its
  first state.
* `SteeringBeforeFollowUp`: no follow-up is taken while steering waits.

The argument. `IdleIsClean` says that pending calls are calls of the active run,
and that none is pending when it is idle. To keep it over the end of a task one
has to know which tools may run at which control point, hence `BatchInv`: only
the batch has tools that are not idle, only the points from `prepare` to
`toolEnded` have tools in progress, and in sequential mode the call after the
last answered one is the only one in progress (`SequentialInv`). Types need
`LoopInv`: the head of `outbox` is taken only where there is one, the context is
not empty when its last message is replaced, and a failed reply leaves the
points of a batch out of reach. The lemmas are split by what an action touches:
the state, the queues, the loop's locals, the batch; a step preserves each part,
and `Inductive` puts them together. `SteeringFirst` needs that the queues hold
messages of their own kind, a part of the type invariant.

`TranscriptProofs` adds what the transcript says, each theorem for the disruptions
under which it holds:

* `RequestsAgree` (no `reset`): whenever the provider is asked, context and transcript
  are equal.
* `ResultsStayInPlace` (every disruption): `ResultsInPlace`.
* `PendingAreOpen` (no `raise`, no `reset`; runs may be cancelled): `PendingIsOpen`.
* `RequestsWellFormed` (no `raise`, `cancel`, `reset`): `RequestWellFormed`.
* `DeliveryInOrder` (every disruption): `DeliveredInOrder`.
* `AllHeld` (no `raise`, `cancel`, `reset`, `clear`; users may abort and change the modes
  of the queues): `NothingLost`.
* `FirstPollOnce` (no `cancel`, no `mode`): `PolledOnce`.
* `HandedOver` (every disruption): `HandoffAnswered`.

The argument. The two copies of the conversation differ in a known way at each control
point (`ContextInv`): by the prompts still to be announced, by the reply being received,
and by the results posted, which the context gets all at once when the turn ends. A
result is posted right behind those before it, behind the reply of its batch
(`PlaceInv`); what a reset cuts off leaves only results. The same invariant says that
replies with calls are numbered upwards, so no two replies claim one result. `CalmInv` adds that the tasks a
cancelled run left are of older batches, so their ends take no call of the current one
out of `pending`. `AnsweredInv` says that the context up to the last reply is answered,
which the end of a turn extends by one reply. `OrderInv` says of each two of the
transcript, `outbox` and the queues that the user messages of a kind in the one were
submitted before those in the other, whatever is dropped from them; since no number is
given twice, none is in two of them. Each step moves the head of one behind the last of
another, or empties some. That nothing is lost is then a matter of the sets of numbers:
they are the numbers up to `submitted`, each once.

For `PolledOnce` one has to know of which messages the provider has still to be told:
`PollInv` says that at most one of a kind that comes one at a time is on its way, and
only after a reply to the last one; `OverdueInv`, that once a run that will poll no more
before its request has begun, what steering is left is newer than its prompts; and
`FirstPollInv`, that the mark of the first poll does not outlive the beginning of a run.
A run cancelled at its beginning, or a mode set under it, breaks these: the one leaves a
message in the transcript to which no reply came, the other changes what a poll takes.

`HandedOver` is about a pass over a transcript, hence an induction over its length for
each state of the agent. After some messages (`HandingOver`) either one reply waits: the
last that did not fail, some first results of which have come, and its calls are what is
pending; or none does, because a user spoke since, or because a reset left nothing but
results. All that was handed over before the waiting reply is answered. A result can
only be the next one of the waiting reply, since `PlaceInv` puts it behind the reply it
belongs to; a failed reply changes nothing; a message from the user or another reply
flushes, and the calls that are then made up for (`FlushCloses`) are exactly those that
have no result anywhere in the transcript, as a later one would not be in its place.

`AgentProofs` also proves `EventsInOrder`: without `raise` and `cancel`, `SafeSpec`
implements `AgentLifecycle`. Then no task fails or outlives its run (`LoyalInv`); with
`IInv` every step is a `Move` of the stage that `StageOf` gives its control point, a
start or an end of an execution, or changes nothing a listener is told.

`ToolCallProofs` proves about `ToolCall`, for every number of updates and listeners and
every set of disruptions: `Inductive` (`IInv`), `Honest` (`HonestEnd`) and `Inside`
(`UpdatesInside`). The argument. `HeardInv` ties what a
listener has heard to the points of the call and of the update tasks; `UpdateInv` says
that tasks begin in the order of the reports and that `gathered` is a prefix of them;
`CallInv` says that past `gathering` the gathered tasks are over or one of them has
raised, which is what the end event rests on.

`SessionProofs` proves about `SafeSpec` of `Session`, for every number of apps,
branches, prompts and sizes that `SessionAssumption` admits:

* `Inductive`: `IInv` is an invariant, for every set of disruptions. `TypeCorrect`
  and `Stored` (`StoredOnce`) follow.
* `Isolated`: without torn writes `BranchIsolated` holds.
* `PlansKept`, `Remembered`, `BoundaryForward`: without torn writes and overridden
  boundaries (`Undisturbed`), `PlanInv`, `NothingForgotten` and `BoundaryKept`
  hold.
* `CutsKept`, `RecentStay`, `CompactionsFit`: and so do `CutInv`, `RecentKept` and
  `CompactionFits`, for records of any sizes and all settings.

The argument. `IInv` has three parts beside the types. `CycleInv`: the prompt of
a cycle is no other app's, and is not in the file before it is stored. `FileInv`:
a prompt has at most one line. `TornInv`: a record whose append returned and that
is not in the file was merged with a torn line, and each torn line takes one
record along, so the lost ones are no more than the torn writes. `NothingForgotten`
needs to know what a stale plan says. `PlanInv` keeps the statement a plan makes
about the lines it was made from: its boundary is one of them, and what comes
before is in the summary. Lines are only added at the end of the file, so the
statement stays true while other apps append, records and boundaries alike. `CutInv` is
what an app alone on its branch has besides: its plan cuts the records that are loaded
where a new plan would, until the plan is written; what others append is of other
branches and changes no token count. `RecentKept` and `CompactionFits` then are facts
about the split: the records from the cut on have enough tokens, and those behind it,
one less, too few. They rest on lemmas about `Tokens`, by induction over the records.

`StreamProofs` proves about `SafeSpec` of `EventStream`, for every set of classes,
kinds, waiters and disruptions and all bounds that `StreamAssumption` admits:

* `Inductive`: `IInv` is an invariant; `TypeCorrect`, `Failures`
  (`FailureHasCause`) and `AssembledAsSent` (`Assembled`) follow.
* `Promised`: every step is a step of `OneShot` or a stutter, so `SafeSpec`
  implements `OneShot`.

The argument. `QueueInv` says where the sentinel is: at the end of the queue of a
closed stream that is still read, and nowhere else; without it the reader could
take it for an event, or wait after the last one. With the lemmas about `Front`
and `Tail` it makes each `Read` a `Take` or an `Over`. `CountInv` bounds the numbers
of events, which the type invariant needs. `ResultInv` ties the
future to the flag: a result is set only in a closed stream, so the final event
sets it once. `ContentInv` says that, unless the proxy has strayed, the message
is what was told, which makes the checks of `process_proxy_event` pass.

`ProviderProofs` proves about `ProviderStream`, for every number of blocks and pieces,
both providers and every disruption: `Inductive` (`IInv`), `AsSent` (`MessageAsSent`) and
`SnapshotsOnlyGrow` (`SnapshotsGrow`). The argument. `TextInv`: the text is what was said.
`NamesInv`: the calls of the message are those that were named, in that order, each once.
`HeldInv` relates, index by index, what the adapter holds to what it was told, and the
snapshot in the message to what the adapter holds: they are equal unless the server blanked
the id, and then the snapshot is a prefix. The steps of both providers are brought to one
form (`BlockStep`): they touch one block and put at most one snapshot in place.

`ShellProofs` proves about `ShellRun`, for every limit and every program, of any length:

* `TypesKept` (`TypeOK`).
* `LimitsHold` (`WithinLimits`, the part of `Bounded` that is about what runs): the
  commands and pipelines that come to their end are within the limits, and none ends
  after one that ended late. `LimitsBound` (`Bounded`) adds what is returned.
* `PipesCarry` (`PipesFeed`).
* `ListsDecide` (`AndOrLists`).
* `StepsReturn` (`OutputOfSteps`).
* `RedirectionsHold` (`FilesHold`).

The argument. Every entry of the log was counted before it ran, and the pipeline at work
counts as one of those the log knows (`CountInv`); a command starts only while time
remains, so at that moment no entry is late (`LateInv`); and the input of the pipeline at
work is what the last entry left visible, which is an entry of the same step that
succeeded (`PipeInv`). `OutputInv`: what is returned, and what the pipeline at work has
on stderr, was counted in the budget; a counter that passed its limit has ended the
program, and what was over the limit is cut off. `ListInv`: the pipeline at work is one
that its list asks for; a skipped step leaves the last code alone, since the value of its
list cannot change. `TextInv` relates stdout and stderr to the log, step by step, and
stderr with that of the pipeline at work to all of the log. `FilesInv` relates the files
to the effects of the redirections in the log, in the directory each command ran in
(`DirsInv`). These relate a variable to a value computed from the whole log, so their
steps rest on lemmas of one form: what an entry more adds to that value (`Size`,
`ListValue`, `FlattenSeq`, `Left`).

`Induction` is what those lemmas are made with. The library states induction and
recursion with an operator as a parameter, which the provers cannot instantiate. Here a
set takes its place (`SetInduction`: a set of numbers that has 0, and with each number
the next one, has them all, by the pigeonhole principle), and a function that gives the
step (`Recurs`, and what follows from it about sums). The functions that the models
define by recursion (`Tokens`, `Size`, `ListValue`, `Written`) are thereby known to be
what their equations say.

Only model-checked: the liveness properties (`RunEnds`, `CallEnds`, `PromptEnds`,
`Released`), which are out of the prover's reach. Everything else that a passing run
checks is proved.

## Not modelled

* Of `Agent` and the loop: `subscribe` and unsubscription during a run, the setters
  of model, tools and messages, `error_message`, empty prompt lists and lists of
  more than two, what `after_tool_call` does to the content of a result, repeated
  `start` events of one provider stream. Several listeners and progress reports are
  in `ToolCall` only. A waiter inside a listener (a deadlock of the caller's making)
  is not modelled.
* Of the handoff: text, thinking and images, ids that become equal when normalised.
* Of sessions: the text of summaries, and so what a hook's own summary says (it counts
  as one of the records the plan leaves out; where hooks override plans, no property
  asks what a summary covers), file tracking, runs without a session
  file, legacy records without an id, the order of several hooks.
* Of the streams: several readers or a second iteration, negative indexes of a
  proxy's blocks, usage, names of tools, the repair of partial JSON, the echo
  provider, the conversion of messages and tools to a provider's format.
* Of the shell: what commands compute and do to files by themselves, the path
  policy beyond "a target may be refused", globs, the messages of limits,
  `|&` (which the parser of the bash tool does not accept), the tools other than
  `bash`.
* Character-level parsing (shell, partial JSON, TOML), provider catalogues,
  credentials, the setup dialogue, the TUI's widgets: tables and text.

## Plan

The plan's modules are written: `PendingQueue`, `AgentLifecycle`, `Agent`, `AgentHandoff`,
`ToolCall`, `SessionLog`, `Session`, `OneShot`, `EventStream`, `ProviderStream`, `ShellRun`,
`Induction`, and the proofs of all safety properties. What could follow:

1. The setters of `Agent` and subscription during a run, as further disruptions.
2. The file tools of `py-agent-tools` and the path policy, as one module with the file
   system as its state.
