---------------------------- MODULE EventStream ----------------------------
(***************************************************************************)
(* The three streams of events: AgentEventStream (agent_loop.py),          *)
(* AssistantMessageEventStream (communication.py) and                      *)
(* ProxyMessageEventStream (proxy.py), each with what feeds it.  A         *)
(* background task runs the agent's loop, or turns the payloads of a proxy *)
(* into events and a growing message; the stream of communication.py is    *)
(* fed by its user.  A reader iterates, others await result().             *)
(*                                                                         *)
(* push and end do not suspend: a step is one call of one of them, or what *)
(* a task does up to its next await.  The result is a future that is       *)
(* awaited as it is, so cancelling one task that awaits it cancels the     *)
(* future.  A push of the final event then raises; whoever feeds the       *)
(* stream is taken to stop at that: a user that catches the error and goes *)
(* on to call end is not modelled.                                         *)
(***************************************************************************)
EXTENDS Naturals, Sequences, SequencesExt

CONSTANTS Classes,      \* the streams: "agent", "assistant", "proxy"
          Kinds,        \* of content blocks: "text", "thinking", "tool"
          Waiters,      \* the tasks that may await result()
          MaxSent,      \* bound: events or payloads of one stream
          MaxIndex,     \* bound: the index of a block
          Disruptions   \* "raise": the runner's source raises
                        \* "stray": a proxy that does not keep its protocol
                        \* "cancel": a task that awaits result() is cancelled

ASSUME StreamAssumption ==
  /\ Classes \subseteq {"agent", "assistant", "proxy"}
  /\ Kinds \subseteq {"text", "thinking", "tool"}
  /\ MaxSent \in Nat /\ MaxIndex \in Nat

VARIABLES class,        \* which of the streams this is
          runner,       \* "running", "returned", "raised" (its source), "failed"
          sent,         \* how many events or payloads the runner has handled
          queue,        \* _queue
          closed,       \* _closed
          result,       \* the future: "pending", "cancelled", "set" and by what
          seen,         \* what the reader has
          reader,       \* "iterating", "done"
          waiter,       \* "out", "waiting", "back"
          content,      \* the proxy's partial message: its blocks
          told,         \* the blocks as the proxy sent them
          strayed       \* has the proxy left its protocol?

future == <<closed, result>>
stream == <<queue, closed, result>>
partial == <<content, told, strayed>>
vars == <<class, runner, sent, queue, closed, result, seen, reader, waiter,
          content, told, strayed>>

Event == [final : BOOLEAN, n : 0..MaxSent + 1]
Sentinel == [final |-> FALSE, n |-> 0]

Pending   == [state |-> "pending", of |-> 0]
Abandoned == [state |-> "abandoned", of |-> 0]
SetBy(n)  == [state |-> "set", of |-> n]

Block(kind) == [kind |-> kind, pieces |-> <<>>, ended |-> FALSE]

Init ==
  /\ class \in Classes
  /\ runner = "running" /\ sent = 0
  /\ queue = <<>> /\ closed = FALSE /\ result = Pending
  /\ seen = <<>> /\ reader = "iterating"
  /\ waiter = [w \in Waiters |-> "out"]
  /\ content = <<>> /\ told = <<>> /\ strayed = FALSE

-----------------------------------------------------------------------------
(***************************************************************************)
(* push: a closed stream ignores the event.  A final event settles the     *)
(* result; if a waiter's cancellation has done so before, set_result       *)
(* raises: the runner fails, the stream stays open, and only two of the    *)
(* three classes have put the event into the queue by then.                *)
(***************************************************************************)
Ignored == closed /\ UNCHANGED <<runner, stream>>

Queued(e) ==
  /\ ~closed /\ ~e.final
  /\ queue' = Append(queue, e)
  /\ UNCHANGED <<runner, future>>

\* Mutant: the sentinel is queued before the final event.
FinalAfterSentinel(e) ==
  /\ ~closed /\ e.final /\ result = Pending
  /\ result' = SetBy(e.n)
  /\ closed' = TRUE
  /\ queue' = queue \o <<Sentinel, e>>
  /\ UNCHANGED runner

\* Mutant: the future resolves to the event and not to what it carries.
FinalIsResult(e) ==
  /\ ~closed /\ e.final /\ result = Pending
  /\ result' = e
  /\ closed' = TRUE
  /\ queue' = queue \o <<e, Sentinel>>
  /\ UNCHANGED runner

Final(e) ==
  /\ ~closed /\ e.final /\ result = Pending
  /\ result' = SetBy(e.n)
  /\ closed' = TRUE
  /\ queue' = queue \o <<e, Sentinel>>
  /\ UNCHANGED runner

Rejected(e) ==
  /\ ~closed /\ e.final /\ result # Pending
  /\ runner' = "failed"
  /\ queue' = IF class = "assistant" THEN queue ELSE Append(queue, e)
  /\ UNCHANGED future

Push(e) == Ignored \/ Queued(e) \/ Final(e) \/ Rejected(e)

\* Mutant: end leaves the reader without a sentinel.
EndUnannounced(given) ==
  /\ runner' = "returned"
  /\ closed' = TRUE
  /\ result' = IF ~closed /\ given /\ result = Pending THEN SetBy(0) ELSE result
  /\ UNCHANGED queue

\* end(result), called with a result or without one.
End(given) ==
  /\ runner' = "returned"
  /\ closed' = TRUE
  /\ result' = IF ~closed /\ given /\ result = Pending THEN SetBy(0) ELSE result
  /\ queue' = IF closed THEN queue ELSE Append(queue, Sentinel)

-----------------------------------------------------------------------------
(***************************************************************************)
(* The runners.                                                            *)
(***************************************************************************)
Handle ==
  /\ runner = "running"
  /\ sent < MaxSent
  /\ sent' = sent + 1
  /\ UNCHANGED <<class, seen, reader, waiter>>

\* run_agent_loop emits an event of its run.
AgentEmits ==
  /\ class = "agent" /\ Handle
  /\ Push([final |-> FALSE, n |-> sent'])
  /\ UNCHANGED partial

\* run_agent_loop emits agent_end and returns, and the runner calls end,
\* which finds the stream closed; if push raises it is not reached.
AgentEnds ==
  /\ class = "agent" /\ runner = "running"
  /\ LET e == [final |-> TRUE, n |-> sent + 1] IN
       \/ /\ ~closed /\ result = Pending
          /\ runner' = "returned"
          /\ result' = SetBy(e.n)
          /\ closed' = TRUE
          /\ queue' = queue \o <<e, Sentinel>>
       \/ Rejected(e)
  /\ sent' = sent + 1
  /\ UNCHANGED <<class, seen, reader, waiter, partial>>

\* The user of an AssistantMessageEventStream pushes an event, or calls end.
UserPushes(final) ==
  /\ class = "assistant" /\ Handle
  /\ Push([final |-> final, n |-> sent'])
  /\ UNCHANGED partial

UserEnds(given) ==
  /\ class = "assistant" /\ runner = "running"
  /\ End(given)
  /\ UNCHANGED <<class, sent, seen, reader, waiter, partial>>

-----------------------------------------------------------------------------
(***************************************************************************)
(* process_proxy_event.  A payload is about the block at an index, counted *)
(* from 0.  The start of a block makes room for it with empty text blocks  *)
(* and puts it in its place; what comes later must find a block of its     *)
(* kind there, or an exception ends the runner; the end of a tool call     *)
(* that finds another block is ignored.                                    *)
(***************************************************************************)
BlockPayload ==
  [type : {"start", "delta", "end"}, kind : Kinds, index : 0..MaxIndex]
Closing == [type : {"done", "error"}]
Other == [type : {"message", "unknown"}]     \* the payload "start", and any other type
Payload == BlockPayload \cup Closing \cup Other

\* Mutant: a payload is about the last block, whatever its index.
MatchesLast(p) == content # <<>> /\ content[Len(content)].kind = p.kind

Matches(p) == p.index < Len(content) /\ content[p.index + 1].kind = p.kind

Raises(p) ==
  \/ p.type = "delta" /\ ~Matches(p)
  \/ /\ p.type = "end" /\ ~Matches(p)
     /\ p.kind = "tool" => p.index >= Len(content)

Silent(p) == p.type = "unknown" \/ (p.type = "end" /\ ~Matches(p))

Padding(i) == [j \in 1..(i - Len(content)) |-> Block("text")]

Started(p) ==
  IF p.index < Len(content)
  THEN [content EXCEPT ![p.index + 1] = Block(p.kind)]
  ELSE (content \o Padding(p.index)) \o <<Block(p.kind)>>

\* Mutant: the last block grows, whatever the index.
GrownLast(p) ==
  LET block == content[Len(content)] IN
  [content EXCEPT ![Len(content)].pieces = Append(block.pieces, sent')]

\* The end of a tool call clears its partial_json: what comes later is parsed
\* without what came before.
Grown(p) ==
  LET block == content[p.index + 1]
      parsed == IF p.kind = "tool" /\ block.ended THEN <<>> ELSE block.pieces
  IN  [content EXCEPT ![p.index + 1] =
         [kind |-> p.kind, pieces |-> Append(parsed, sent'),
          ended |-> block.ended /\ p.kind # "tool"]]

Processed(p) ==
  CASE p.type = "start" -> Started(p)
    [] p.type = "delta" -> Grown(p)
    [] p.type = "end" /\ Matches(p) -> [content EXCEPT ![p.index + 1].ended = TRUE]
    [] OTHER -> content

-----------------------------------------------------------------------------
(***************************************************************************)
(* The proxy: it starts blocks one after the other, grows and ends those   *)
(* that are open, and after done or error sends nothing.                   *)
(***************************************************************************)
Open(p) ==
  /\ p.index < Len(told)
  /\ told[p.index + 1].kind = p.kind /\ ~told[p.index + 1].ended

FromProxy(p) ==
  /\ ~closed
  /\ p.type = "start" => p.index = Len(told)
  /\ p.type \in {"delta", "end"} => Open(p)

Told(p) ==
  CASE p.type = "start" -> Append(told, Block(p.kind))
    [] p.type = "delta" -> [told EXCEPT ![p.index + 1].pieces = Append(@, sent')]
    [] p.type = "end" -> [told EXCEPT ![p.index + 1].ended = TRUE]
    [] OTHER -> told

\* One round of the loop of stream_proxy_from_events.  The message grows also
\* when the stream is closed and ignores the event.
ProxySends(p) ==
  /\ class = "proxy" /\ Handle
  /\ FromProxy(p) \/ "stray" \in Disruptions
  /\ strayed' = (strayed \/ ~FromProxy(p))
  /\ told' = IF FromProxy(p) THEN Told(p) ELSE told
  /\ \/ /\ Raises(p)
        /\ runner' = "failed"
        /\ UNCHANGED <<stream, content>>
     \/ /\ ~Raises(p)
        /\ content' = Processed(p)
        /\ IF Silent(p) THEN UNCHANGED <<runner, stream>>
           ELSE Push([final |-> p \in Closing, n |-> sent'])

\* The payloads are over: the runner calls end with what there is.
ProxyEnds ==
  /\ class = "proxy" /\ runner = "running"
  /\ End(TRUE)
  /\ UNCHANGED <<class, sent, seen, reader, waiter, partial>>

\* run_agent_loop, or the iterator of payloads, raises.
SourceRaises ==
  /\ "raise" \in Disruptions
  /\ class # "assistant" /\ runner = "running"
  /\ runner' = "raised"
  /\ UNCHANGED <<class, sent, stream, seen, reader, waiter, partial>>

-----------------------------------------------------------------------------
(***************************************************************************)
(* The reader and those who await the result.                              *)
(***************************************************************************)
Read ==
  /\ reader = "iterating" /\ queue # <<>>
  /\ queue' = Tail(queue)
  /\ IF Head(queue) = Sentinel
     THEN reader' = "done" /\ UNCHANGED seen
     ELSE seen' = Append(seen, Head(queue)) /\ UNCHANGED reader
  /\ UNCHANGED <<class, runner, sent, future, waiter, partial>>

Await(w) ==
  /\ waiter[w] = "out"
  /\ waiter' = [waiter EXCEPT ![w] = "waiting"]
  /\ UNCHANGED <<class, runner, sent, stream, seen, reader, partial>>

\* result() returns, or raises CancelledError if the future was cancelled.
Return(w) ==
  /\ waiter[w] = "waiting" /\ result # Pending
  /\ waiter' = [waiter EXCEPT ![w] = "back"]
  /\ UNCHANGED <<class, runner, sent, stream, seen, reader, partial>>

\* The task is cancelled, by a timeout for example, while it awaits the future.
CancelWaiter(w) ==
  /\ "cancel" \in Disruptions
  /\ waiter[w] = "waiting"
  /\ waiter' = [waiter EXCEPT ![w] = "back"]
  /\ result' = IF result = Pending THEN Abandoned ELSE result
  /\ UNCHANGED <<class, runner, sent, queue, closed, seen, reader, partial>>

Runner == AgentEmits \/ AgentEnds \/ ProxyEnds \/ \E p \in Payload : ProxySends(p)

Next ==
  \/ Runner \/ SourceRaises
  \/ \E final \in BOOLEAN : UserPushes(final)
  \/ \E given \in BOOLEAN : UserEnds(given)
  \/ Read
  \/ \E w \in Waiters : Await(w) \/ Return(w) \/ CancelWaiter(w)

\* asyncio resumes what is ready: the reader with an item, who awaits a settled
\* future, and the runner, whose source ends.
Fairness ==
  /\ WF_vars(Runner) /\ WF_vars(Read)
  /\ \A w \in Waiters : WF_vars(Return(w))

SafeSpec == Init /\ [][Next]_vars
Spec == SafeSpec /\ Fairness

-----------------------------------------------------------------------------
TypeOK ==
  /\ class \in {"agent", "assistant", "proxy"}
  /\ runner \in {"running", "returned", "raised", "failed"}
  /\ sent \in Nat /\ closed \in BOOLEAN /\ strayed \in BOOLEAN
  /\ queue \in Seq(Event) /\ seen \in Seq(Event)
  /\ result \in [state : {"pending", "abandoned", "set"}, of : Nat]
  /\ reader \in {"iterating", "done"}
  /\ waiter \in [Waiters -> {"out", "waiting", "back"}]
  /\ content \in Seq([kind : Kinds \cup {"text"}, pieces : Seq(Nat), ended : BOOLEAN])
  /\ told \in Seq([kind : Kinds, pieces : Seq(Nat), ended : BOOLEAN])

(***************************************************************************)
(* The promise of OneShot.  What the reader has not taken is in the queue, *)
(* where the sentinel comes last.                                          *)
(***************************************************************************)
Waiting == IF closed /\ reader = "iterating" THEN Front(queue) ELSE queue

Promise == INSTANCE OneShot WITH
  events <- seen \o Waiting, taken <- Len(seen),
  ended <- closed, over <- reader = "done", outcome <- result

PromiseKept == Promise!Spec

(***************************************************************************)
(* A stream fails only if its proxy left the protocol or a waiter was      *)
(* cancelled before the final event: what a proxy sends by its protocol    *)
(* never makes process_proxy_event raise.                                  *)
(***************************************************************************)
FailureHasCause == runner = "failed" => strayed \/ result = Abandoned

(***************************************************************************)
(* The message a proxied stream resolves to has the blocks the proxy sent, *)
(* each with its pieces in order, whichever way the blocks interleave.     *)
(***************************************************************************)
Assembled ==
  class = "proxy" /\ ~strayed /\ result.state = "set" => content = told

(***************************************************************************)
(* A stream with a runner lets its reader and everyone who awaits its      *)
(* result go, or its runner has raised.  Nothing else can hold them: a     *)
(* runner that returns closes the stream whatever the waiters did.         *)
(***************************************************************************)
Released ==
  class # "assistant" ~>
    \/ runner \in {"raised", "failed"}
    \/ reader = "done" /\ \A w \in Waiters : waiter[w] # "waiting"
=============================================================================
