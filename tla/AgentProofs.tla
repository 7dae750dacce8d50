----------------------------- MODULE AgentProofs -----------------------------
(***************************************************************************)
(* Proofs about Agent, for every number of messages, tool batches and tool *)
(* calls and every set of disruptions.  IInv is inductive: TypeOK alone is *)
(* not, since posting a result is well typed only inside its batch, and    *)
(* IdleIsClean needs to know that no tool is in progress whenever the run  *)
(* can end.  Each conjunct of IInv has a lemma, with one case per action   *)
(* that can disturb it; the theorems at the end combine them.              *)
(***************************************************************************)
EXTENDS Agent, SequenceTheorems, TLAPS

-----------------------------------------------------------------------------
(***************************************************************************)
(* What messages and sequences of them are made of.                        *)
(***************************************************************************)

\* A drain returns, and leaves, a sequence of what the queue holds.
LEMMA DrainType ==
  ASSUME NEW S, NEW q \in Seq(S), NEW m
  PROVE  /\ Drained(m, q) \in Seq(S)
         /\ Remaining(m, q) \in Seq(S)
BY DEF Drained, Remaining

\* The three kinds of messages are messages.
LEMMA MessageTypes ==
  /\ UserMessage \subseteq Message
  /\ AssistantMessage \subseteq Message
  /\ ToolResultMessage \subseteq Message
BY DEF Message

\* A sequence of user messages is a sequence of messages, and the queues are
\* sequences of user messages.
LEMMA UserSeq ==
  /\ Seq(UserMessage) \subseteq Seq(Message)
  /\ Seq(UserOf({"steer"})) \subseteq Seq(UserMessage)
  /\ Seq(UserOf({"followUp"})) \subseteq Seq(UserMessage)
<1>1. \A S, T : S \subseteq T => Seq(S) \subseteq Seq(T)
  <2> SUFFICES ASSUME NEW S, NEW T, S \subseteq T, NEW q \in Seq(S)
               PROVE  q \in Seq(T)
    OBVIOUS
  <2> QED OBVIOUS
<1>2. /\ UserOf({"steer"}) \subseteq UserMessage
      /\ UserOf({"followUp"}) \subseteq UserMessage
  BY DEF UserOf, UserMessage, Kinds
<1> QED BY <1>1, <1>2, MessageTypes

\* What is drained from a queue are user messages.
LEMMA DrainedUsers ==
  ASSUME QueueTypeOK
  PROVE  /\ Drained(mode["steer"], steeringQueue) \in Seq(UserMessage)
         /\ Drained(mode["followUp"], followUpQueue) \in Seq(UserMessage)
<1>1. /\ steeringQueue \in Seq(UserMessage)
      /\ followUpQueue \in Seq(UserMessage)
  BY UserSeq DEF QueueTypeOK
<1> QED BY <1>1, DrainType

\* The transcript and the context grow by messages.
LEMMA AppendMessage ==
  ASSUME NEW q \in Seq(Message), NEW m \in Message
  PROVE  Append(q, m) \in Seq(Message)
OBVIOUS

\* A user message submitted within the bound can be queued.
LEMMA AppendUser ==
  ASSUME NEW k, NEW q \in Seq(UserOf({k})), NEW n \in Nat
  PROVE  Append(q, User(k, n)) \in Seq(UserOf({k}))
<1>1. User(k, n) \in UserOf({k})
  BY DEF User, UserOf
<1> QED BY <1>1

\* The message being delivered is one.
LEMMA OutboxHead ==
  ASSUME LoopTypeOK, LoopInv, pc = "delivering"
  PROVE  /\ Head(outbox) \in Message
         /\ Tail(outbox) \in Seq(UserMessage)
BY HeadTailProperties, MessageTypes DEF LoopTypeOK, LoopInv

\* What a provider may reply is an assistant message of the next batch.
LEMMA RepliesType ==
  ASSUME batch \in 0..MaxBatches
  PROVE  \A r \in Replies :
           /\ r \in AssistantMessage
           /\ r.calls # 0 => r.batch \in 1..MaxBatches
BY AgentAssumption DEF Replies, AssistantMessage, Assistant, Stops, Calls

\* The messages the loop itself makes up are assistant messages.
LEMMA FixedReplies ==
  /\ Partial \in AssistantMessage
  /\ NoReply \in AssistantMessage
  /\ NoReply.calls = 0 /\ NoReply.stop = "stop"
  /\ \A s \in Stops : Assistant(0, 0, s) \in AssistantMessage
BY AgentAssumption DEF Partial, NoReply, AssistantMessage, Assistant, Stops

\* Within its batch, a call of the reply has an id and a result message.
LEMMA CallTypes ==
  ASSUME LoopTypeOK, LoopInv, NEW i \in Batch
  PROVE  /\ i \in Calls
         /\ <<reply.batch, i>> \in CallId
         /\ Result(reply.batch, i) \in Message
<1>1. i \in Calls /\ reply.batch \in 1..MaxBatches
  BY AgentAssumption
     DEF Batch, LoopTypeOK, LoopInv, AssistantMessage, Calls
<1>2. Result(reply.batch, i) \in ToolResultMessage
  BY <1>1 DEF Result, ToolResultMessage
<1> QED BY <1>1, <1>2, MessageTypes DEF CallId

\* The results of a batch, and the next one to post, are messages.
LEMMA ResultsType ==
  ASSUME TypeOK, LoopInv, BatchInv
  PROVE  /\ Results \in Seq(Message)
         /\ pc = "posting" => Result(reply.batch, posted + 1) \in Message
<1> USE DEF TypeOK, BatchTypeOK, BatchInv
<1>1. \A i \in 1..posted : i \in Batch
  BY DEF Batch, LoopTypeOK, AssistantMessage
<1>2. \A i \in 1..posted : Result(reply.batch, i) \in Message
  BY <1>1, CallTypes
<1>3. Results \in Seq(Message)
  <2>1. posted \in Nat
    BY AgentAssumption
  <2> QED BY <1>2, <2>1 DEF Results
<1> QED BY <1>3, CallTypes

\* A call in progress belongs to the batch.
LEMMA BusyInBatch ==
  ASSUME BatchInv, NEW i \in Calls, tool[i] # "idle"
  PROVE  i \in Batch
BY DEF BatchInv

\* prompt and the three ways of continue_ all start a run.
LEMMA RunStarts ==
  ASSUME IInv, Prompt \/ ContinueWithSteering \/ ContinueWithFollowUp
               \/ ContinueRun
  PROVE  \E prompts \in Seq(UserMessage), skip \in BOOLEAN :
           StartRun(prompts, skip)
<1> USE DEF IInv, TypeOK, QueueTypeOK, RestTypeOK
<1>1. CASE Prompt
  <2> PICK n \in 1..2 :
        StartRun([i \in 1..n |-> User("prompt", submitted + i)], FALSE)
    BY <1>1 DEF Prompt
  <2>1. \A i \in 1..n : User("prompt", submitted + i) \in UserMessage
    BY AgentAssumption DEF User, UserMessage, UserOf, Kinds
  <2>2. [i \in 1..n |-> User("prompt", submitted + i)] \in Seq(UserMessage)
    BY <2>1
  <2> QED BY <2>2
<1>2. CASE ContinueWithSteering
  BY <1>2, DrainedUsers DEF ContinueWithSteering
<1>3. CASE ContinueWithFollowUp
  BY <1>3, DrainedUsers DEF ContinueWithFollowUp
<1>4. CASE ContinueRun
  <2>1. <<>> \in Seq(UserMessage)
    OBVIOUS
  <2> QED BY <1>4, <2>1 DEF ContinueRun
<1> QED BY <1>1, <1>2, <1>3, <1>4

\* The actions of the agent, one by one.
LEMMA NextCases ==
  Next =>
    \/ Prompt \/ ContinueWithSteering \/ ContinueWithFollowUp \/ ContinueRun
    \/ FirstTurn \/ FirstPoll \/ DeliverStart \/ DeliverEnd \/ Request
    \/ StreamStart \/ StreamUpdate \/ StreamDone \/ ReplyStart \/ ReplyEnd
    \/ \E i \in Calls : ToolStart(i) \/ RejectCall(i) \/ AcceptCall(i)
    \/ \E i \in Calls : SequentialEnd(i) \/ TaskEnd(i) \/ TaskReturn(i)
    \/ ResultStart \/ ResultEnd \/ TurnEnd
    \/ NextTurn \/ FollowUpTurn \/ AgentEnd
    \/ FailRun \/ LeaveRun
    \/ \E c \in orphans : OrphanEnd(c)
    \/ Steer \/ FollowUp \/ ClearQueues \/ Reset \/ Abort
    \/ \E q \in {"steer", "followUp"}, m \in Modes : SetMode(q, m)
    \/ \E w \in Waiters : WaitForIdle(w) \/ CancelWaiter(w) \/ WaiterReturns(w)
BY DEF Next, LoopStep, ProviderStep, ToolStep, UserStep, Raise, TaskRaised,
       Finish, Cancel

-----------------------------------------------------------------------------
(***************************************************************************)
(* Types are preserved.                                                    *)
(***************************************************************************)

\* Every step leaves the locals of the loop well typed.
LEMMA LoopTypeStep == IInv /\ Next => LoopTypeOK'
<1> SUFFICES ASSUME IInv, Next PROVE LoopTypeOK'
  OBVIOUS
<1> USE DEF IInv, TypeOK, LoopTypeOK, loopVars, Points, Emitting
<1>1. ASSUME NEW prompts \in Seq(UserMessage), NEW skip \in BOOLEAN,
             StartRun(prompts, skip)
      PROVE  LoopTypeOK'
  <2>1. prompts \in Seq(Message) /\ messages \o prompts \in Seq(Message)
    BY UserSeq, ConcatProperties DEF StateTypeOK
  <2> QED BY <1>1, <2>1, FixedReplies DEF StartRun
<1>2. CASE FirstPoll
  <2>1. Drained(mode["steer"], steeringQueue) \in Seq(UserMessage)
    BY DrainedUsers
  <2> QED BY <1>2, <2>1 DEF FirstPoll
<1>3. CASE DeliverEnd
  <2>1. /\ Append(context, Head(outbox)) \in Seq(Message)
        /\ Append(newMessages, Head(outbox)) \in Seq(Message)
    BY <1>3, OutboxHead, AppendMessage DEF DeliverEnd
  <2> QED BY <1>3, <2>1, OutboxHead DEF DeliverEnd
<1>4. CASE FirstTurn \/ DeliverStart \/ Request
  BY <1>4 DEF FirstTurn, DeliverStart, Request
<1>5. CASE StreamStart
  BY <1>5, FixedReplies, MessageTypes, AppendMessage DEF StreamStart
<1>6. CASE StreamUpdate
  BY <1>6 DEF StreamUpdate
<1>7. CASE StreamDone
  <2> PICK r \in Replies :
        /\ context' = [context EXCEPT ![Len(context)] = r]
        /\ newMessages' = Append(newMessages, r)
        /\ reply' = r
    BY <1>7 DEF StreamDone
  <2>1. r \in AssistantMessage /\ r \in Message
    BY RepliesType, MessageTypes DEF RestTypeOK
  <2>2. context' \in Seq(Message)
    BY <1>7, <2>1, ExceptSeq, EmptySeq DEF StreamDone, LoopInv
  <2>3. newMessages' \in Seq(Message)
    BY <2>1, AppendMessage
  <2> QED BY <1>7, <2>1, <2>2, <2>3 DEF StreamDone
<1>8. CASE ReplyStart
  <2> PICK r \in Replies : context' = Append(context, r) /\ reply' = r
    BY <1>8 DEF ReplyStart
  <2>1. r \in AssistantMessage /\ r \in Message
    BY RepliesType, MessageTypes DEF RestTypeOK
  <2>2. context' \in Seq(Message)
    BY <2>1, AppendMessage
  <2> QED BY <1>8, <2>1, <2>2 DEF ReplyStart
<1>9. CASE ReplyEnd
  <2>1. Append(newMessages, reply) \in Seq(Message)
    BY MessageTypes, AppendMessage
  <2> QED BY <1>9, <2>1 DEF ReplyEnd
<1>10. CASE TurnEnd
  <2>1. /\ context \o Results \in Seq(Message)
        /\ newMessages \o Results \in Seq(Message)
    BY ResultsType, ConcatProperties
  <2> QED BY <1>10, <2>1 DEF TurnEnd
<1>11. CASE NextTurn
  <2>1. Drained(mode["steer"], steeringQueue) \in Seq(UserMessage)
    BY DrainedUsers
  <2> QED BY <1>11, <2>1 DEF NextTurn, BeginTurn
<1>12. CASE FollowUpTurn
  <2>1. Drained(mode["followUp"], followUpQueue) \in Seq(UserMessage)
    BY DrainedUsers
  <2> QED BY <1>12, <2>1 DEF FollowUpTurn, BeginTurn
<1>13. CASE FailRun \/ LeaveRun
  <2>1. <<>> \in Seq(Message) /\ <<>> \in Seq(UserMessage)
    OBVIOUS
  <2> QED BY <1>13, <2>1, FixedReplies DEF FailRun, LeaveRun, BecomeIdle, LeaveLoop
<1>14. CASE AgentEnd \/ ResultStart \/ ResultEnd
  BY <1>14 DEF AgentEnd, ResultStart, ResultEnd
<1>15. ASSUME NEW i \in Calls, ToolStart(i) \/ RejectCall(i) \/ AcceptCall(i)
       PROVE  LoopTypeOK'
  BY <1>15 DEF ToolStart, RejectCall, AcceptCall
<1>16. ASSUME NEW i \in Calls,
              SequentialEnd(i) \/ TaskEnd(i) \/ TaskReturn(i)
       PROVE  LoopTypeOK'
  BY <1>16 DEF SequentialEnd, TaskEnd, TaskReturn, FinishCall
<1>17. CASE Steer \/ FollowUp \/ ClearQueues \/ Reset \/ Abort
  BY <1>17 DEF Steer, FollowUp, ClearQueues, Reset, Abort
<1>18. ASSUME NEW q \in {"steer", "followUp"}, NEW m \in Modes, SetMode(q, m)
       PROVE  LoopTypeOK'
  BY <1>18 DEF SetMode
<1>19. ASSUME NEW c \in orphans, OrphanEnd(c)
       PROVE  LoopTypeOK'
  BY <1>19 DEF OrphanEnd
<1>20. ASSUME NEW w \in Waiters, WaitForIdle(w) \/ CancelWaiter(w) \/ WaiterReturns(w)
       PROVE  LoopTypeOK'
  BY <1>20 DEF WaitForIdle, CancelWaiter, WaiterReturns
<1> QED
  BY <1>1, <1>2, <1>3, <1>4, <1>5, <1>6, <1>7, <1>8, <1>9, <1>10, <1>11,
     <1>12, <1>13, <1>14, <1>15, <1>16, <1>17, <1>18, <1>19, <1>20, RunStarts,
     NextCases

\* An event is well typed if its type is one and it is about a tool call, or
\* about none.
LEMMA EventType ==
  ASSUME NEW t \in Types
  PROVE  /\ Emit(t) => event' \in [type : Types, call : CallId \cup {NoCall}]
         /\ \A c \in CallId : EmitCall(t, c) =>
              event' \in [type : Types, call : CallId \cup {NoCall}]
BY DEF Emit, EmitCall

\* Every step leaves the observable state well typed.
LEMMA StateTypeStep == IInv /\ Next => StateTypeOK'
<1> SUFFICES ASSUME IInv, Next PROVE StateTypeOK'
  OBVIOUS
<1> USE DEF IInv, TypeOK, StateTypeOK, stateVars
<1> DEFINE E == event' \in [type : Types, call : CallId \cup {NoCall}]
<1>0. /\ \A t \in Types : Emit(t) => E
      /\ \A t \in Types : \A c \in CallId : EmitCall(t, c) => E
  BY EventType
<1>1. ASSUME NEW prompts \in Seq(UserMessage), NEW skip \in BOOLEAN,
             StartRun(prompts, skip)
      PROVE  StateTypeOK'
  BY <1>0, <1>1 DEF StartRun, Types
<1>2. CASE FirstTurn \/ DeliverStart \/ StreamStart \/ StreamUpdate
           \/ ResultStart \/ TurnEnd \/ AgentEnd
  BY <1>0, <1>2 DEF FirstTurn, DeliverStart, StreamStart, StreamUpdate,
                    ResultStart, TurnEnd, AgentEnd, Types
<1>3. CASE FirstPoll \/ Request
  BY <1>3 DEF FirstPoll, Request
<1>4. CASE DeliverEnd
  <2>1. messages' \in Seq(Message)
    BY <1>4, OutboxHead, AppendMessage DEF DeliverEnd
  <2> QED BY <1>0, <1>4, <2>1 DEF DeliverEnd, Types
<1>5. CASE StreamDone
  <2> PICK r \in Replies : messages' = Append(messages, r)
    BY <1>5 DEF StreamDone
  <2>1. r \in Message
    BY RepliesType, MessageTypes DEF RestTypeOK
  <2>2. messages' \in Seq(Message)
    BY <2>1, AppendMessage
  <2> QED BY <1>0, <1>5, <2>2 DEF StreamDone, Types
<1>6. CASE ReplyStart
  BY <1>0, <1>6 DEF ReplyStart, Types
<1>7. CASE ReplyEnd
  <2>1. messages' \in Seq(Message)
    BY <1>7, MessageTypes, AppendMessage DEF ReplyEnd, LoopTypeOK
  <2> QED BY <1>0, <1>7, <2>1 DEF ReplyEnd, Types
<1>8. CASE ResultEnd
  <2>1. messages' \in Seq(Message)
    BY <1>8, ResultsType, AppendMessage DEF ResultEnd
  <2> QED BY <1>0, <1>8, <2>1 DEF ResultEnd, Types
<1>9. CASE NextTurn \/ FollowUpTurn
  BY <1>0, <1>9 DEF NextTurn, FollowUpTurn, BeginTurn, Types
<1>10. CASE FailRun
  <2> PICK s \in Stops : messages' = Append(messages, Assistant(0, 0, s))
    BY <1>10 DEF FailRun, Stops
  <2>1. messages' \in Seq(Message)
    BY FixedReplies, MessageTypes, AppendMessage
  <2> QED BY <1>0, <1>10, <2>1 DEF FailRun, Types
<1>11. CASE LeaveRun
  BY <1>11 DEF LeaveRun, BecomeIdle
<1>12. CASE Reset
  <2>1. <<>> \in Seq(Message)
    OBVIOUS
  <2> QED BY <1>12, <2>1 DEF Reset
<1>13. ASSUME NEW i \in Calls, ToolStart(i) \/ RejectCall(i) \/ AcceptCall(i)
       PROVE  StateTypeOK'
  <2>1. i \in Batch
    BY <1>13, BusyInBatch DEF ToolStart, RejectCall, AcceptCall
  <2>2. <<reply.batch, i>> \in CallId
    BY <2>1, CallTypes
  <2> QED
    BY <1>0, <1>13, <2>2
       DEF ToolStart, RejectCall, AcceptCall, CallEnded, Types
<1>14. ASSUME NEW i \in Calls,
              SequentialEnd(i) \/ TaskEnd(i) \/ TaskReturn(i)
       PROVE  StateTypeOK'
  <2>1. CASE TaskReturn(i)
    BY <2>1 DEF TaskReturn
  <2>2. CASE SequentialEnd(i) \/ TaskEnd(i)
    <3>1. <<reply.batch, i>> \in CallId
      BY <2>2, BusyInBatch, CallTypes DEF SequentialEnd, TaskEnd, FinishCall
    <3> QED
      BY <1>0, <2>2, <3>1
         DEF SequentialEnd, TaskEnd, FinishCall, CallEnded, Types
  <2> QED BY <1>14, <2>1, <2>2
<1>15. ASSUME NEW c \in orphans, OrphanEnd(c)
       PROVE  StateTypeOK'
  <2>1. c \in CallId
    BY DEF RestTypeOK
  <2> QED BY <1>0, <1>15, <2>1 DEF OrphanEnd, Types
<1>16. CASE Steer \/ FollowUp \/ ClearQueues \/ Abort
  BY <1>16 DEF Steer, FollowUp, ClearQueues, Abort
<1>17. ASSUME NEW q \in {"steer", "followUp"}, NEW m \in Modes, SetMode(q, m)
       PROVE  StateTypeOK'
  BY <1>17 DEF SetMode
<1>18. ASSUME NEW w \in Waiters, WaitForIdle(w) \/ CancelWaiter(w) \/ WaiterReturns(w)
       PROVE  StateTypeOK'
  BY <1>18 DEF WaitForIdle, CancelWaiter, WaiterReturns
<1> QED
  BY <1>1, <1>2, <1>3, <1>4, <1>5, <1>6, <1>7, <1>8, <1>9, <1>10, <1>11,
     <1>12, <1>13, <1>14, <1>15, <1>16, <1>17, <1>18, RunStarts, NextCases

\* Every step leaves the queues well typed.
LEMMA QueueTypeStep == IInv /\ Next => QueueTypeOK'
<1> SUFFICES ASSUME IInv, Next PROVE QueueTypeOK'
  OBVIOUS
<1> USE DEF IInv, TypeOK, QueueTypeOK, queueVars
<1> DEFINE S == Seq(UserOf({"steer"}))
           F == Seq(UserOf({"followUp"}))
<1>0. /\ Remaining(mode["steer"], steeringQueue) \in S
      /\ Remaining(mode["followUp"], followUpQueue) \in F
      /\ <<>> \in S /\ <<>> \in F
  BY DrainType
<1>1. CASE Prompt \/ ContinueWithSteering \/ ContinueWithFollowUp
           \/ ContinueRun
  BY <1>0, <1>1 DEF Prompt, ContinueWithSteering, ContinueWithFollowUp,
                    ContinueRun, StartRun
<1>2. CASE FirstPoll
  BY <1>0, <1>2 DEF FirstPoll
<1>3. CASE NextTurn \/ FollowUpTurn
  BY <1>0, <1>3 DEF NextTurn, FollowUpTurn, BeginTurn
<1>4. CASE Steer
  <2>1. steeringQueue' \in S
    BY <1>4, AppendUser DEF Steer, RestTypeOK
  <2> QED BY <1>4, <2>1 DEF Steer
<1>5. CASE FollowUp
  <2>1. followUpQueue' \in F
    BY <1>5, AppendUser DEF FollowUp, RestTypeOK
  <2> QED BY <1>5, <2>1 DEF FollowUp
<1>6. CASE ClearQueues \/ Reset
  BY <1>0, <1>6 DEF ClearQueues, Reset
<1>7. ASSUME NEW q \in {"steer", "followUp"}, NEW m \in Modes, SetMode(q, m)
      PROVE  QueueTypeOK'
  BY <1>7, AgentAssumption DEF SetMode
<1>8. CASE FirstTurn \/ DeliverStart \/ DeliverEnd \/ Request
  BY <1>8 DEF FirstTurn, DeliverStart, DeliverEnd, Request
<1>9. CASE StreamStart \/ StreamUpdate \/ StreamDone \/ ReplyStart \/ ReplyEnd
  BY <1>9 DEF StreamStart, StreamUpdate, StreamDone, ReplyStart, ReplyEnd
<1>10. CASE ResultStart \/ ResultEnd \/ TurnEnd \/ AgentEnd
  BY <1>10 DEF ResultStart, ResultEnd, TurnEnd, AgentEnd
<1>11. CASE FailRun \/ LeaveRun \/ Abort
  BY <1>11 DEF FailRun, LeaveRun, Abort
<1>12. ASSUME NEW i \in Calls,
              \/ ToolStart(i) \/ RejectCall(i) \/ AcceptCall(i)
              \/ SequentialEnd(i) \/ TaskEnd(i) \/ TaskReturn(i)
       PROVE  QueueTypeOK'
  BY <1>12 DEF ToolStart, RejectCall, AcceptCall, SequentialEnd, TaskEnd,
               TaskReturn, FinishCall
<1>13. ASSUME NEW c \in orphans, OrphanEnd(c)
       PROVE  QueueTypeOK'
  BY <1>13 DEF OrphanEnd
<1>14. ASSUME NEW w \in Waiters, WaitForIdle(w) \/ CancelWaiter(w) \/ WaiterReturns(w)
       PROVE  QueueTypeOK'
  BY <1>14 DEF WaitForIdle, CancelWaiter, WaiterReturns
<1> QED
  BY <1>1, <1>2, <1>3, <1>4, <1>5, <1>6, <1>7, <1>8, <1>9, <1>10, <1>11,
     <1>12, <1>13, <1>14, NextCases

\* An unused batch is well typed, and so is that of a new reply.
LEMMA FreshBatch ==
  /\ ClearBatch /\ sequential' \in BOOLEAN => BatchTypeOK'
  /\ \A r : ExpectBatch(r) => sequential' \in BOOLEAN
<1>1. ASSUME ClearBatch, sequential' \in BOOLEAN PROVE BatchTypeOK'
  BY <1>1, AgentAssumption DEF ClearBatch, BatchTypeOK, NoTools, ToolStates
<1>2. ASSUME NEW r, ExpectBatch(r) PROVE sequential' \in BOOLEAN
  BY <1>2, Zenon DEF ExpectBatch
<1> QED BY <1>1, <1>2

\* Every step leaves the locals of the tool batch well typed.
LEMMA BatchTypeStep == IInv /\ Next => BatchTypeOK'
<1> SUFFICES ASSUME IInv, Next PROVE BatchTypeOK'
  OBVIOUS
<1> USE DEF IInv, TypeOK, BatchTypeOK, batchVars
<1>1. CASE StreamDone
  BY <1>1, FreshBatch DEF StreamDone, ExpectBatch
<1>2. CASE ReplyStart
  BY <1>2, FreshBatch DEF ReplyStart, ExpectBatch
<1>3. CASE FailRun \/ LeaveRun
  BY <1>3, FreshBatch DEF FailRun, LeaveRun, LeaveLoop
<1>4. CASE ResultEnd
  <2>1. posted + 1 \in Calls
    BY <1>4, CallTypes DEF ResultEnd, BatchInv
  <2> QED BY <1>4, <2>1, AgentAssumption DEF ResultEnd, Calls
<1>5. ASSUME NEW i \in Calls,
             \/ ToolStart(i) \/ RejectCall(i) \/ AcceptCall(i)
             \/ SequentialEnd(i) \/ TaskEnd(i) \/ TaskReturn(i)
      PROVE  BatchTypeOK'
  BY <1>5 DEF ToolStart, RejectCall, AcceptCall, SequentialEnd, TaskEnd,
              TaskReturn, FinishCall, ToolStates
<1>6. ASSUME NEW prompts \in Seq(UserMessage), NEW skip \in BOOLEAN,
             StartRun(prompts, skip)
      PROVE  BatchTypeOK'
  BY <1>6 DEF StartRun
<1>7. CASE FirstTurn \/ FirstPoll \/ DeliverStart \/ DeliverEnd \/ Request
  BY <1>7 DEF FirstTurn, FirstPoll, DeliverStart, DeliverEnd, Request
<1>8. CASE StreamStart \/ StreamUpdate \/ ReplyEnd \/ ResultStart \/ TurnEnd
  BY <1>8 DEF StreamStart, StreamUpdate, ReplyEnd, ResultStart, TurnEnd
<1>9. CASE NextTurn \/ FollowUpTurn \/ AgentEnd
  BY <1>9 DEF NextTurn, FollowUpTurn, BeginTurn, AgentEnd
<1>10. CASE Steer \/ FollowUp \/ ClearQueues \/ Reset \/ Abort
  BY <1>10 DEF Steer, FollowUp, ClearQueues, Reset, Abort
<1>11. ASSUME NEW q \in {"steer", "followUp"}, NEW m \in Modes, SetMode(q, m)
       PROVE  BatchTypeOK'
  BY <1>11 DEF SetMode
<1>12. ASSUME NEW c \in orphans, OrphanEnd(c)
       PROVE  BatchTypeOK'
  BY <1>12 DEF OrphanEnd
<1>13. ASSUME NEW w \in Waiters, WaitForIdle(w) \/ CancelWaiter(w) \/ WaiterReturns(w)
       PROVE  BatchTypeOK'
  BY <1>13 DEF WaitForIdle, CancelWaiter, WaiterReturns
<1> QED
  BY <1>1, <1>2, <1>3, <1>4, <1>5, <1>6, <1>7, <1>8, <1>9, <1>10, <1>11,
     <1>12, <1>13, RunStarts, NextCases

\* A task that runs when its run is left has the id of a call.
LEMMA RunningTasksType ==
  ASSUME LoopTypeOK, LoopInv, BatchInv
  PROVE  RunningTasks \subseteq CallId
<1>1. \A i \in Calls : tool[i] = "running" => <<reply.batch, i>> \in CallId
  BY BusyInBatch, CallTypes
<1> QED BY <1>1 DEF RunningTasks

\* Every step leaves the rest well typed.
\* Waking the waiters keeps their type and leaves none of them waiting.
LEMMA WokenType ==
  RestTypeOK => /\ Woken \in [Waiters -> {"none", "waiting", "woken"}]
                /\ \A w \in Waiters : Woken[w] # "waiting"
BY DEF RestTypeOK, Woken

LEMMA RestTypeStep == IInv /\ Next => RestTypeOK'
<1> SUFFICES ASSUME IInv, Next PROVE RestTypeOK'
  OBVIOUS
<1> USE DEF IInv, TypeOK, RestTypeOK, restVars
<1>1. CASE StreamDone
  <2> PICK r \in Replies : ExpectBatch(r)
    BY <1>1 DEF StreamDone
  <2>1. batch' \in 0..MaxBatches
    BY RepliesType, AgentAssumption DEF ExpectBatch
  <2> QED BY <1>1, <2>1 DEF StreamDone
<1>2. CASE ReplyStart
  <2> PICK r \in Replies : ExpectBatch(r)
    BY <1>2 DEF ReplyStart
  <2>1. batch' \in 0..MaxBatches
    BY RepliesType, AgentAssumption DEF ExpectBatch
  <2> QED BY <1>2, <2>1 DEF ReplyStart
<1>3. CASE FailRun
  BY <1>3, RunningTasksType DEF FailRun, LeaveLoop
<1>4. CASE LeaveRun
  <2>1. waiter' \in [Waiters -> {"none", "waiting", "woken"}]
    BY <1>4, WokenType DEF LeaveRun, BecomeIdle
  <2>2. cancelled' \in BOOLEAN /\ aborted' \in BOOLEAN
    BY <1>4 DEF LeaveRun, BecomeIdle
  <2> QED BY <1>4, <2>1, <2>2, RunningTasksType DEF LeaveRun, LeaveLoop
<1>5. CASE Prompt
  BY <1>5, AgentAssumption DEF Prompt, StartRun
<1>6. CASE ContinueWithSteering \/ ContinueWithFollowUp \/ ContinueRun
  BY <1>6 DEF ContinueWithSteering, ContinueWithFollowUp, ContinueRun, StartRun
<1>7. CASE Steer \/ FollowUp
  BY <1>7, AgentAssumption DEF Steer, FollowUp
<1>8. CASE ClearQueues \/ Reset \/ Abort
  BY <1>8 DEF ClearQueues, Reset, Abort
<1>9. ASSUME NEW w \in Waiters, WaitForIdle(w) \/ CancelWaiter(w) \/ WaiterReturns(w)
      PROVE  RestTypeOK'
  <2>1. waiter' \in [Waiters -> {"none", "waiting", "woken"}]
    BY <1>9, WokenType DEF WaitForIdle, CancelWaiter, WaiterReturns
  <2>2. cancelled' \in BOOLEAN /\ UNCHANGED <<aborted, orphans, submitted, batch>>
    BY <1>9 DEF WaitForIdle, CancelWaiter, WaiterReturns
  <2> QED BY <2>1, <2>2
<1>10. ASSUME NEW c \in orphans, OrphanEnd(c)
       PROVE  RestTypeOK'
  BY <1>10 DEF OrphanEnd
<1>11. CASE FirstTurn \/ FirstPoll \/ DeliverStart \/ DeliverEnd \/ Request
  BY <1>11 DEF FirstTurn, FirstPoll, DeliverStart, DeliverEnd, Request
<1>12. CASE StreamStart \/ StreamUpdate \/ ReplyEnd
  BY <1>12 DEF StreamStart, StreamUpdate, ReplyEnd
<1>13. CASE ResultStart \/ ResultEnd \/ TurnEnd
  BY <1>13 DEF ResultStart, ResultEnd, TurnEnd
<1>14. CASE NextTurn \/ FollowUpTurn \/ AgentEnd
  BY <1>14 DEF NextTurn, FollowUpTurn, BeginTurn, AgentEnd
<1>15. ASSUME NEW i \in Calls,
              \/ ToolStart(i) \/ RejectCall(i) \/ AcceptCall(i)
              \/ SequentialEnd(i) \/ TaskEnd(i) \/ TaskReturn(i)
       PROVE  RestTypeOK'
  BY <1>15 DEF ToolStart, RejectCall, AcceptCall, SequentialEnd, TaskEnd,
               TaskReturn, FinishCall
<1>16. ASSUME NEW q \in {"steer", "followUp"}, NEW m \in Modes, SetMode(q, m)
       PROVE  RestTypeOK'
  BY <1>16 DEF SetMode
<1> QED
  BY <1>1, <1>2, <1>3, <1>4, <1>5, <1>6, <1>7, <1>8, <1>9, <1>10, <1>11,
     <1>12, <1>13, <1>14, <1>15, <1>16, NextCases

-----------------------------------------------------------------------------
(***************************************************************************)
(* What the control of the loop and of the tool batch relies on.           *)
(***************************************************************************)

\* Every step keeps what the loop relies on.
LEMMA LoopInvStep == IInv /\ Next => LoopInv'
<1> SUFFICES ASSUME IInv, Next PROVE LoopInv'
  OBVIOUS
<1> USE DEF IInv, TypeOK, LoopInv, Failed, loopVars
<1>1. CASE StreamStart
  <2>1. context' # <<>>
    BY <1>1, AppendProperties, FixedReplies, MessageTypes
       DEF StreamStart, LoopTypeOK
  <2> QED BY <1>1, <2>1 DEF StreamStart
<1>2. CASE StreamDone
  <2> PICK r \in Replies : reply' = r
    BY <1>2 DEF StreamDone
  <2>1. reply'.calls > 0 => reply'.batch > 0
    BY RepliesType, AgentAssumption DEF RestTypeOK
  <2> QED BY <1>2, <2>1 DEF StreamDone
<1>3. CASE ReplyStart
  <2> PICK r \in Replies : reply' = r
    BY <1>3 DEF ReplyStart
  <2>1. reply'.calls > 0 => reply'.batch > 0
    BY RepliesType, AgentAssumption DEF RestTypeOK
  <2> QED BY <1>3, <2>1 DEF ReplyStart
<1>4. CASE FailRun \/ LeaveRun
  BY <1>4, FixedReplies DEF FailRun, LeaveRun, BecomeIdle, LeaveLoop
<1>5. ASSUME NEW prompts \in Seq(UserMessage), NEW skip \in BOOLEAN,
             StartRun(prompts, skip)
      PROVE  LoopInv'
  BY <1>5, FixedReplies DEF StartRun
<1>6. CASE FirstTurn \/ FirstPoll \/ DeliverStart \/ DeliverEnd \/ Request
  BY <1>6 DEF FirstTurn, FirstPoll, DeliverStart, DeliverEnd, Request
<1>7. CASE StreamUpdate \/ ReplyEnd \/ ResultStart \/ ResultEnd \/ TurnEnd
  BY <1>7 DEF StreamUpdate, ReplyEnd, ResultStart, ResultEnd, TurnEnd,
              BatchOver
<1>8. CASE NextTurn \/ FollowUpTurn \/ AgentEnd
  BY <1>8 DEF NextTurn, FollowUpTurn, BeginTurn, AgentEnd
<1>9. ASSUME NEW i \in Calls,
             \/ ToolStart(i) \/ RejectCall(i) \/ AcceptCall(i)
             \/ SequentialEnd(i) \/ TaskEnd(i) \/ TaskReturn(i)
      PROVE  LoopInv'
  BY <1>9 DEF ToolStart, RejectCall, AcceptCall, SequentialEnd, TaskEnd,
              TaskReturn, FinishCall, Batch
<1>10. CASE Steer \/ FollowUp \/ ClearQueues \/ Reset \/ Abort
  BY <1>10 DEF Steer, FollowUp, ClearQueues, Reset, Abort
<1>11. ASSUME NEW q \in {"steer", "followUp"}, NEW m \in Modes, SetMode(q, m)
       PROVE  LoopInv'
  BY <1>11 DEF SetMode
<1>12. ASSUME NEW c \in orphans, OrphanEnd(c)
       PROVE  LoopInv'
  BY <1>12 DEF OrphanEnd
<1>13. ASSUME NEW w \in Waiters, WaitForIdle(w) \/ CancelWaiter(w) \/ WaiterReturns(w)
       PROVE  LoopInv'
  BY <1>13 DEF WaitForIdle, CancelWaiter, WaiterReturns
<1> QED
  BY <1>1, <1>2, <1>3, <1>4, <1>5, <1>6, <1>7, <1>8, <1>9, <1>10, <1>11,
     <1>12, <1>13, RunStarts, NextCases

\* With no call of the batch started, there is nothing to rely on.
LEMMA FreshBatchInv ==
  ASSUME ClearBatch, pc' \in {"idle", "failing", "replyStarted", "replied"}
  PROVE  BatchInv'
<1>1. tool' = NoTools /\ posted' = 0
  BY DEF ClearBatch
<1>2. \A i \in Calls : tool'[i] = "idle" /\ i > 0 /\ i \in Nat
  BY <1>1 DEF NoTools, Calls
<1>3. SequentialInv'
  BY <1>1, <1>2, <1>2 DEF SequentialInv
<1> QED BY <1>1, <1>2, <1>3 DEF BatchInv, AllDone, NoTools

\* Away from the tools, the last batch lies still.
LEMMA QuietBatchInv ==
  ASSUME BatchInv, UNCHANGED <<batchVars, reply>>,
         \/ pc' = pc
         \/ pc' \notin {"idle", "failing", "replyStarted", "replied", "prepare",
                        "executing", "tools", "toolEnded", "posting", "posted"}
            /\ pc \notin {"prepare", "executing", "tools", "toolEnded",
                          "posting"}
  PROVE  BatchInv'
<1>1. Batch' = Batch /\ Failed' = Failed /\ AllDone' = AllDone
  BY DEF Batch, Failed, AllDone, batchVars
<1>2. SequentialInv => SequentialInv'
  BY <1>1 DEF SequentialInv, batchVars
<1> QED BY <1>1, <1>2 DEF BatchInv, batchVars

\* Every step keeps what the tool batch relies on.
LEMMA BatchInvStep == IInv /\ Next => BatchInv'
<1> SUFFICES ASSUME IInv, Next PROVE BatchInv'
  OBVIOUS
<1> USE DEF IInv, TypeOK
<1>1. CASE StreamDone
  BY <1>1, FreshBatchInv DEF StreamDone, ExpectBatch
<1>2. CASE ReplyStart
  BY <1>2, FreshBatchInv DEF ReplyStart, ExpectBatch
<1>3. CASE FailRun
  BY <1>3, FreshBatchInv DEF FailRun, LeaveLoop
<1>4. CASE LeaveRun
  BY <1>4, FreshBatchInv DEF LeaveRun, BecomeIdle, LeaveLoop
<1>5. CASE FirstTurn \/ FirstPoll \/ DeliverStart \/ DeliverEnd \/ Request
  BY <1>5, QuietBatchInv
     DEF FirstTurn, FirstPoll, DeliverStart, DeliverEnd, Request, loopVars
<1>6. CASE StreamStart \/ StreamUpdate \/ NextTurn \/ FollowUpTurn \/ AgentEnd
  BY <1>6, QuietBatchInv
     DEF StreamStart, StreamUpdate, NextTurn, FollowUpTurn, BeginTurn,
         AgentEnd, loopVars
<1>7. CASE TurnEnd
  BY <1>7, QuietBatchInv DEF TurnEnd, BatchOver
<1>8. CASE Steer \/ FollowUp \/ ClearQueues \/ Reset \/ Abort
  BY <1>8, QuietBatchInv
     DEF Steer, FollowUp, ClearQueues, Reset, Abort, loopVars
<1>9. ASSUME NEW q \in {"steer", "followUp"}, NEW m \in Modes, SetMode(q, m)
      PROVE  BatchInv'
  BY <1>9, QuietBatchInv DEF SetMode, loopVars
<1>10. ASSUME NEW c \in orphans, OrphanEnd(c)
       PROVE  BatchInv'
  BY <1>10, QuietBatchInv DEF OrphanEnd, loopVars
<1>11. ASSUME NEW w \in Waiters, WaitForIdle(w) \/ CancelWaiter(w) \/ WaiterReturns(w)
       PROVE  BatchInv'
  BY <1>11, QuietBatchInv DEF WaitForIdle, CancelWaiter, WaiterReturns, loopVars
<1>12. ASSUME NEW prompts \in Seq(UserMessage), NEW skip \in BOOLEAN,
              StartRun(prompts, skip)
       PROVE  BatchInv'
  <2>1. tool' = NoTools /\ posted' = 0 /\ pc' = "started"
    BY <1>12 DEF StartRun, BatchInv, batchVars
  <2>2. \A i \in Calls : tool'[i] = "idle" /\ i > 0 /\ i \in Nat
    BY <2>1 DEF NoTools, Calls
  <2>3. SequentialInv'
    BY <2>1, <2>2 DEF SequentialInv
  <2> QED BY <2>1, <2>2, <2>3 DEF BatchInv, AllDone
<1>13. CASE ReplyEnd
  <2>1. /\ Batch' = Batch /\ Failed' = Failed /\ AllDone' = AllDone
        /\ tool = NoTools /\ posted = 0
    BY <1>13 DEF ReplyEnd, Batch, Failed, AllDone, batchVars, BatchInv
  <2>2. SequentialInv => SequentialInv'
    BY <1>13, <2>1 DEF ReplyEnd, SequentialInv, batchVars
  <2> QED BY <1>13, <2>1, <2>2 DEF ReplyEnd, BatchInv, batchVars
<1>14. ASSUME NEW i \in Calls, ToolStart(i)
       PROVE  BatchInv'
  <2>1. Batch' = Batch /\ Failed' = Failed
    BY <1>14 DEF ToolStart, Batch, Failed, loopVars
  <2>2. i \in Batch /\ i \in Nat /\ i > 0 /\ ~Failed
    BY <1>14 DEF ToolStart, Calls, Batch
  <2>3. sequential => SequentialInv'
    BY <1>14, <2>1, <2>2, AgentAssumption
       DEF ToolStart, BatchInv, SequentialInv, BatchTypeOK, loopVars, Calls
  <2> QED
    BY <1>14, <2>1, <2>2, <2>3
       DEF ToolStart, BatchInv, BatchTypeOK, AllDone, NoTools, loopVars
<1>15. ASSUME NEW i \in Calls, RejectCall(i)
       PROVE  BatchInv'
  <2>1. Batch' = Batch /\ Failed' = Failed
    BY <1>15 DEF RejectCall, Batch, Failed, loopVars
  <2>2. i \in Batch /\ i \in Nat /\ i > 0
    BY <1>15, BusyInBatch DEF RejectCall, Calls
  <2>3. sequential => SequentialInv'
    BY <1>15, <2>1, <2>2, AgentAssumption
       DEF RejectCall, BatchInv, SequentialInv, BatchTypeOK, loopVars, Calls
  <2> QED
    BY <1>15, <2>1, <2>2, <2>3
       DEF RejectCall, BatchInv, BatchTypeOK, AllDone, NoTools, loopVars
<1>16. ASSUME NEW i \in Calls, AcceptCall(i)
       PROVE  BatchInv'
  <2>1. Batch' = Batch /\ Failed' = Failed
    BY <1>16 DEF AcceptCall, Batch, Failed, loopVars
  <2>2. i \in Batch /\ i \in Nat /\ i > 0
    BY <1>16, BusyInBatch DEF AcceptCall, Calls
  <2>3. sequential => SequentialInv'
    BY <1>16, <2>1, <2>2, AgentAssumption
       DEF AcceptCall, BatchInv, SequentialInv, BatchTypeOK, loopVars, Calls
  <2> QED
    BY <1>16, <2>1, <2>2, <2>3
       DEF AcceptCall, BatchInv, BatchTypeOK, AllDone, NoTools, loopVars
<1>17. ASSUME NEW i \in Calls, SequentialEnd(i)
       PROVE  BatchInv'
  <2>1. Batch' = Batch /\ Failed' = Failed
    BY <1>17 DEF SequentialEnd, FinishCall, Batch, Failed, loopVars
  <2>2. i \in Batch /\ i \in Nat /\ i > 0
    BY <1>17, BusyInBatch DEF SequentialEnd, FinishCall, Calls
  <2>3. sequential => SequentialInv'
    BY <1>17, <2>1, <2>2, AgentAssumption
       DEF SequentialEnd, FinishCall, BatchInv, SequentialInv, BatchTypeOK, loopVars, Calls
  <2> QED
    BY <1>17, <2>1, <2>2, <2>3
       DEF SequentialEnd, FinishCall, BatchInv, BatchTypeOK, AllDone, NoTools, loopVars
<1>18. ASSUME NEW i \in Calls, TaskEnd(i)
       PROVE  BatchInv'
  <2>1. Batch' = Batch /\ Failed' = Failed
    BY <1>18 DEF TaskEnd, FinishCall, Batch, Failed, loopVars
  <2>2. i \in Batch /\ i \in Nat /\ i > 0
    BY <1>18, BusyInBatch DEF TaskEnd, FinishCall, Calls
  <2>3. sequential => SequentialInv'
    BY <1>18, <2>1, <2>2, AgentAssumption
       DEF TaskEnd, FinishCall, BatchInv, SequentialInv, BatchTypeOK, loopVars, Calls
  <2> QED
    BY <1>18, <2>1, <2>2, <2>3
       DEF TaskEnd, FinishCall, BatchInv, BatchTypeOK, AllDone, NoTools, loopVars
<1>19. ASSUME NEW i \in Calls, TaskReturn(i)
       PROVE  BatchInv'
  <2>1. Batch' = Batch /\ Failed' = Failed
    BY <1>19 DEF TaskReturn, Batch, Failed, loopVars
  <2>2. i \in Batch /\ i \in Nat /\ i > 0
    BY <1>19, BusyInBatch DEF TaskReturn, Calls
  <2>3. sequential => SequentialInv'
    BY <1>19, <2>1, <2>2, AgentAssumption
       DEF TaskReturn, BatchInv, SequentialInv, BatchTypeOK, loopVars, Calls
  <2> QED
    BY <1>19, <2>1, <2>2, <2>3
       DEF TaskReturn, BatchInv, BatchTypeOK, AllDone, NoTools, loopVars
<1>20. CASE ResultStart
  <2>1. Batch' = Batch /\ Failed' = Failed /\ AllDone' = AllDone
    BY <1>20 DEF ResultStart, Batch, Failed, AllDone, loopVars, batchVars
  <2>2. sequential => SequentialInv'
    BY <1>20, <2>1, AgentAssumption
       DEF ResultStart, BatchInv, SequentialInv, BatchTypeOK, batchVars, Calls
  <2>3. ~Failed /\ posted + 1 \in Batch
    <3>1. ~Failed
      BY <1>20 DEF ResultStart, BatchInv
    <3>2. CASE sequential
      BY <1>20, <3>2 DEF ResultStart, BatchInv, SequentialInv
    <3>3. CASE ~sequential
      BY <1>20, <3>1, <3>3, AgentAssumption
         DEF ResultStart, Batch, BatchTypeOK, LoopTypeOK, AssistantMessage
    <3> QED BY <3>1, <3>2, <3>3
  <2>4. \A k \in Calls : tool[k] \in {"idle", "done"}
    <3>1. CASE sequential
      BY <1>20, <3>1, AgentAssumption
         DEF ResultStart, BatchInv, SequentialInv, BatchTypeOK, Calls
    <3>2. CASE ~sequential
      BY <1>20, <3>2 DEF ResultStart, BatchInv, AllDone
    <3> QED BY <3>1, <3>2
  <2> QED
    BY <1>20, <2>1, <2>2, <2>3, <2>4 DEF ResultStart, BatchInv, batchVars
<1>21. CASE ResultEnd
  <2>1. Batch' = Batch /\ Failed' = Failed
    BY <1>21 DEF ResultEnd, Batch, Failed, loopVars
  <2>2. sequential => SequentialInv'
    BY <1>21, <2>1, AgentAssumption
       DEF ResultEnd, BatchInv, SequentialInv, BatchTypeOK, batchVars, Calls
  <2> QED
    BY <1>21, <2>1, <2>2
       DEF ResultEnd, BatchInv, BatchTypeOK, AllDone, batchVars
<1> QED
  BY <1>1, <1>2, <1>3, <1>4, <1>5, <1>6, <1>7, <1>8, <1>9, <1>10, <1>11,
     <1>12, <1>13, <1>14, <1>15, <1>16, <1>17, <1>18, <1>19, <1>20, <1>21,
     RunStarts, NextCases

-----------------------------------------------------------------------------
(***************************************************************************)
(* An idle agent shows no activity.                                        *)
(***************************************************************************)

\* Where no tool is in progress, no call is pending.
LEMMA NoneOpen ==
  ASSUME IInv, pc \notin {"prepare", "executing", "tools", "toolEnded",
                          "failing"}
  PROVE  OpenCalls = {} /\ pending = {}
BY DEF IInv, BatchInv, OpenCalls, IdleIsClean

\* Leaving the pending calls and the batch alone keeps them related.
LEMMA PendingKept ==
  ASSUME IdleIsClean, pc # "failing", UNCHANGED <<pending, tool, reply>>
  PROVE  pending' \subseteq OpenCalls'
BY DEF IdleIsClean, OpenCalls

\* Every step leaves an agent that, if idle, shows no activity.
LEMMA IdleIsCleanStep == IInv /\ Next => IdleIsClean'
<1> SUFFICES ASSUME IInv, Next PROVE IdleIsClean'
  OBVIOUS
<1> USE DEF IInv, IdleIsClean
<1>1. CASE LeaveRun
  <2>1. \A w \in Waiters : waiter'[w] # "waiting"
    BY <1>1, WokenType DEF LeaveRun, BecomeIdle, TypeOK, WaitInv
  <2> QED BY <1>1, <2>1 DEF LeaveRun, BecomeIdle
<1>2. CASE FailRun
  BY <1>2 DEF FailRun
<1>3. ASSUME NEW prompts \in Seq(UserMessage), NEW skip \in BOOLEAN,
             StartRun(prompts, skip)
      PROVE  IdleIsClean'
  BY <1>3 DEF StartRun
<1>4. CASE StreamDone
  BY <1>4, NoneOpen DEF StreamDone
<1>5. CASE ReplyStart
  BY <1>5, NoneOpen DEF ReplyStart
<1>6. ASSUME NEW i \in Calls, ToolStart(i) PROVE IdleIsClean'
  <2>1. OpenCalls' = OpenCalls \cup {<<reply.batch, i>>}
    BY <1>6 DEF ToolStart, OpenCalls, TypeOK, BatchTypeOK, loopVars
  <2> QED BY <1>6, <2>1 DEF ToolStart
<1>7. ASSUME NEW i \in Calls, RejectCall(i) PROVE IdleIsClean'
  <2>1. OpenCalls' = OpenCalls \ {<<reply.batch, i>>}
    BY <1>7 DEF RejectCall, OpenCalls, TypeOK, BatchTypeOK, loopVars
  <2> QED BY <1>7, <2>1 DEF RejectCall, CallEnded
<1>8. ASSUME NEW i \in Calls, AcceptCall(i) PROVE IdleIsClean'
  <2>1. OpenCalls' = OpenCalls
    BY <1>8 DEF AcceptCall, OpenCalls, TypeOK, BatchTypeOK, loopVars
  <2> QED BY <1>8, <2>1 DEF AcceptCall, stateVars
<1>9. ASSUME NEW i \in Calls, SequentialEnd(i) \/ TaskEnd(i)
      PROVE  IdleIsClean'
  <2>1. OpenCalls' = OpenCalls \ {<<reply.batch, i>>}
    BY <1>9 DEF SequentialEnd, TaskEnd, FinishCall, OpenCalls, TypeOK,
                BatchTypeOK, loopVars
  <2>2. pc' # "idle" /\ pc # "failing"
    BY <1>9 DEF SequentialEnd, TaskEnd, FinishCall, BatchInv
  <2> QED
    BY <1>9, <2>1, <2>2 DEF SequentialEnd, TaskEnd, FinishCall, CallEnded
<1>10. ASSUME NEW i \in Calls, TaskReturn(i) PROVE IdleIsClean'
  <2>1. OpenCalls' = OpenCalls
    BY <1>10 DEF TaskReturn, OpenCalls, TypeOK, BatchTypeOK, loopVars
  <2>2. pc' # "idle" /\ pc # "failing"
    BY <1>10 DEF TaskReturn, BatchInv
  <2> QED BY <1>10, <2>1, <2>2 DEF TaskReturn, stateVars
<1>11. CASE FirstTurn \/ FirstPoll \/ DeliverStart \/ DeliverEnd \/ Request
  BY <1>11, PendingKept
     DEF FirstTurn, FirstPoll, DeliverStart, DeliverEnd, Request, stateVars,
         loopVars, batchVars
<1>12. CASE StreamStart \/ StreamUpdate \/ ReplyEnd \/ ResultStart \/ ResultEnd
  <2>1. pc # "failing" /\ pc' # "idle"
    BY <1>12 DEF StreamStart, StreamUpdate, ReplyEnd, ResultStart, ResultEnd
  <2> QED
    BY <1>12, <2>1, PendingKept
       DEF StreamStart, StreamUpdate, ReplyEnd, ResultStart, ResultEnd,
           loopVars, batchVars
<1>13. CASE TurnEnd \/ NextTurn \/ FollowUpTurn \/ AgentEnd
  BY <1>13, PendingKept
     DEF TurnEnd, BatchOver, NextTurn, FollowUpTurn, BeginTurn, AgentEnd,
         stateVars, loopVars, batchVars
<1>14. ASSUME NEW c \in orphans, OrphanEnd(c)
       PROVE  IdleIsClean'
  BY <1>14 DEF OrphanEnd, OpenCalls, loopVars, batchVars
<1>15. CASE Steer \/ FollowUp \/ ClearQueues \/ Abort
  BY <1>15 DEF Steer, FollowUp, ClearQueues, Abort, OpenCalls, stateVars,
               loopVars, batchVars, restVars
<1>16. CASE Reset
  BY <1>16 DEF Reset, OpenCalls, loopVars, batchVars, restVars
<1>17. ASSUME NEW q \in {"steer", "followUp"}, NEW m \in Modes, SetMode(q, m)
       PROVE  IdleIsClean'
  BY <1>17 DEF SetMode, OpenCalls, stateVars, loopVars, batchVars, restVars
<1>18. ASSUME NEW w \in Waiters, WaitForIdle(w) \/ CancelWaiter(w) \/ WaiterReturns(w)
       PROVE  IdleIsClean'
  BY <1>18 DEF WaitForIdle, CancelWaiter, WaiterReturns, OpenCalls, TypeOK, RestTypeOK,
               stateVars, loopVars, batchVars
<1> QED
  BY <1>1, <1>2, <1>3, <1>4, <1>5, <1>6, <1>7, <1>8, <1>9, <1>10, <1>11,
     <1>12, <1>13, <1>14, <1>15, <1>16, <1>17, <1>18, RunStarts, NextCases

LEMMA WaitInvStep == IInv /\ Next => WaitInv'
<1> SUFFICES ASSUME IInv, Next, cancelled' PROVE WaitInv'
  BY DEF WaitInv
<1> USE DEF IInv, WaitInv
<1>1. CASE LeaveRun
  BY <1>1 DEF LeaveRun, BecomeIdle
<1>2. CASE FailRun
  BY <1>2 DEF FailRun
<1>3. ASSUME NEW prompts \in Seq(UserMessage), NEW skip \in BOOLEAN,
             StartRun(prompts, skip)
      PROVE  WaitInv'
  BY <1>3 DEF StartRun
<1>4. CASE StreamDone \/ ReplyStart
  BY <1>4 DEF StreamDone, ReplyStart
<1>5. CASE \/ FirstTurn \/ FirstPoll \/ DeliverStart \/ DeliverEnd \/ Request
           \/ StreamStart \/ StreamUpdate \/ ReplyEnd \/ ResultStart \/ ResultEnd
  BY <1>5 DEF FirstTurn, FirstPoll, DeliverStart, DeliverEnd, Request, StreamStart,
              StreamUpdate, ReplyEnd, ResultStart, ResultEnd, restVars
<1>6. CASE TurnEnd \/ NextTurn \/ FollowUpTurn \/ AgentEnd
  BY <1>6 DEF TurnEnd, NextTurn, FollowUpTurn, BeginTurn, AgentEnd, restVars
<1>7. ASSUME NEW i \in Calls,
             \/ ToolStart(i) \/ RejectCall(i) \/ AcceptCall(i)
             \/ SequentialEnd(i) \/ TaskEnd(i) \/ TaskReturn(i)
      PROVE  WaitInv'
  BY <1>7 DEF ToolStart, RejectCall, AcceptCall, SequentialEnd, TaskEnd,
              TaskReturn, FinishCall, restVars
<1>8. ASSUME NEW c \in orphans, OrphanEnd(c)
      PROVE  WaitInv'
  BY <1>8 DEF OrphanEnd
<1>9. CASE Steer \/ FollowUp \/ ClearQueues \/ Abort \/ Reset
  BY <1>9 DEF Steer, FollowUp, ClearQueues, Abort, Reset, restVars
<1>10. ASSUME NEW q \in {"steer", "followUp"}, NEW m \in Modes, SetMode(q, m)
       PROVE  WaitInv'
  BY <1>10 DEF SetMode, restVars
<1>11. ASSUME NEW w \in Waiters, CancelWaiter(w)
       PROVE  WaitInv'
  BY <1>11, WokenType DEF CancelWaiter, IdleIsClean, TypeOK
<1>12. ASSUME NEW w \in Waiters, WaitForIdle(w) \/ WaiterReturns(w)
       PROVE  WaitInv'
  BY <1>12 DEF WaitForIdle, WaiterReturns, TypeOK, RestTypeOK
<1> QED
  BY <1>1, <1>2, <1>3, <1>4, <1>5, <1>6, <1>7, <1>8, <1>9, <1>10, <1>11,
     <1>12, RunStarts, NextCases

-----------------------------------------------------------------------------
(***************************************************************************)
(* IInv is inductive, and what follows from it.                            *)
(***************************************************************************)

\* A new agent satisfies the inductive invariant.
LEMMA InitIInv == Init => IInv
<1> SUFFICES ASSUME Init PROVE IInv
  OBVIOUS
<1>1. /\ <<>> \in Seq(Message) /\ <<>> \in Seq(UserMessage)
      /\ <<>> \in Seq(UserOf({"steer"}))
      /\ <<>> \in Seq(UserOf({"followUp"}))
  OBVIOUS
<1>2. StateTypeOK /\ QueueTypeOK
  BY <1>1, AgentAssumption DEF Init, StateTypeOK, QueueTypeOK, Types
<1>3. LoopTypeOK
  BY <1>1, FixedReplies DEF Init, LoopTypeOK, Points
<1>4. BatchTypeOK /\ RestTypeOK
  <2>1. sequential \in BOOLEAN /\ aborted \in BOOLEAN
    BY DEF Init
  <2>2. NoTools \in [Calls -> ToolStates]
    BY DEF NoTools, ToolStates
  <2>3. waiter \in [Waiters -> {"none", "waiting", "woken"}] /\ cancelled \in BOOLEAN
    BY DEF Init
  <2> QED
    BY <2>1, <2>2, <2>3, AgentAssumption DEF Init, BatchTypeOK, RestTypeOK
<1>5. LoopInv
  BY FixedReplies DEF Init, LoopInv, Failed
<1>6. BatchInv
  <2>1. \A i \in Calls : tool[i] = "idle"
    BY DEF Init, NoTools
  <2> QED BY <2>1 DEF Init, BatchInv
<1>7. IdleIsClean
  BY DEF Init, IdleIsClean
<1>8. WaitInv
  BY DEF Init, WaitInv
<1> QED BY <1>2, <1>3, <1>4, <1>5, <1>6, <1>7, <1>8 DEF IInv, TypeOK

\* A step that leaves everything as it is keeps the inductive invariant.
LEMMA StutterIInv == IInv /\ UNCHANGED vars => IInv'
<1> SUFFICES ASSUME IInv, UNCHANGED vars PROVE IInv'
  OBVIOUS
<1> USE DEF vars, stateVars, queueVars, loopVars, batchVars, restVars
<1>1. TypeOK'
  BY DEF IInv, TypeOK, StateTypeOK, QueueTypeOK, LoopTypeOK, BatchTypeOK,
         RestTypeOK
<1>2. LoopInv'
  BY DEF IInv, LoopInv, Failed
<1>3. BatchInv'
  BY QuietBatchInv DEF IInv
<1>4. IdleIsClean'
  BY DEF IInv, IdleIsClean, OpenCalls
<1>5. WaitInv'
  BY DEF IInv, WaitInv
<1> QED BY <1>1, <1>2, <1>3, <1>4, <1>5 DEF IInv

\* The inductive invariant holds of every reachable state.
THEOREM Inductive == SafeSpec => []IInv
<1>1. IInv /\ [Next]_vars => IInv'
  BY StutterIInv, StateTypeStep, QueueTypeStep, LoopTypeStep, BatchTypeStep,
     RestTypeStep, LoopInvStep, BatchInvStep, IdleIsCleanStep, WaitInvStep
     DEF IInv, TypeOK
<1> QED BY InitIInv, <1>1, PTL DEF SafeSpec

\* The transcript, the queues, the locals of the loop and of the tool batch
\* hold what their types say, whatever the callers, the tools and the listeners
\* do and wherever a run is left.
THEOREM TypeCorrect == SafeSpec => []TypeOK
<1>1. IInv => TypeOK
  BY DEF IInv
<1> QED BY Inductive, <1>1, PTL

\* Whatever ended a run, and whatever orphaned tool tasks still do, an idle
\* agent shows no activity, and every pending call is a call in progress.
THEOREM IdleClean == SafeSpec => []IdleIsClean
<1>1. IInv => IdleIsClean
  BY DEF IInv
<1> QED BY Inductive, <1>1, PTL

\* A step after a failed reply goes towards the end of the run.
LEMMA FailedReplyStep ==
  ASSUME IInv, Next, Failed, pc' # "idle"
  PROVE  /\ pc' \in {"replyStarted", "replied", "turnEnded", "ended", "failing"}
         /\ tool' = NoTools /\ outbox' = <<>>
<1> DEFINE P == /\ pc' \in {"replyStarted", "replied", "turnEnded", "ended",
                           "failing"}
                /\ tool' = NoTools /\ outbox' = <<>>
<1>1. /\ pc \in {"replyStarted", "replied", "turnEnded", "ended"}
      /\ Batch = {} /\ outbox = <<>>
  BY DEF IInv, LoopInv, Batch
<1>2. /\ \A i \in Calls : tool[i] = "idle"
      /\ tool = NoTools
  BY <1>1 DEF IInv, BatchInv, TypeOK, BatchTypeOK, NoTools
<1>3. CASE ReplyEnd \/ TurnEnd \/ AgentEnd
  BY <1>1, <1>2, <1>3 DEF ReplyEnd, TurnEnd, AgentEnd, loopVars, batchVars
<1>4. CASE FailRun
  BY <1>4 DEF FailRun, LeaveLoop, ClearBatch
<1>5. ASSUME UNCHANGED <<pc, loopVars, batchVars>> PROVE P
  BY <1>1, <1>2, <1>5 DEF loopVars, batchVars
<1>6. CASE Steer \/ FollowUp \/ ClearQueues \/ Reset \/ Abort
  BY <1>5, <1>6 DEF Steer, FollowUp, ClearQueues, Reset, Abort
<1>7. ASSUME NEW q \in {"steer", "followUp"}, NEW m \in Modes, SetMode(q, m)
      PROVE  P
  BY <1>5, <1>7 DEF SetMode
<1>8. ASSUME NEW c \in orphans, OrphanEnd(c)
      PROVE  P
  BY <1>5, <1>8 DEF OrphanEnd
<1>9. ASSUME NEW w \in Waiters, WaitForIdle(w) \/ CancelWaiter(w) \/ WaiterReturns(w)
      PROVE  P
  BY <1>5, <1>9 DEF WaitForIdle, CancelWaiter, WaiterReturns
<1>10. CASE Prompt \/ ContinueWithSteering \/ ContinueWithFollowUp
            \/ ContinueRun
  BY <1>1, <1>10 DEF Prompt, ContinueWithSteering, ContinueWithFollowUp,
                     ContinueRun, StartRun
<1>11. CASE FirstTurn \/ FirstPoll \/ DeliverStart \/ DeliverEnd \/ Request
  BY <1>1, <1>11 DEF FirstTurn, FirstPoll, DeliverStart, DeliverEnd, Request
<1>12. CASE StreamStart \/ StreamUpdate \/ StreamDone \/ ReplyStart
  BY <1>1, <1>12 DEF StreamStart, StreamUpdate, StreamDone, ReplyStart
<1>13. ASSUME NEW i \in Calls,
              \/ ToolStart(i) \/ RejectCall(i) \/ AcceptCall(i)
              \/ SequentialEnd(i) \/ TaskEnd(i) \/ TaskReturn(i)
       PROVE  P
  BY <1>1, <1>2, <1>13
     DEF ToolStart, RejectCall, AcceptCall, SequentialEnd, TaskEnd, TaskReturn,
         FinishCall
<1>14. CASE ResultStart \/ ResultEnd
  BY <1>1, <1>14 DEF ResultStart, ResultEnd, BatchInv, IInv
<1>15. CASE NextTurn \/ FollowUpTurn
  BY <1>15 DEF NextTurn, FollowUpTurn, BeginTurn
<1>16. CASE LeaveRun
  BY <1>16 DEF LeaveRun, BecomeIdle
<1> QED
  BY <1>3, <1>4, <1>6, <1>7, <1>8, <1>9, <1>10, <1>11, <1>12, <1>13, <1>14,
     <1>15, <1>16, NextCases

\* A reply with stop_reason error or aborted is final: in its run no tool is
\* executed, no queued message is taken and the provider is not asked again.
THEOREM FailedReplyEnds == SafeSpec => FailedReplyIsFinal
<1>1. IInv /\ [Next]_vars =>
        [ Failed /\ pc' # "idle" =>
            /\ pc' \in {"replyStarted", "replied", "turnEnded", "ended",
                        "failing"}
            /\ tool' = NoTools /\ outbox' = <<>> ]_vars
  BY FailedReplyStep
<1> QED BY Inductive, <1>1, PTL DEF SafeSpec, FailedReplyIsFinal

\* No step takes a follow-up from its queue while a steering message waits.
LEMMA SteeringFirstStep ==
  ASSUME IInv, Next, outbox = <<>>, \E m \in MessagesOf(outbox') : m.kind = "followUp"
  PROVE  steeringQueue = <<>>
<1> SUFFICES ASSUME steeringQueue # <<>> PROVE FALSE
  OBVIOUS
<1> USE DEF IInv, TypeOK, QueueTypeOK
<1>0. /\ Drained(mode["steer"], steeringQueue) \in Seq(UserOf({"steer"}))
      /\ \A q \in Seq(UserOf({"steer"})) : \A m \in MessagesOf(q) : m.kind = "steer"
  <2>1. ASSUME NEW q \in Seq(UserOf({"steer"})), NEW m \in MessagesOf(q)
        PROVE  m.kind = "steer"
    <3> PICK i \in DOMAIN q : m = q[i]
      BY DEF MessagesOf
    <3>1. q[i] \in UserOf({"steer"})
      BY ElementOfSeq, LenProperties
    <3> QED BY <3>1 DEF UserOf
  <2> QED BY <2>1, DrainType
<1>1. outbox' # <<>> /\ outbox' # Drained(mode["steer"], steeringQueue)
  BY <1>0 DEF MessagesOf
<1>2. CASE Prompt
  <2> PICK n \in 1..2 :
        StartRun([i \in 1..n |-> User("prompt", submitted + i)], FALSE)
    BY <1>2 DEF Prompt
  <2>1. \A m \in MessagesOf(outbox') : m.kind = "prompt"
    BY DEF StartRun, MessagesOf, User
  <2> QED BY <2>1
<1>3. CASE ContinueWithSteering \/ ContinueWithFollowUp \/ ContinueRun
  BY <1>1, <1>3 DEF ContinueWithSteering, ContinueWithFollowUp, ContinueRun,
                    StartRun
<1>4. CASE FirstPoll
  BY <1>1, <1>4 DEF FirstPoll
<1>5. CASE NextTurn \/ FollowUpTurn
  BY <1>1, <1>5 DEF NextTurn, FollowUpTurn
<1>6. CASE DeliverEnd
  BY <1>6 DEF DeliverEnd, LoopInv
<1>7. CASE FailRun \/ LeaveRun
  BY <1>1, <1>7 DEF FailRun, LeaveRun, LeaveLoop
<1>8. outbox' = outbox => FALSE
  BY <1>1
<1>9. CASE FirstTurn \/ DeliverStart \/ Request
  BY <1>8, <1>9 DEF FirstTurn, DeliverStart, Request, loopVars
<1>10. CASE StreamStart \/ StreamUpdate \/ StreamDone \/ ReplyStart \/ ReplyEnd
  BY <1>8, <1>10
     DEF StreamStart, StreamUpdate, StreamDone, ReplyStart, ReplyEnd, loopVars
<1>11. ASSUME NEW i \in Calls,
              \/ ToolStart(i) \/ RejectCall(i) \/ AcceptCall(i)
              \/ SequentialEnd(i) \/ TaskEnd(i) \/ TaskReturn(i)
       PROVE  FALSE
  BY <1>8, <1>11 DEF ToolStart, RejectCall, AcceptCall, SequentialEnd, TaskEnd,
                     TaskReturn, FinishCall, loopVars
<1>12. CASE ResultStart \/ ResultEnd \/ TurnEnd \/ AgentEnd
  BY <1>8, <1>12 DEF ResultStart, ResultEnd, TurnEnd, AgentEnd, loopVars
<1>13. CASE Steer \/ FollowUp \/ ClearQueues \/ Reset \/ Abort
  BY <1>8, <1>13 DEF Steer, FollowUp, ClearQueues, Reset, Abort, loopVars
<1>14. ASSUME NEW q \in {"steer", "followUp"}, NEW m \in Modes, SetMode(q, m)
       PROVE  FALSE
  BY <1>8, <1>14 DEF SetMode, loopVars
<1>15. ASSUME NEW c \in orphans, OrphanEnd(c)
       PROVE  FALSE
  BY <1>8, <1>15 DEF OrphanEnd, loopVars
<1>16. ASSUME NEW w \in Waiters, WaitForIdle(w) \/ CancelWaiter(w) \/ WaiterReturns(w)
       PROVE  FALSE
  BY <1>8, <1>16 DEF WaitForIdle, CancelWaiter, WaiterReturns, loopVars
<1> QED
  BY <1>2, <1>3, <1>4, <1>5, <1>6, <1>7, <1>9, <1>10, <1>11, <1>12, <1>13,
     <1>14, <1>15, <1>16, NextCases

\* Neither the loop nor continue_ takes a follow-up message from its queue
\* while a steering message waits in the other.
THEOREM SteeringBeforeFollowUp == SafeSpec => SteeringFirst
<1>1. IInv /\ [Next]_vars =>
        [ (outbox = <<>> /\ \E m \in MessagesOf(outbox') : m.kind = "followUp")
          => steeringQueue = <<>> ]_vars
  BY SteeringFirstStep
<1> QED BY Inductive, <1>1, PTL DEF SafeSpec, SteeringFirst

-----------------------------------------------------------------------------
(***************************************************************************)
(* Agent implements AgentLifecycle, for every value of the constants but   *)
(* the disruptions that let a tool task outlive its run: where no listener *)
(* raises and no run is cancelled, its listeners see the events of each    *)
(* run in the order promised.                                              *)
(***************************************************************************)
\* No task fails, and none is left behind.
LoyalInv ==
  /\ pc # "failing"
  /\ \A i \in Calls : tool[i] # "raised"
  /\ orphans = {}

\* The stage of each control point.
LEMMA Stages ==
  /\ StageOf["idle"] = "idle"
  /\ \A p \in {"started", "turnEnded"} : StageOf[p] = "run"
  /\ \A p \in {"delivering", "streaming", "replyStarted", "posting"} : StageOf[p] = "message"
  /\ \A p \in {"ended", "failing"} : StageOf[p] = "ended"
  /\ \A p \in {"turnStarted", "polled", "request", "replied", "prepare", "tools",
               "executing", "toolEnded", "posted"} : StageOf[p] = "turn"
BY DEF StageOf, Points, Emitting

\* What may happen where nobody raises or cancels.
LEMMA LoyalCases ==
  ASSUME {"raise", "cancel"} \cap Disruptions = {}, IInv, LoyalInv, Next
  PROVE
    \/ Prompt \/ ContinueWithSteering \/ ContinueWithFollowUp \/ ContinueRun
    \/ FirstTurn \/ FirstPoll \/ DeliverStart \/ DeliverEnd \/ Request
    \/ StreamStart \/ StreamUpdate \/ StreamDone \/ ReplyStart \/ ReplyEnd
    \/ \E i \in Calls : ToolStart(i) \/ RejectCall(i) \/ AcceptCall(i)
    \/ \E i \in Calls : SequentialEnd(i) \/ TaskEnd(i) \/ TaskReturn(i)
    \/ ResultStart \/ ResultEnd \/ TurnEnd
    \/ NextTurn \/ FollowUpTurn \/ AgentEnd \/ Finish
    \/ Steer \/ FollowUp \/ ClearQueues \/ Reset \/ Abort
    \/ \E q \in {"steer", "followUp"}, m \in Modes : SetMode(q, m)
    \/ \E w \in Waiters : WaitForIdle(w) \/ CancelWaiter(w) \/ WaiterReturns(w)
<1>1. ~Cancel /\ ~Raise /\ \A c \in orphans : ~OrphanEnd(c)
  BY DEF Cancel, Raise, LoyalInv
<1>2. ~TaskRaised
  BY CallTypes DEF TaskRaised, LoyalInv, IInv, TypeOK
<1> QED BY <1>1, <1>2 DEF Next, LoopStep, ProviderStep, ToolStep, UserStep

\* A run that ends leaves no task behind.
LEMMA LoyalStep ==
  ASSUME {"raise", "cancel"} \cap Disruptions = {}, IInv, LoyalInv, Next
  PROVE  LoyalInv'
<1> USE DEF LoyalInv
<1>0. tool \in [Calls -> ToolStates]
  BY DEF IInv, TypeOK, BatchTypeOK
<1>1. ASSUME UNCHANGED <<tool, orphans>>, pc' # "failing" PROVE LoyalInv'
  BY <1>1
<1>2. ASSUME NEW prompts \in Seq(UserMessage), NEW skip \in BOOLEAN,
             StartRun(prompts, skip)
      PROVE  LoyalInv'
  BY <1>1, <1>2 DEF StartRun, batchVars
<1>3. CASE FirstTurn \/ FirstPoll \/ DeliverStart \/ DeliverEnd \/ Request
  BY <1>1, <1>3 DEF FirstTurn, FirstPoll, DeliverStart, DeliverEnd, Request,
                    batchVars, restVars
<1>4. CASE StreamStart \/ StreamUpdate \/ ReplyEnd \/ ResultStart \/ ResultEnd
  BY <1>1, <1>4 DEF StreamStart, StreamUpdate, ReplyEnd, ResultStart, ResultEnd,
                    batchVars, restVars
<1>5. CASE StreamDone \/ ReplyStart
  BY <1>5 DEF StreamDone, ReplyStart, ExpectBatch, ClearBatch, NoTools
<1>6. ASSUME NEW i \in Calls,
             \/ ToolStart(i) \/ RejectCall(i) \/ AcceptCall(i)
             \/ SequentialEnd(i) \/ TaskEnd(i) \/ TaskReturn(i)
      PROVE  LoyalInv'
  BY <1>0, <1>6 DEF ToolStart, RejectCall, AcceptCall, SequentialEnd, TaskEnd,
                    TaskReturn, FinishCall, restVars
<1>7. CASE TurnEnd \/ NextTurn \/ FollowUpTurn \/ AgentEnd
  BY <1>1, <1>7 DEF TurnEnd, NextTurn, FollowUpTurn, BeginTurn, AgentEnd, batchVars, restVars
<1>8. CASE Finish
  <2>1. RunningTasks = {}
    BY <1>8 DEF Finish, RunningTasks, IInv, BatchInv
  <2> QED BY <1>8, <2>1 DEF Finish, LeaveRun, LeaveLoop, BecomeIdle, ClearBatch, NoTools
<1>9. CASE Steer \/ FollowUp \/ ClearQueues \/ Reset \/ Abort
  BY <1>1, <1>9 DEF Steer, FollowUp, ClearQueues, Reset, Abort, batchVars, restVars
<1>10. ASSUME NEW q \in {"steer", "followUp"}, NEW m \in Modes, SetMode(q, m)
       PROVE  LoyalInv'
  BY <1>1, <1>10 DEF SetMode, batchVars, restVars
<1>11. ASSUME NEW w \in Waiters, WaitForIdle(w) \/ CancelWaiter(w) \/ WaiterReturns(w)
       PROVE  LoyalInv'
  BY <1>1, <1>11 DEF WaitForIdle, CancelWaiter, WaiterReturns, batchVars
<1> QED
  BY <1>2, <1>3, <1>4, <1>5, <1>6, <1>7, <1>8, <1>9, <1>10, <1>11, RunStarts, LoyalCases

-----------------------------------------------------------------------------
(***************************************************************************)
(* Each step is one of the promise, or is not seen by the listeners.       *)
(***************************************************************************)
Seen == <<StageOf[pc], OpenCalls, event>>

\* An event of the promise that leaves the open executions alone.
LEMMA Moves ==
  ASSUME NEW from, NEW to, NEW type,
         StageOf[pc] = from, StageOf[pc'] = to, OpenCalls' = OpenCalls, Emit(type)
  PROVE  Lifecycle!Move(from, to, type)
BY DEF Lifecycle!Move, Lifecycle!Delivered, Emit

\* What happens in the batch is a start or an end of an execution, or unseen.
LEMMA BatchSteps ==
  ASSUME IInv, NEW i \in Calls,
         \/ ToolStart(i) \/ RejectCall(i) \/ AcceptCall(i)
         \/ SequentialEnd(i) \/ TaskEnd(i) \/ TaskReturn(i)
  PROVE  Lifecycle!Next \/ UNCHANGED Seen
<1>0. tool \in [Calls -> ToolStates]
  BY DEF IInv, TypeOK, BatchTypeOK
<1> DEFINE c == <<reply.batch, i>>
<1>1. CASE ToolStart(i)
  <2>1. OpenCalls' = OpenCalls \cup {c}
    BY <1>0, <1>1 DEF ToolStart, OpenCalls, loopVars
  <2>2. c \in CallId
    BY <1>1, CallTypes DEF ToolStart, IInv, TypeOK
  <2>3. StageOf[pc] = "turn" /\ StageOf[pc'] = "turn"
    BY <1>1, Stages DEF ToolStart
  <2> QED BY <1>1, <2>1, <2>2, <2>3 DEF Lifecycle!Next, Lifecycle!ToolStart, ToolStart, EmitCall
<1>2. CASE RejectCall(i) \/ SequentialEnd(i) \/ TaskEnd(i)
  <2>1. OpenCalls' = OpenCalls \ {c} /\ c \in OpenCalls
    BY <1>0, <1>2 DEF RejectCall, SequentialEnd, TaskEnd, FinishCall, OpenCalls, loopVars
  <2>2. tool[i] # "idle" /\ event' = [type |-> "tool_execution_end", call |-> c]
    BY <1>2 DEF RejectCall, SequentialEnd, TaskEnd, FinishCall, CallEnded, EmitCall
  <2>3. c \in CallId
    BY <2>2, BusyInBatch, CallTypes DEF IInv, TypeOK
  <2>4. pc \in {"prepare", "executing", "tools", "toolEnded"}
    BY <1>2 DEF RejectCall, SequentialEnd, TaskEnd, FinishCall, IInv, BatchInv
  <2>5. pc' = "toolEnded" \/ pc' = pc
    BY <1>2 DEF RejectCall, SequentialEnd, TaskEnd
  <2>6. StageOf[pc] = "turn" /\ StageOf[pc'] = "turn"
    BY <2>4, <2>5, Stages
  <2> QED BY <2>1, <2>2, <2>3, <2>6 DEF Lifecycle!Next, Lifecycle!ToolEnd
<1>3. CASE AcceptCall(i) \/ TaskReturn(i)
  <2>1. OpenCalls' = OpenCalls /\ event' = event
    BY <1>0, <1>3 DEF AcceptCall, TaskReturn, OpenCalls, loopVars
  <2>2. StageOf[pc'] = StageOf[pc]
    BY <1>3, Stages DEF AcceptCall, TaskReturn
  <2> QED BY <2>1, <2>2 DEF Seen
<1> QED BY <1>1, <1>2, <1>3

\* Every step of the agent is a step of the promise, or unseen.
LEMMA LifecycleStep ==
  ASSUME {"raise", "cancel"} \cap Disruptions = {}, IInv, IInv', LoyalInv, Next
  PROVE  Lifecycle!Next \/ UNCHANGED Seen
<1>1. ASSUME UNCHANGED <<tool, reply>> PROVE OpenCalls' = OpenCalls
  BY <1>1 DEF OpenCalls
<1>2. ASSUME UNCHANGED <<tool, reply, event>>, StageOf[pc'] = StageOf[pc]
      PROVE  UNCHANGED Seen
  BY <1>1, <1>2 DEF Seen
<1>3. ASSUME NEW prompts \in Seq(UserMessage), NEW skip \in BOOLEAN,
             StartRun(prompts, skip)
      PROVE  Lifecycle!Next
  <2>1. OpenCalls = {} /\ OpenCalls' = {}
    BY <1>3, NoneOpen DEF StartRun, batchVars, IInv, BatchInv, OpenCalls, NoTools
  <2>2. Lifecycle!Move("idle", "run", "agent_start")
    BY <1>3, <2>1, Moves, Stages DEF StartRun
  <2> QED BY <2>2 DEF Lifecycle!Next, Lifecycle!AgentStart
<1>4. CASE FirstTurn
  <2>1. Lifecycle!Move("run", "turn", "turn_start")
    BY <1>1, <1>4, Moves, Stages DEF FirstTurn, loopVars, batchVars
  <2> QED BY <2>1 DEF Lifecycle!Next, Lifecycle!TurnStart
<1>5. CASE FirstPoll \/ Request
  BY <1>2, <1>5, Stages DEF FirstPoll, Request, loopVars, batchVars
<1>6. CASE DeliverStart \/ StreamStart
  <2>1. Lifecycle!Move("turn", "message", "message_start")
    BY <1>1, <1>6, Moves, Stages DEF DeliverStart, StreamStart, loopVars, batchVars
  <2> QED BY <2>1 DEF Lifecycle!Next, Lifecycle!MessageStart
<1>7. CASE DeliverEnd \/ ReplyEnd \/ ResultEnd
  <2>1. Lifecycle!Move("message", "turn", "message_end")
    BY <1>1, <1>7, Moves, Stages DEF DeliverEnd, ReplyEnd, ResultEnd, loopVars, batchVars
  <2> QED BY <2>1 DEF Lifecycle!Next, Lifecycle!MessageEnd
<1>8. CASE StreamUpdate
  <2>1. Lifecycle!Move("message", "message", "message_update")
    BY <1>1, <1>8, Moves, Stages DEF StreamUpdate, loopVars, batchVars
  <2> QED BY <2>1 DEF Lifecycle!Next, Lifecycle!MessageUpdate
<1>9. CASE StreamDone
  <2>1. OpenCalls = {} /\ OpenCalls' = {}
    BY <1>9, NoneOpen DEF StreamDone, ExpectBatch, ClearBatch, OpenCalls, NoTools
  <2>2. Lifecycle!Move("message", "turn", "message_end")
    BY <1>9, <2>1, Moves, Stages DEF StreamDone
  <2> QED BY <2>2 DEF Lifecycle!Next, Lifecycle!MessageEnd
<1>10. CASE ReplyStart
  <2>1. OpenCalls = {} /\ OpenCalls' = {}
    BY <1>10, NoneOpen DEF ReplyStart, ExpectBatch, ClearBatch, OpenCalls, NoTools
  <2>2. Lifecycle!Move("turn", "message", "message_start")
    BY <1>10, <2>1, Moves, Stages DEF ReplyStart
  <2> QED BY <2>2 DEF Lifecycle!Next, Lifecycle!MessageStart
<1>11. CASE ResultStart
  <2>1. pc \in {"tools", "toolEnded", "posted"}
    BY <1>11 DEF ResultStart
  <2>2. Lifecycle!Move("turn", "message", "message_start")
    BY <1>1, <1>11, <2>1, Moves, Stages DEF ResultStart, loopVars, batchVars
  <2> QED BY <2>2 DEF Lifecycle!Next, Lifecycle!MessageStart
<1>12. CASE TurnEnd
  <2>1. pc \in {"replied", "posted"} /\ UNCHANGED <<tool, reply>>
    BY <1>12 DEF TurnEnd, BatchOver, batchVars
  <2>2. OpenCalls = {}
    BY <2>1, NoneOpen
  <2>3. Lifecycle!Move("turn", "run", "turn_end")
    BY <1>1, <1>12, <2>1, Moves, Stages DEF TurnEnd
  <2> QED BY <2>2, <2>3 DEF Lifecycle!Next, Lifecycle!TurnEnd
<1>13. CASE NextTurn \/ FollowUpTurn
  <2>1. Lifecycle!Move("run", "turn", "turn_start")
    BY <1>1, <1>13, Moves, Stages DEF NextTurn, FollowUpTurn, BeginTurn, batchVars
  <2> QED BY <2>1 DEF Lifecycle!Next, Lifecycle!TurnStart
<1>14. CASE AgentEnd
  <2>1. Lifecycle!Move("run", "ended", "agent_end")
    BY <1>1, <1>14, Moves, Stages DEF AgentEnd, loopVars, batchVars
  <2> QED BY <2>1 DEF Lifecycle!Next, Lifecycle!AgentEnd
<1>15. CASE Finish
  <2>1. OpenCalls' = {}
    BY <1>15 DEF Finish, LeaveRun, LeaveLoop, ClearBatch, OpenCalls, NoTools
  <2>2. StageOf[pc] = "ended" /\ StageOf[pc'] = "idle" /\ event' = event
    BY <1>15, Stages DEF Finish, LeaveRun, BecomeIdle
  <2> QED BY <2>1, <2>2 DEF Lifecycle!Next, Lifecycle!Return
<1>16. ASSUME UNCHANGED <<tool, reply, event, pc>> PROVE UNCHANGED Seen
  BY <1>2, <1>16
<1>17. CASE Steer \/ FollowUp \/ ClearQueues \/ Reset \/ Abort
  BY <1>16, <1>17 DEF Steer, FollowUp, ClearQueues, Reset, Abort, loopVars, batchVars
<1>18. ASSUME NEW q \in {"steer", "followUp"}, NEW m \in Modes, SetMode(q, m)
       PROVE  UNCHANGED Seen
  BY <1>16, <1>18 DEF SetMode, loopVars, batchVars
<1>19. ASSUME NEW w \in Waiters, WaitForIdle(w) \/ CancelWaiter(w) \/ WaiterReturns(w)
       PROVE  UNCHANGED Seen
  BY <1>16, <1>19 DEF WaitForIdle, CancelWaiter, WaiterReturns, loopVars, batchVars
<1> QED
  BY <1>3, <1>4, <1>5, <1>6, <1>7, <1>8, <1>9, <1>10, <1>11, <1>12, <1>13, <1>14,
     <1>15, <1>17, <1>18, <1>19, BatchSteps, RunStarts, LoyalCases

\* Where nobody raises or cancels, no task ever does or is left behind.
LEMMA LoyalKept ==
  ASSUME {"raise", "cancel"} \cap Disruptions = {}
  PROVE  SafeSpec => []LoyalInv
<1>1. Init => LoyalInv
  BY DEF Init, LoyalInv, NoTools
<1>2. IInv /\ LoyalInv /\ [Next]_vars => LoyalInv'
  <2>1. ASSUME LoyalInv, UNCHANGED vars PROVE LoyalInv'
    BY <2>1 DEF LoyalInv, vars, batchVars, restVars
  <2> QED BY <2>1, LoyalStep
<1> QED BY Inductive, <1>1, <1>2, PTL DEF SafeSpec

\* The listeners of an agent see the events of each run in the order that
\* AgentLifecycle promises, in every behaviour in which no listener raises and
\* no run is cancelled: Agent implements AgentLifecycle.
THEOREM EventsInOrder ==
  ASSUME {"raise", "cancel"} \cap Disruptions = {}
  PROVE  SafeSpec => LifecycleKept
<1>1. Init => Lifecycle!Init
  BY Stages DEF Init, Lifecycle!Init, OpenCalls, NoTools
<1>2. IInv /\ IInv' /\ LoyalInv /\ [Next]_vars => [Lifecycle!Next]_Lifecycle!vars
  <2>1. ASSUME UNCHANGED vars PROVE UNCHANGED Seen
    BY <2>1 DEF Seen, OpenCalls, vars, batchVars, loopVars
  <2> QED BY <2>1, LifecycleStep DEF Seen, Lifecycle!vars
<1> QED
  BY Inductive, LoyalKept, <1>1, <1>2, PTL
     DEF SafeSpec, LifecycleKept, Lifecycle!Spec
=============================================================================
