-------------------------- MODULE TranscriptProofs --------------------------
(***************************************************************************)
(* Proofs about the transcript of Agent and the context of its loop, the   *)
(* two copies of the conversation, for every value of the constants.       *)
(* ContextInv says at each control point what one has that the other has   *)
(* not: the prompts that are still to be announced, the reply that is      *)
(* being received, and the results that the context gets all at once when  *)
(* the turn ends.  OrderInv says in what order the submitted messages are  *)
(* where they can be: in the transcript, the outbox and the two queues.    *)
(* PollInv says of which of them the provider has still to be told.        *)
(* PlaceInv says where the results stand in the transcript, and from it    *)
(* follows what AgentHandoff makes of one.                                 *)
(***************************************************************************)
EXTENDS AgentProofs, AgentHandoff, Induction

-----------------------------------------------------------------------------
(***************************************************************************)
(* The context and the transcript.                                         *)
(***************************************************************************)
InBatch == {"replied", "prepare", "executing", "tools", "toolEnded", "posting", "posted"}
BetweenReplies == {"turnStarted", "polled", "delivering", "request", "turnEnded"}

ContextInv ==
  /\ pc = "started" => firstPoll
  /\ firstPoll => /\ pc \in {"started", "turnStarted", "delivering"}
                  /\ context = messages \o outbox
  /\ pc \in BetweenReplies /\ ~firstPoll => context = messages
  /\ pc = "streaming" => context = Append(messages, Partial)
  /\ pc = "replyStarted" => context = Append(messages, reply)
  /\ pc \in InBatch => messages = context \o Results

\* The sequences of the loop are sequences of messages.
LEMMA Sequences ==
  ASSUME IInv
  PROVE  /\ messages \in Seq(Message) /\ context \in Seq(Message)
         /\ outbox \in Seq(Message)
         /\ Results \in Seq(Message)
BY UserSeq, ResultsType DEF IInv, TypeOK, StateTypeOK, LoopTypeOK

\* Without posted results there are none to add.
LEMMA NoResults ==
  ASSUME IInv, posted = 0
  PROVE  Results = <<>> /\ context \o Results = context
<1>1. Results = <<>>
  BY DEF Results
<1> QED BY <1>1, Sequences, ConcatEmptySeq

\* The same of the next state.
LEMMA NoResultsNext ==
  ASSUME posted' = 0, context' \in Seq(Message)
  PROVE  context' \o Results' = context'
<1>1. Results' = <<>>
  BY DEF Results
<1> QED BY <1>1, ConcatEmptySeq

\* Moving the head of the outbox to the end of the transcript.
LEMMA HeadMoved ==
  ASSUME NEW s \in Seq(Message), NEW t \in Seq(Message), t # <<>>
  PROVE  Append(s, Head(t)) \o Tail(t) = s \o t
<1>1. /\ Head(t) \in Message /\ Tail(t) \in Seq(Message)
      /\ Len(Tail(t)) = Len(t) - 1
      /\ \A i \in 1..Len(Tail(t)) : Tail(t)[i] = t[i + 1]
  BY HeadTailProperties
<1>2. /\ Append(s, Head(t)) \in Seq(Message) /\ Len(Append(s, Head(t))) = Len(s) + 1
      /\ \A i \in 1..Len(s) : Append(s, Head(t))[i] = s[i]
      /\ Append(s, Head(t))[Len(s) + 1] = Head(t)
  BY <1>1, AppendProperties
<1>3. Len(s) \in Nat /\ Len(t) \in Nat \ {0} /\ Head(t) = t[1]
  BY EmptySeq
<1> DEFINE a == Append(s, Head(t)) \o Tail(t)
           b == s \o t
<1>4. /\ a \in Seq(Message) /\ Len(a) = Len(s) + Len(t)
      /\ \A i \in 1..Len(a) :
           a[i] = IF i <= Len(s) + 1 THEN Append(s, Head(t))[i] ELSE Tail(t)[i - (Len(s) + 1)]
  BY <1>1, <1>2, <1>3, ConcatProperties
<1>5. /\ b \in Seq(Message) /\ Len(b) = Len(s) + Len(t)
      /\ \A i \in 1..Len(b) : b[i] = IF i <= Len(s) THEN s[i] ELSE t[i - Len(s)]
  BY <1>3, ConcatProperties
<1>6. ASSUME NEW i \in 1..Len(a) PROVE a[i] = b[i]
  <2>1. CASE i <= Len(s)
    BY <1>2, <1>3, <1>4, <1>5, <2>1
  <2>2. CASE i = Len(s) + 1
    BY <1>2, <1>3, <1>4, <1>5, <2>2
  <2>3. CASE i > Len(s) + 1
    <3>1. i - (Len(s) + 1) \in 1..Len(Tail(t))
      BY <1>1, <1>3, <1>4, <2>3
    <3>2. a[i] = t[i - (Len(s) + 1) + 1]
      BY <1>1, <1>3, <1>4, <2>3, <3>1
    <3> QED BY <1>3, <1>4, <1>5, <2>3, <3>2
  <2> QED BY <1>3, <1>4, <2>1, <2>2, <2>3
<1> HIDE DEF a, b
<1>7. a = b
  BY <1>4, <1>5, <1>6, SeqEqual
<1> QED BY <1>7 DEF a, b

\* The partial message at the end of the context gives way to the reply.
LEMMA LastReplaced ==
  ASSUME NEW s \in Seq(Message), NEW m \in Message, NEW r \in Message
  PROVE  [Append(s, m) EXCEPT ![Len(Append(s, m))] = r] = Append(s, r)
<1> DEFINE a == Append(s, m)
           b == [a EXCEPT ![Len(a)] = r]
           c == Append(s, r)
<1>1. /\ Len(s) \in Nat /\ a \in Seq(Message) /\ Len(a) = Len(s) + 1
      /\ \A i \in 1..Len(s) : a[i] = s[i]
      /\ c \in Seq(Message) /\ Len(c) = Len(s) + 1 /\ c[Len(s) + 1] = r
      /\ \A i \in 1..Len(s) : c[i] = s[i]
  BY AppendProperties, LenProperties
<1>2. /\ b \in Seq(Message) /\ Len(b) = Len(a)
      /\ \A i \in 1..Len(a) : b[i] = IF i = Len(a) THEN r ELSE a[i]
  <2> HIDE DEF a
  <2>1. Len(a) \in 1..Len(a)
    BY <1>1
  <2> QED BY <1>1, <2>1, ExceptSeq
<1> HIDE DEF a, b, c
<1>3. \A i \in 1..Len(b) : b[i] = c[i]
  BY <1>1, <1>2
<1>4. b = c
  BY <1>1, <1>2, <1>3, SeqEqual
<1> QED BY <1>4 DEF a, b, c

\* A result posted is one more of the results the context will get.
LEMMA ResultPosted ==
  ASSUME IInv, ResultEnd, messages = context \o Results
  PROVE  messages' = context' \o Results'
<1>1. /\ messages' = Append(messages, Result(reply.batch, posted + 1))
      /\ posted' = posted + 1 /\ context' = context /\ reply' = reply
  BY DEF ResultEnd, loopVars
<1>2. posted \in Nat /\ Result(reply.batch, posted + 1) \in Message
  BY ResultsType, AgentAssumption DEF IInv, TypeOK, BatchTypeOK, ResultEnd
<1>3. Results' = Append(Results, Result(reply.batch, posted + 1))
  BY <1>1, <1>2 DEF Results
<1>4. Append(context \o Results, Result(reply.batch, posted + 1))
        = context \o Append(Results, Result(reply.batch, posted + 1))
  BY <1>2, Sequences
<1> QED BY <1>1, <1>3, <1>4

\* Every step but a reset keeps the two copies related.
LEMMA ContextStep ==
  ASSUME "reset" \notin Disruptions, IInv, IInv', ContextInv, Next
  PROVE  ContextInv'
<1> USE DEF ContextInv, InBatch, BetweenReplies
<1> USE Sequences
<1>1. ASSUME NEW prompts \in Seq(UserMessage), NEW skip \in BOOLEAN,
             StartRun(prompts, skip)
      PROVE  ContextInv'
  BY <1>1 DEF StartRun
<1>2. CASE FirstTurn
  BY <1>2 DEF FirstTurn, stateVars, loopVars
<1>3. CASE FirstPoll
  <2>1. context = messages
    BY <1>3, ConcatEmptySeq DEF FirstPoll
  <2> QED BY <1>3, <2>1 DEF FirstPoll, stateVars
<1>4. CASE DeliverStart
  BY <1>4 DEF DeliverStart, loopVars
<1>5. CASE DeliverEnd
  <2>1. outbox # <<>>
    BY <1>5 DEF DeliverEnd, IInv, LoopInv
  <2>2. CASE firstPoll
    BY <1>5, <2>1, <2>2, HeadMoved DEF DeliverEnd
  <2>3. CASE ~firstPoll
    BY <1>5, <2>3 DEF DeliverEnd
  <2> QED BY <2>2, <2>3 DEF IInv, TypeOK, LoopTypeOK
<1>6. CASE Request
  BY <1>6 DEF Request, stateVars, loopVars
<1>7. CASE StreamStart
  BY <1>7 DEF StreamStart
<1>8. CASE StreamUpdate
  BY <1>8 DEF StreamUpdate, loopVars
<1>9. CASE StreamDone
  <2> PICK r \in Replies :
        /\ context' = [context EXCEPT ![Len(context)] = r]
        /\ messages' = Append(messages, r) /\ posted' = 0
    BY <1>9 DEF StreamDone, ExpectBatch, ClearBatch
  <2>1. r \in Message /\ Partial \in Message
    BY RepliesType, FixedReplies, MessageTypes DEF IInv, TypeOK, RestTypeOK
  <2>2. context' = messages'
    <3>1. context = Append(messages, Partial) /\ messages \in Seq(Message)
      BY <1>9, Sequences DEF StreamDone
    <3>2. [Append(messages, Partial) EXCEPT ![Len(Append(messages, Partial))] = r]
            = Append(messages, r)
      BY <2>1, <3>1, LastReplaced
    <3> QED BY <3>1, <3>2
  <2>3. pc' = "replied" /\ ~firstPoll'
    BY <1>9 DEF StreamDone
  <2> QED BY <2>2, <2>3, NoResultsNext DEF IInv, TypeOK, LoopTypeOK
<1>10. CASE ReplyStart
  BY <1>10 DEF ReplyStart
<1>11. CASE ReplyEnd
  <2>1. posted' = 0 /\ context' = messages' /\ pc' = "replied" /\ ~firstPoll'
    BY <1>11 DEF ReplyEnd, batchVars, IInv, BatchInv
  <2> QED BY <2>1, NoResultsNext DEF IInv, TypeOK, LoopTypeOK
<1>12. ASSUME NEW i \in Calls,
              \/ ToolStart(i) \/ RejectCall(i) \/ AcceptCall(i) \/ SequentialEnd(i)
       PROVE  ContextInv'
  <2>1. pc \in InBatch /\ pc' \in InBatch /\ ~firstPoll
    BY <1>12 DEF ToolStart, RejectCall, AcceptCall, SequentialEnd
  <2>2. UNCHANGED <<messages, context, reply, posted, firstPoll>>
    BY <1>12 DEF ToolStart, RejectCall, AcceptCall, SequentialEnd, FinishCall,
                 stateVars, loopVars
  <2>3. Results' = Results
    BY <2>2 DEF Results
  <2> QED BY <2>1, <2>2, <2>3
<1>13. ASSUME UNCHANGED <<messages, context, outbox, firstPoll, reply, posted, pc>>
       PROVE  ContextInv'
  <2>1. Results' = Results
    BY <1>13 DEF Results
  <2> QED BY <1>13, <2>1
<1>14. ASSUME NEW i \in Calls, TaskEnd(i) \/ TaskReturn(i) PROVE ContextInv'
  BY <1>13, <1>14 DEF TaskEnd, TaskReturn, FinishCall, stateVars, loopVars
<1>15. CASE ResultStart
  <2>1. pc \in InBatch /\ pc' = "posting" /\ ~firstPoll
    BY <1>15 DEF ResultStart
  <2>2. UNCHANGED <<messages, context, reply, posted, firstPoll>>
    BY <1>15 DEF ResultStart, loopVars, batchVars
  <2>3. Results' = Results
    BY <2>2 DEF Results
  <2> QED BY <2>1, <2>2, <2>3
<1>16. CASE ResultEnd
  <2>1. pc = "posting" /\ pc' = "posted" /\ firstPoll' = firstPoll
    BY <1>16 DEF ResultEnd, loopVars
  <2> QED BY <1>16, <2>1, ResultPosted
<1>17. CASE TurnEnd
  <2>1. pc \in InBatch /\ pc' = "turnEnded" /\ ~firstPoll
    BY <1>17 DEF TurnEnd, BatchOver
  <2> QED BY <1>17, <2>1 DEF TurnEnd, stateVars
<1>18. CASE NextTurn \/ FollowUpTurn
  BY <1>18 DEF NextTurn, FollowUpTurn, BeginTurn, stateVars
<1>19. CASE AgentEnd
  BY <1>19 DEF AgentEnd, loopVars
<1>20. CASE FailRun \/ LeaveRun
  BY <1>20 DEF FailRun, LeaveRun, BecomeIdle, LeaveLoop
<1>21. ASSUME NEW c \in orphans, OrphanEnd(c) PROVE ContextInv'
  BY <1>13, <1>21 DEF OrphanEnd, loopVars, batchVars
<1>22. CASE Steer \/ FollowUp \/ ClearQueues \/ Abort
  BY <1>13, <1>22 DEF Steer, FollowUp, ClearQueues, Abort, stateVars, loopVars, batchVars
<1>23. ASSUME NEW q \in {"steer", "followUp"}, NEW m \in Modes, SetMode(q, m)
       PROVE  ContextInv'
  BY <1>13, <1>23 DEF SetMode, stateVars, loopVars, batchVars
<1>24. ASSUME NEW w \in Waiters, WaitForIdle(w) \/ CancelWaiter(w) \/ WaiterReturns(w)
       PROVE  ContextInv'
  BY <1>13, <1>24 DEF WaitForIdle, CancelWaiter, WaiterReturns, stateVars, loopVars, batchVars
<1>25. ~Reset
  BY DEF Reset
<1> QED
  BY <1>1, <1>2, <1>3, <1>4, <1>5, <1>6, <1>7, <1>8, <1>9, <1>10, <1>11, <1>12,
     <1>14, <1>15, <1>16, <1>17, <1>18, <1>19, <1>20, <1>21, <1>22, <1>23, <1>24,
     <1>25, RunStarts, NextCases

\* The two copies stay related in every behaviour without a reset.
LEMMA ContextKept ==
  ASSUME "reset" \notin Disruptions
  PROVE  SafeSpec => []ContextInv
<1>1. Init => ContextInv
  BY DEF Init, ContextInv, BetweenReplies, InBatch
<1>2. IInv /\ IInv' /\ ContextInv /\ [Next]_vars => ContextInv'
  <2>1. ASSUME ContextInv, UNCHANGED vars PROVE ContextInv'
    BY <2>1 DEF ContextInv, Results, vars, stateVars, loopVars, batchVars
  <2> QED BY <2>1, ContextStep
<1> QED BY Inductive, <1>1, <1>2, PTL DEF SafeSpec

\* Whenever the provider is asked, the context of the loop is the transcript
\* of the agent: in every behaviour without a reset, however often listeners
\* raise or a run is cancelled.
THEOREM RequestsAgree ==
  ASSUME "reset" \notin Disruptions
  PROVE  SafeSpec => []RequestIsTranscript
<1>1. ContextInv => RequestIsTranscript
  BY DEF ContextInv, BetweenReplies, RequestIsTranscript
<1> QED BY ContextKept, <1>1, PTL

-----------------------------------------------------------------------------
(***************************************************************************)
(* The transcript alone.  The results of a batch stand behind its reply,   *)
(* unless a reset has taken all that came before them; replies with calls  *)
(* are numbered in their order, so that no call has two replies.           *)
(***************************************************************************)
OnlyResults(s) == \A p \in 1..Len(s) : s[p].role = "toolResult"

\* A reply that did not fail, and a message that has the number of a batch.
Lasting(m) == m.role = "assistant" /\ m.stop \notin {"error", "aborted"}
Numbers(m) == m.role = "toolResult" \/ (m.role = "assistant" /\ m.calls > 0)

\* p is the place of a result, the (p - q)-th of the reply at q.
Behind(s, q, p) ==
  /\ Lasting(s[q]) /\ p - q <= s[q].calls
  /\ \A r \in (q + 1)..p : s[r] = Result(s[q].batch, r - q)

\* A result is behind its reply, or there are only results up to it.
InPlace(s) ==
  \A p \in 1..Len(s) : s[p].role = "toolResult" =>
    \/ \A r \in 1..p : s[r].role = "toolResult"
    \/ \E q \in 1..(p - 1) : Behind(s, q, p)

\* A reply with calls has a later number than all that came before.
Numbered(s) ==
  \A p, q \in 1..Len(s) :
    p < q /\ Numbers(s[p]) /\ s[q].role = "assistant" /\ s[q].calls > 0 =>
      s[p].batch < s[q].batch
\* All numbers so far are less than n.
Below(s, n) == \A p \in 1..Len(s) : Numbers(s[p]) => s[p].batch < n

\* The results posted so far stand behind the reply.
BehindReply ==
  \/ OnlyResults(messages)
  \/ /\ posted < Len(messages)
     /\ messages[Len(messages) - posted] = reply
     /\ \A r \in (Len(messages) - posted + 1)..Len(messages) :
          messages[r] = Result(reply.batch, r - (Len(messages) - posted))

\* What the transcript is in each state, and what the reply to come is numbered.
PlaceInv ==
  /\ InPlace(messages) /\ Numbered(messages) /\ Below(messages, batch + 1)
  /\ pc \in InBatch \cup {"replyStarted"} => reply.stop \in {"stop", "error"}
  /\ pc = "replyStarted" /\ reply.calls > 0 =>
       reply.batch = batch /\ Below(messages, batch)
  /\ pc \in InBatch => BehindReply /\ (reply.calls > 0 => reply.batch <= batch)

\* A message at the end changes nothing for those before it.
LEMMA PlacesAppend ==
  ASSUME NEW s \in Seq(Message), NEW m \in Message, NEW a, a = Append(s, m),
         InPlace(s), Numbered(s),
         m.role = "toolResult" =>
           OnlyResults(s) \/ \E q \in 1..Len(s) : Behind(a, q, Len(s) + 1),
         (m.role = "assistant" /\ m.calls > 0) => Below(s, m.batch)
  PROVE  InPlace(a) /\ Numbered(a)
<1>1. /\ Len(s) \in Nat /\ Len(a) = Len(s) + 1 /\ a[Len(s) + 1] = m
      /\ \A i \in 1..Len(s) : a[i] = s[i]
  BY AppendProperties, LenProperties
<1>2. ASSUME NEW q \in 1..Len(s), NEW p \in 1..Len(s), Behind(s, q, p)
      PROVE  Behind(a, q, p)
  <2>1. \A r \in (q + 1)..p : r \in 1..Len(s)
    OBVIOUS
  <2> QED BY <1>1, <1>2, <2>1 DEF Behind
<1>3. InPlace(a)
  <2> SUFFICES ASSUME NEW p \in 1..Len(a), a[p].role = "toolResult"
               PROVE  \/ \A r \in 1..p : a[r].role = "toolResult"
                      \/ \E q \in 1..(p - 1) : Behind(a, q, p)
    BY DEF InPlace
  <2>1. CASE p \in 1..Len(s)
    <3>1. \/ \A r \in 1..p : s[r].role = "toolResult"
          \/ \E q \in 1..(p - 1) : Behind(s, q, p)
      BY <1>1, <2>1 DEF InPlace
    <3>2. CASE \A r \in 1..p : s[r].role = "toolResult"
      <4>1. \A r \in 1..p : r \in 1..Len(s)
        BY <1>1, <2>1
      <4> QED BY <1>1, <3>2, <4>1
    <3>3. ASSUME NEW q \in 1..(p - 1), Behind(s, q, p) PROVE Behind(a, q, p)
      <4>1. q \in 1..Len(s)
        BY <1>1, <2>1
      <4> QED BY <1>2, <2>1, <3>3, <4>1
    <3> QED BY <3>1, <3>2, <3>3
  <2>2. CASE p = Len(s) + 1
    <3>1. m.role = "toolResult"
      BY <1>1, <2>2
    <3>2. CASE OnlyResults(s)
      <4>1. \A r \in 1..p : r \in 1..Len(s) \/ r = Len(s) + 1
        BY <1>1, <2>2
      <4> QED BY <1>1, <3>1, <3>2, <4>1 DEF OnlyResults
    <3>3. ASSUME NEW q \in 1..Len(s), Behind(a, q, Len(s) + 1)
          PROVE  q \in 1..(p - 1) /\ Behind(a, q, p)
      BY <1>1, <2>2, <3>3
    <3> QED BY <3>1, <3>2, <3>3
  <2> QED BY <1>1, <2>1, <2>2
<1>4. Numbered(a)
  <2> SUFFICES ASSUME NEW p \in 1..Len(a), NEW q \in 1..Len(a), p < q, Numbers(a[p]),
                      a[q].role = "assistant", a[q].calls > 0
               PROVE  a[p].batch < a[q].batch
    BY DEF Numbered
  <2>1. p \in 1..Len(s) /\ a[p] = s[p]
    BY <1>1
  <2>2. CASE q \in 1..Len(s)
    BY <1>1, <2>1, <2>2 DEF Numbered
  <2>3. CASE q = Len(s) + 1
    BY <1>1, <2>1, <2>3 DEF Below
  <2> QED BY <1>1, <2>2, <2>3
<1> QED BY <1>3, <1>4

\* Numbers below one are below a greater one, with one more of them too.
LEMMA BelowAppend ==
  ASSUME NEW s \in Seq(Message), NEW m \in Message, NEW n \in Int, NEW k \in Int, n <= k,
         Below(s, n), Numbers(m) => m.batch < k
  PROVE  Below(s, k) /\ Below(Append(s, m), k)
<1> DEFINE a == Append(s, m)
<1>1. /\ Len(s) \in Nat /\ Len(a) = Len(s) + 1 /\ a[Len(s) + 1] = m
      /\ \A i \in 1..Len(s) : a[i] = s[i]
  BY AppendProperties, LenProperties
<1> HIDE DEF a
<1>2. \A p \in 1..Len(s) : s[p] \in Message
  BY ElementOfSeq
<1>3. \A x \in Message : Numbers(x) => x.batch \in Int
  BY AgentAssumption DEF Numbers, Message, UserMessage, UserOf, AssistantMessage, ToolResultMessage
<1>4. Below(s, k)
  BY <1>2, <1>3 DEF Below
<1>5. Below(a, k)
  <2> SUFFICES ASSUME NEW p \in 1..Len(a), Numbers(a[p]) PROVE a[p].batch < k
    BY DEF Below
  <2>1. CASE p \in 1..Len(s)
    BY <1>1, <1>4, <2>1 DEF Below
  <2>2. CASE p = Len(s) + 1
    BY <1>1, <2>2
  <2> QED BY <1>1, <2>1, <2>2
<1> QED BY <1>4, <1>5 DEF a

\* A message that has no number can be appended anywhere.
LEMMA PlainAppend ==
  ASSUME NEW s \in Seq(Message), NEW m \in Message, NEW n \in Int, ~Numbers(m),
         InPlace(s), Numbered(s), Below(s, n)
  PROVE  LET a == Append(s, m) IN InPlace(a) /\ Numbered(a) /\ Below(a, n)
<1> DEFINE a == Append(s, m)
<1>1. a = Append(s, m) /\ m.role # "toolResult" /\ ~(m.role = "assistant" /\ m.calls > 0)
  BY DEF Numbers
<1>2. Below(a, n)
  BY BelowAppend
<1> HIDE DEF a
<1>3. InPlace(a) /\ Numbered(a)
  BY <1>1, PlacesAppend
<1> QED BY <1>2, <1>3 DEF a

\* So can a reply with a number greater than those before.
LEMMA ReplyAppend ==
  ASSUME NEW s \in Seq(Message), NEW m \in AssistantMessage, NEW n \in Int,
         InPlace(s), Numbered(s), Below(s, n),
         m.calls > 0 => Below(s, m.batch) /\ m.batch < n
  PROVE  LET a == Append(s, m) IN
           /\ InPlace(a) /\ Numbered(a) /\ Below(a, n)
           /\ 0 < Len(a) /\ a[Len(a)] = m /\ Len(a) \in Nat
<1> DEFINE a == Append(s, m)
<1>0. /\ Len(s) \in Nat /\ Len(a) = Len(s) + 1 /\ a[Len(s) + 1] = m
  BY AppendProperties, LenProperties, MessageTypes
<1>1. a = Append(s, m) /\ m \in Message /\ m.role = "assistant"
  BY MessageTypes DEF AssistantMessage
<1>2. Below(a, n)
  BY <1>1, BelowAppend DEF Numbers
<1> HIDE DEF a
<1>3. InPlace(a) /\ Numbered(a)
  BY <1>1, PlacesAppend
<1> QED BY <1>0, <1>2, <1>3 DEF a

\* The replies a provider may give: numbered by the next batch, if at all.
LEMMA ReplyNumbers ==
  ASSUME batch \in 0..MaxBatches, NEW r \in Replies
  PROVE  (r.calls > 0 => r.batch = batch + 1) /\ r.stop \in {"stop", "error"}
BY AgentAssumption DEF Replies, Assistant, Calls

\* Every step keeps the results in their places.
LEMMA PlaceStep ==
  ASSUME IInv, IInv', PlaceInv, Next
  PROVE  PlaceInv'
<1> USE DEF PlaceInv, InBatch
<1>0. /\ messages \in Seq(Message) /\ Len(messages) \in Nat
      /\ batch \in 0..MaxBatches /\ batch \in Int /\ batch + 1 \in Int
  <2>1. batch \in 0..MaxBatches
    BY DEF IInv, TypeOK, RestTypeOK
  <2> QED BY Sequences, LenProperties, AgentAssumption, <2>1
<1>1. ASSUME NEW m \in Message, ~Numbers(m), messages' = Append(messages, m),
             pc' \notin InBatch \cup {"replyStarted"}, UNCHANGED batch
      PROVE  PlaceInv'
  BY <1>0, <1>1, PlainAppend
<1>2. ASSUME UNCHANGED <<messages, batch>>, pc' \notin InBatch \cup {"replyStarted"}
      PROVE  PlaceInv'
  BY <1>2
<1>3. ASSUME UNCHANGED <<messages, reply, posted, batch>>,
             pc \in InBatch \/ pc' \notin InBatch, pc' = "replyStarted" => pc = "replyStarted"
      PROVE  PlaceInv'
  BY <1>3 DEF BehindReply
<1>4. ASSUME NEW prompts \in Seq(UserMessage), NEW skip \in BOOLEAN,
             StartRun(prompts, skip)
      PROVE  PlaceInv'
  BY <1>2, <1>4 DEF StartRun
<1>5. CASE FirstTurn \/ FirstPoll \/ DeliverStart \/ Request
  BY <1>2, <1>5 DEF FirstTurn, FirstPoll, DeliverStart, Request, stateVars, restVars
<1>6. CASE DeliverEnd
  <2>1. Head(outbox) \in UserMessage
    BY <1>6, HeadTailProperties DEF DeliverEnd, IInv, TypeOK, LoopTypeOK, LoopInv
  <2>2. Head(outbox) \in Message /\ ~Numbers(Head(outbox))
    BY <2>1, MessageTypes DEF UserMessage, UserOf, Numbers
  <2> QED BY <1>1, <1>6, <2>2 DEF DeliverEnd, restVars
<1>7. CASE StreamStart \/ StreamUpdate
  BY <1>2, <1>7 DEF StreamStart, StreamUpdate, restVars, loopVars
<1>8. CASE StreamDone
  <2> PICK r \in Replies :
        /\ messages' = Append(messages, r) /\ reply' = r /\ posted' = 0
        /\ batch' = IF r.calls = 0 THEN batch ELSE r.batch
    BY <1>8 DEF StreamDone, ExpectBatch, ClearBatch
  <2>1. /\ r \in AssistantMessage /\ r.calls \in Nat
        /\ (r.calls > 0 => r.batch = batch + 1) /\ r.stop \in {"stop", "error"}
    BY <1>0, RepliesType, ReplyNumbers, AgentAssumption DEF AssistantMessage
  <2>2. Below(messages, batch' + 1) /\ batch' + 1 \in Int /\ batch' >= batch
    <3>1. NoReply \in Message /\ ~Numbers(NoReply)
      BY FixedReplies, MessageTypes DEF NoReply, Assistant, Numbers
    <3>2. batch' \in Int /\ batch' >= batch
      BY <1>0, <2>1
    <3> QED BY <1>0, <3>1, <3>2, BelowAppend
  <2>3. /\ InPlace(messages') /\ Numbered(messages') /\ Below(messages', batch' + 1)
        /\ 0 < Len(messages') /\ messages'[Len(messages')] = r /\ Len(messages') \in Nat
    <3>1. r.calls > 0 => Below(messages, r.batch) /\ r.batch < batch' + 1
      BY <1>0, <2>1
    <3> QED BY <1>0, <2>1, <2>2, <3>1, ReplyAppend
  <2>4. BehindReply'
    BY <2>3 DEF BehindReply
  <2>5. pc' = "replied" /\ (r.calls > 0 => r.batch <= batch')
    BY <1>0, <1>8, <2>1 DEF StreamDone
  <2> QED BY <2>1, <2>3, <2>4, <2>5
<1>9. CASE ReplyStart
  <2> PICK r \in Replies :
        /\ reply' = r /\ batch' = IF r.calls = 0 THEN batch ELSE r.batch
    BY <1>9 DEF ReplyStart, ExpectBatch, ClearBatch
  <2>1. /\ r \in AssistantMessage /\ r.calls \in Nat
        /\ (r.calls > 0 => r.batch = batch + 1) /\ r.stop \in {"stop", "error"}
    BY <1>0, RepliesType, ReplyNumbers, AgentAssumption DEF AssistantMessage
  <2>2. Below(messages, batch' + 1)
    <3>1. NoReply \in Message /\ ~Numbers(NoReply)
      BY FixedReplies, MessageTypes DEF NoReply, Assistant, Numbers
    <3>2. batch' \in Int /\ batch' >= batch
      BY <1>0, <2>1
    <3> QED BY <1>0, <3>1, <3>2, BelowAppend
  <2>3. pc' = "replyStarted" /\ UNCHANGED messages
    BY <1>9 DEF ReplyStart
  <2>4. reply'.calls > 0 => reply'.batch = batch' /\ Below(messages, batch')
    BY <1>0, <2>1
  <2> QED BY <2>1, <2>2, <2>3, <2>4
<1>10. CASE ReplyEnd
  <2>1. /\ messages' = Append(messages, reply) /\ reply' = reply /\ posted' = 0
        /\ pc = "replyStarted" /\ pc' = "replied" /\ UNCHANGED batch
    BY <1>10 DEF ReplyEnd, batchVars, restVars, IInv, BatchInv
  <2>2. reply \in AssistantMessage
    BY DEF IInv, TypeOK, LoopTypeOK
  <2>3. /\ InPlace(messages') /\ Numbered(messages') /\ Below(messages', batch + 1)
        /\ 0 < Len(messages') /\ messages'[Len(messages')] = reply /\ Len(messages') \in Nat
    <3>1. reply.calls > 0 => Below(messages, reply.batch) /\ reply.batch < batch + 1
      BY <1>0, <2>1
    <3> QED BY <1>0, <2>1, <2>2, <3>1, ReplyAppend
  <2>4. BehindReply'
    BY <2>1, <2>3 DEF BehindReply
  <2>5. reply.calls > 0 => reply.batch <= batch
    BY <1>0, <2>1
  <2> QED BY <2>1, <2>3, <2>4, <2>5
<1>11. ASSUME NEW i \in Calls,
              \/ ToolStart(i) \/ RejectCall(i) \/ AcceptCall(i) \/ SequentialEnd(i)
       PROVE  PlaceInv'
  BY <1>3, <1>11 DEF ToolStart, RejectCall, AcceptCall, SequentialEnd, FinishCall,
                     stateVars, loopVars, restVars
<1>12. ASSUME UNCHANGED <<messages, reply, posted, batch, pc>>
       PROVE  PlaceInv'
  BY <1>3, <1>12
<1>13. ASSUME NEW i \in Calls, TaskEnd(i) \/ TaskReturn(i) PROVE PlaceInv'
  BY <1>12, <1>13 DEF TaskEnd, TaskReturn, FinishCall, stateVars, loopVars, restVars
<1>14. CASE ResultStart
  BY <1>3, <1>14 DEF ResultStart, loopVars, batchVars, restVars
<1>15. CASE ResultEnd
  <2> DEFINE m == Result(reply.batch, posted + 1)
             q == Len(messages) - posted
  <2>1. /\ messages' = Append(messages, m) /\ posted' = posted + 1
        /\ reply' = reply /\ BehindReply /\ UNCHANGED batch /\ pc' = "posted"
        /\ pc = "posting" /\ (reply.calls > 0 => reply.batch <= batch)
    BY <1>15 DEF ResultEnd, loopVars, restVars
  <2>2. /\ posted \in Nat /\ m \in Message /\ m.role = "toolResult" /\ m.batch = reply.batch
        /\ posted + 1 <= reply.calls /\ reply.calls \in Nat /\ reply.batch \in Nat
        /\ ~Failed /\ reply.stop \in Stops
    BY <2>1, ResultsType, AgentAssumption
       DEF IInv, TypeOK, BatchTypeOK, BatchInv, Batch, LoopTypeOK, AssistantMessage, Result
  <2>3. /\ Len(messages') = Len(messages) + 1 /\ messages'[Len(messages) + 1] = m
        /\ \A i \in 1..Len(messages) : messages'[i] = messages[i]
    BY <1>0, <2>1, <2>2, AppendProperties
  <2>4. Below(messages', batch + 1)
    <3>1. m.batch < batch + 1
      BY <1>0, <2>1, <2>2
    <3> HIDE DEF m
    <3> QED BY <1>0, <2>1, <2>2, <3>1, BelowAppend
  <2>5. CASE OnlyResults(messages)
    <3>1. OnlyResults(messages')
      BY <1>0, <2>2, <2>3, <2>5 DEF OnlyResults
    <3>2. InPlace(messages') /\ Numbered(messages')
      <4> HIDE DEF m
      <4> QED BY <1>0, <2>1, <2>2, <2>5, PlacesAppend
    <3> QED BY <2>1, <2>4, <3>1, <3>2 DEF BehindReply
  <2>6. CASE ~OnlyResults(messages)
    <3>1. /\ q \in 1..Len(messages) /\ messages[q] = reply
          /\ \A r \in (q + 1)..Len(messages) : messages[r] = Result(reply.batch, r - q)
      BY <1>0, <2>1, <2>2, <2>6 DEF BehindReply
    <3>2. \A r \in (q + 1)..(Len(messages) + 1) : messages'[r] = Result(reply.batch, r - q)
      <4>1. (Len(messages) + 1) - q = posted + 1
        BY <1>0, <2>2
      <4>2. ASSUME NEW r \in (q + 1)..Len(messages)
            PROVE  messages'[r] = Result(reply.batch, r - q)
        <5>1. messages[r] = Result(reply.batch, r - q)
          BY <3>1
        <5>2. r \in 1..Len(messages)
          BY <1>0, <2>2, <3>1
        <5>3. messages'[r] = messages[r]
          BY <2>3, <5>2
        <5> QED BY <5>1, <5>3
      <4>3. messages'[Len(messages) + 1] = Result(reply.batch, (Len(messages) + 1) - q)
        BY <2>3, <4>1
      <4> HIDE DEF q
      <4> QED BY <1>0, <3>1, <4>2, <4>3
    <3>3. Lasting(reply)
      <4>1. reply \in AssistantMessage /\ reply.role = "assistant"
        BY DEF IInv, TypeOK, LoopTypeOK, AssistantMessage
      <4>2. reply.stop # "aborted"
        BY <2>1
      <4> QED BY <2>2, <4>1, <4>2 DEF Lasting, Failed
    <3>4. Behind(messages', q, Len(messages) + 1)
      <4>1. messages'[q] = reply /\ (Len(messages) + 1) - q = posted + 1
        BY <1>0, <2>2, <2>3, <3>1
      <4> HIDE DEF q
      <4> QED BY <2>2, <3>2, <3>3, <4>1 DEF Behind
    <3>5. InPlace(messages') /\ Numbered(messages')
      <4> HIDE DEF m, q
      <4> QED BY <1>0, <2>1, <2>2, <3>1, <3>4, PlacesAppend
    <3>6. BehindReply'
      <4>1. /\ Len(messages') - posted' = q /\ messages'[q] = reply
            /\ posted' < Len(messages')
        BY <1>0, <2>1, <2>2, <2>3, <3>1
      <4> HIDE DEF q
      <4> QED BY <2>1, <2>3, <3>2, <4>1 DEF BehindReply
    <3> QED BY <2>1, <2>4, <3>5, <3>6
  <2> QED BY <2>5, <2>6
<1>16. CASE TurnEnd \/ NextTurn \/ FollowUpTurn \/ AgentEnd
  BY <1>2, <1>16 DEF TurnEnd, NextTurn, FollowUpTurn, BeginTurn, AgentEnd, stateVars, restVars
<1>17. CASE FailRun
  <2>1. \A s \in {"aborted", "error"} :
          Assistant(0, 0, s) \in Message /\ ~Numbers(Assistant(0, 0, s))
    BY FixedReplies, MessageTypes DEF Assistant, Stops, Numbers
  <2> QED BY <1>1, <1>17, <2>1 DEF FailRun
<1>18. CASE LeaveRun
  BY <1>2, <1>18 DEF LeaveRun, BecomeIdle
<1>19. CASE Reset
  BY <1>19 DEF Reset, InPlace, Numbered, Below, BehindReply, OnlyResults, restVars, loopVars
<1>20. ASSUME NEW c \in orphans, OrphanEnd(c) PROVE PlaceInv'
  BY <1>12, <1>20 DEF OrphanEnd, loopVars, batchVars
<1>21. CASE Steer \/ FollowUp \/ ClearQueues \/ Abort
  BY <1>12, <1>21 DEF Steer, FollowUp, ClearQueues, Abort, stateVars, loopVars, batchVars, restVars
<1>22. ASSUME NEW q \in {"steer", "followUp"}, NEW m \in Modes, SetMode(q, m)
       PROVE  PlaceInv'
  BY <1>12, <1>22 DEF SetMode, stateVars, loopVars, batchVars, restVars
<1>23. ASSUME NEW w \in Waiters, WaitForIdle(w) \/ CancelWaiter(w) \/ WaiterReturns(w)
       PROVE  PlaceInv'
  BY <1>12, <1>23 DEF WaitForIdle, CancelWaiter, WaiterReturns, stateVars, loopVars, batchVars
<1> QED
  BY <1>4, <1>5, <1>6, <1>7, <1>8, <1>9, <1>10, <1>11, <1>13, <1>14, <1>15, <1>16,
     <1>17, <1>18, <1>19, <1>20, <1>21, <1>22, <1>23, RunStarts, NextCases

\* PlaceInv holds in every behaviour, whatever disturbs it.
LEMMA PlaceKept == SafeSpec => []PlaceInv
<1>1. Init => PlaceInv
  BY DEF Init, PlaceInv, InPlace, Numbered, Below, InBatch
<1>2. IInv /\ IInv' /\ PlaceInv /\ [Next]_vars => PlaceInv'
  <2>1. ASSUME PlaceInv, UNCHANGED vars PROVE PlaceInv'
    BY <2>1 DEF PlaceInv, BehindReply, vars, stateVars, loopVars, batchVars, restVars
  <2> QED BY <2>1, PlaceStep
<1> QED BY Inductive, <1>1, <1>2, PTL DEF SafeSpec

\* Whatever disturbs the runs, a tool result in the transcript stands in its
\* place behind its call, unless a reset has cut off all that came before.
THEOREM ResultsStayInPlace == SafeSpec => []ResultsInPlace
<1>1. IInv /\ PlaceInv => ResultsInPlace
  <2> SUFFICES ASSUME messages \in Seq(Message), InPlace(messages)
               PROVE  ResultsInPlace
    BY Sequences DEF PlaceInv
  <2>1. DOMAIN messages = 1..Len(messages) /\ Len(messages) \in Nat
    BY LenProperties
  <2>2. ASSUME NEW p \in 1..Len(messages), NEW q \in 1..(p - 1), Behind(messages, q, p)
        PROVE  /\ p - messages[p].call = q /\ q \in 1..Len(messages)
               /\ messages[q].role = "assistant" /\ messages[q].batch = messages[p].batch
    <3>1. messages[p] = Result(messages[q].batch, p - q)
      BY <2>2 DEF Behind
    <3> QED BY <2>2, <2>1, <3>1 DEF Behind, Lasting, Result
  <2> QED BY <2>1, <2>2 DEF InPlace, ResultsInPlace
<1> QED BY Inductive, PlaceKept, <1>1, PTL

-----------------------------------------------------------------------------
(***************************************************************************)
(* Pending calls, where no listener raises and the agent is not reset.  A  *)
(* cancelled run leaves tasks behind, whose calls are of an older batch.   *)
(***************************************************************************)
CalmInv ==
  /\ pc # "failing"
  /\ \A i \in Calls : tool[i] # "raised"
  /\ pending = OpenCalls
  /\ reply.batch <= batch
  /\ \A c \in orphans : c[1] <= batch /\ c[1] # reply.batch

\* What may happen then.
LEMMA CalmCases ==
  ASSUME {"raise", "reset"} \cap Disruptions = {}, IInv, CalmInv, Next
  PROVE
    \/ Prompt \/ ContinueWithSteering \/ ContinueWithFollowUp \/ ContinueRun
    \/ FirstTurn \/ FirstPoll \/ DeliverStart \/ DeliverEnd \/ Request
    \/ StreamStart \/ StreamUpdate \/ StreamDone \/ ReplyStart \/ ReplyEnd
    \/ \E i \in Calls : ToolStart(i) \/ RejectCall(i) \/ AcceptCall(i)
    \/ \E i \in Calls : SequentialEnd(i) \/ TaskEnd(i) \/ TaskReturn(i)
    \/ ResultStart \/ ResultEnd \/ TurnEnd
    \/ NextTurn \/ FollowUpTurn \/ AgentEnd \/ Finish \/ Cancel
    \/ \E c \in orphans : OrphanEnd(c)
    \/ Steer \/ FollowUp \/ ClearQueues \/ Abort
    \/ \E q \in {"steer", "followUp"}, m \in Modes : SetMode(q, m)
    \/ \E w \in Waiters : WaitForIdle(w) \/ CancelWaiter(w) \/ WaiterReturns(w)
<1>1. ~Reset /\ ~Raise
  BY DEF Reset, Raise
<1>2. ~TaskRaised
  BY CallTypes DEF TaskRaised, CalmInv, IInv, TypeOK
<1> QED BY <1>1, <1>2 DEF Next, LoopStep, ProviderStep, ToolStep, UserStep

\* A new reply has no calls, or those of a batch that no task is of.
LEMMA FreshReply ==
  ASSUME IInv, IInv', CalmInv, NEW r \in Replies, reply' = r, ExpectBatch(r),
         UNCHANGED <<pending, orphans>>, pc \in {"request", "streaming"},
         pc' \in {"replied", "replyStarted"}
  PROVE  CalmInv'
<1>1. /\ batch \in Nat /\ orphans \subseteq CallId /\ \A c \in CallId : c[1] # 0
  BY DEF IInv, TypeOK, RestTypeOK, CallId
<1>2. \/ r.batch = 0 /\ r.calls = 0 /\ batch' = batch
      \/ r.batch = batch + 1 /\ batch' = batch + 1
  BY <1>1 DEF Replies, Assistant, ExpectBatch, Calls
<1>3. tool' = NoTools /\ OpenCalls' = {}
  BY DEF ExpectBatch, ClearBatch, NoTools, OpenCalls
<1>4. pending' = OpenCalls'
  BY <1>3, NoneOpen
<1>5. \A c \in orphans : c[1] \in Nat /\ c[1] <= batch /\ c[1] # 0
  BY <1>1 DEF CalmInv, CallId
<1> QED BY <1>1, <1>2, <1>3, <1>4, <1>5 DEF CalmInv, NoTools

\* Every step keeps the pending calls those in progress.
LEMMA CalmStep ==
  ASSUME {"raise", "reset"} \cap Disruptions = {}, IInv, IInv', CalmInv, Next
  PROVE  CalmInv'
<1> USE DEF CalmInv
<1>0. /\ batch \in Nat /\ orphans \subseteq CallId /\ \A c \in CallId : c[1] # 0
      /\ tool \in [Calls -> ToolStates]
  BY DEF IInv, TypeOK, BatchTypeOK, RestTypeOK, CallId
<1>1. ASSUME UNCHANGED <<pending, tool, reply, batch, orphans>>, pc' # "failing"
      PROVE  CalmInv'
  BY <1>1 DEF OpenCalls
<1>2. ASSUME NEW prompts \in Seq(UserMessage), NEW skip \in BOOLEAN,
             StartRun(prompts, skip)
      PROVE  CalmInv'
  <2>1. OpenCalls = {} /\ OpenCalls' = {}
    BY <1>2, NoneOpen DEF StartRun, batchVars, IInv, BatchInv, OpenCalls, NoTools
  <2>2. reply'.batch = 0 /\ batch' = batch /\ orphans' = orphans
    BY <1>2 DEF StartRun, NoReply, Assistant
  <2> QED BY <1>0, <1>2, <2>1, <2>2 DEF StartRun, batchVars
<1>3. CASE FirstTurn \/ FirstPoll \/ DeliverStart \/ DeliverEnd \/ Request
  BY <1>1, <1>3 DEF FirstTurn, FirstPoll, DeliverStart, DeliverEnd, Request,
                    stateVars, loopVars, batchVars, restVars
<1>4. CASE StreamStart \/ StreamUpdate \/ ReplyEnd \/ ResultStart \/ ResultEnd
  BY <1>1, <1>4 DEF StreamStart, StreamUpdate, ReplyEnd, ResultStart, ResultEnd,
                    loopVars, batchVars, restVars
<1>5. CASE StreamDone
  <2> PICK r \in Replies : reply' = r /\ ExpectBatch(r)
    BY <1>5 DEF StreamDone
  <2> QED BY <1>5, FreshReply DEF StreamDone
<1>6. CASE ReplyStart
  <2> PICK r \in Replies : reply' = r /\ ExpectBatch(r)
    BY <1>6 DEF ReplyStart
  <2> QED BY <1>6, FreshReply DEF ReplyStart
<1>7. ASSUME NEW i \in Calls, ToolStart(i) PROVE CalmInv'
  <2>1. OpenCalls' = OpenCalls \cup {<<reply.batch, i>>}
    BY <1>0, <1>7 DEF ToolStart, OpenCalls, loopVars
  <2> QED BY <1>0, <1>7, <2>1 DEF ToolStart, loopVars, restVars
<1>8. ASSUME NEW i \in Calls, RejectCall(i) PROVE CalmInv'
  <2>1. OpenCalls' = OpenCalls \ {<<reply.batch, i>>}
    BY <1>0, <1>8 DEF RejectCall, OpenCalls, loopVars
  <2> QED BY <1>0, <1>8, <2>1 DEF RejectCall, CallEnded, loopVars, restVars
<1>9. ASSUME NEW i \in Calls, AcceptCall(i) PROVE CalmInv'
  <2>1. OpenCalls' = OpenCalls
    BY <1>0, <1>9 DEF AcceptCall, OpenCalls, loopVars
  <2> QED BY <1>0, <1>9, <2>1 DEF AcceptCall, stateVars, loopVars, restVars
<1>10. ASSUME NEW i \in Calls, SequentialEnd(i) \/ TaskEnd(i) PROVE CalmInv'
  <2>1. OpenCalls' = OpenCalls \ {<<reply.batch, i>>}
    BY <1>0, <1>10 DEF SequentialEnd, TaskEnd, FinishCall, OpenCalls, loopVars
  <2>2. \A j \in Calls : tool'[j] # "raised"
    BY <1>0, <1>10 DEF SequentialEnd, TaskEnd, FinishCall
  <2> QED
    BY <1>10, <2>1, <2>2 DEF SequentialEnd, TaskEnd, FinishCall, CallEnded, loopVars, restVars
<1>11. ASSUME NEW i \in Calls, TaskReturn(i) PROVE CalmInv'
  <2>1. OpenCalls' = OpenCalls /\ \A j \in Calls : tool'[j] # "raised"
    BY <1>0, <1>11 DEF TaskReturn, OpenCalls, loopVars
  <2> QED BY <1>11, <2>1 DEF TaskReturn, stateVars, loopVars, restVars
<1>12. CASE TurnEnd \/ NextTurn \/ FollowUpTurn \/ AgentEnd
  BY <1>1, <1>12 DEF TurnEnd, NextTurn, FollowUpTurn, BeginTurn, AgentEnd, BatchOver,
                     stateVars, loopVars, batchVars, restVars
<1>13. CASE Finish \/ Cancel
  <2>1. LeaveRun
    BY <1>13 DEF Finish, Cancel
  <2>2. OpenCalls' = {} /\ pending' = {} /\ reply'.batch = 0 /\ batch' = batch
        /\ \A i \in Calls : tool'[i] # "raised"
    BY <2>1 DEF LeaveRun, LeaveLoop, BecomeIdle, ClearBatch, NoTools, OpenCalls,
                NoReply, Assistant
  <2>3. \A c \in orphans' : c[1] <= batch /\ c[1] # 0
    <3>1. \A c \in RunningTasks : c[1] = reply.batch
      BY DEF RunningTasks
    <3>2. orphans' \subseteq CallId /\ orphans' = orphans \cup RunningTasks
      BY <2>1 DEF LeaveRun, LeaveLoop, IInv, TypeOK, RestTypeOK, CallId
    <3> QED BY <1>0, <3>1, <3>2
  <2> QED BY <1>0, <2>1, <2>2, <2>3 DEF LeaveRun, BecomeIdle
<1>14. ASSUME NEW c \in orphans, OrphanEnd(c) PROVE CalmInv'
  <2>1. c \notin OpenCalls
    BY DEF OpenCalls
  <2>2. OpenCalls' = OpenCalls
    BY <1>14 DEF OrphanEnd, OpenCalls, loopVars, batchVars
  <2> QED BY <1>14, <2>1, <2>2 DEF OrphanEnd, loopVars, batchVars
<1>15. CASE Steer \/ FollowUp \/ ClearQueues \/ Abort
  BY <1>1, <1>15 DEF Steer, FollowUp, ClearQueues, Abort, stateVars, loopVars,
                     batchVars, restVars
<1>16. ASSUME NEW q \in {"steer", "followUp"}, NEW m \in Modes, SetMode(q, m)
       PROVE  CalmInv'
  BY <1>1, <1>16 DEF SetMode, stateVars, loopVars, batchVars, restVars
<1>17. ASSUME NEW w \in Waiters, WaitForIdle(w) \/ CancelWaiter(w) \/ WaiterReturns(w)
       PROVE  CalmInv'
  BY <1>1, <1>17 DEF WaitForIdle, CancelWaiter, WaiterReturns, stateVars, loopVars, batchVars
<1> QED
  BY <1>2, <1>3, <1>4, <1>5, <1>6, <1>7, <1>8, <1>9, <1>10, <1>11, <1>12, <1>13,
     <1>14, <1>15, <1>16, <1>17, RunStarts, CalmCases

\* CalmInv is kept by behaviours in which nobody raises or resets.
LEMMA CalmKept ==
  ASSUME {"raise", "reset"} \cap Disruptions = {}
  PROVE  SafeSpec => []CalmInv
<1>1. Init => CalmInv
  BY AgentAssumption DEF Init, CalmInv, OpenCalls, NoTools, NoReply, Assistant
<1>2. IInv /\ IInv' /\ CalmInv /\ [Next]_vars => CalmInv'
  <2>1. ASSUME CalmInv, UNCHANGED vars PROVE CalmInv'
    BY <2>1 DEF CalmInv, OpenCalls, vars, stateVars, loopVars, batchVars, restVars
  <2> QED BY <2>1, CalmStep
<1> QED BY Inductive, <1>1, <1>2, PTL DEF SafeSpec

\* pending_tool_calls is exactly the calls between their two execution events,
\* also after cancellations, whose tasks go on: in every behaviour in which no
\* listener raises and the agent is not reset.
THEOREM PendingAreOpen ==
  ASSUME {"raise", "reset"} \cap Disruptions = {}
  PROVE  SafeSpec => []PendingIsOpen
<1>1. CalmInv => PendingIsOpen
  BY DEF CalmInv, PendingIsOpen
<1> QED BY CalmKept, <1>1, PTL

-----------------------------------------------------------------------------
(***************************************************************************)
(* Requests are well formed, where no run is disturbed.  Before a reply is *)
(* received each message of the transcript is answered; in a batch, each   *)
(* but the reply, which is the last of the context.                        *)
(***************************************************************************)
Answered(s, p) ==
  /\ s[p].role = "assistant" /\ s[p].stop = "stop" =>
       \A i \in 1..s[p].calls :
         p + i \in 1..Len(s) /\ s[p + i] = Result(s[p].batch, i)
  /\ s[p].role = "toolResult" =>
       /\ p - s[p].call \in 1..Len(s)
       /\ s[p - s[p].call].role = "assistant"
       /\ s[p - s[p].call].batch = s[p].batch

AnsweredTo(s, n) == \A p \in 1..n : Answered(s, p)

AnsweredInv ==
  /\ pc \notin InBatch => AnsweredTo(messages, Len(messages))
  /\ pc \in InBatch =>
       /\ context # <<>> /\ context[Len(context)] = reply
       /\ AnsweredTo(context, Len(context) - 1)

\* What is answered stays so when messages follow.
LEMMA StillAnswered ==
  ASSUME NEW s \in Seq(Message), NEW t \in Seq(Message), Len(s) <= Len(t),
         \A i \in 1..Len(s) : t[i] = s[i],
         NEW n \in 0..Len(s), AnsweredTo(s, n)
  PROVE  AnsweredTo(t, n)
<1>1. Len(s) \in Nat /\ Len(t) \in Nat
  BY LenProperties
<1>2. ASSUME NEW i, i \in 1..Len(s) PROVE i \in 1..Len(t) /\ t[i] = s[i]
  BY <1>1, <1>2
<1>3. ASSUME NEW p \in 1..n PROVE Answered(t, p)
  <2>1. Answered(s, p) /\ p \in 1..Len(s) /\ t[p] = s[p]
    BY <1>1, <1>3 DEF AnsweredTo
  <2> QED BY <1>2, <2>1 DEF Answered
<1> QED BY <1>3 DEF AnsweredTo

\* A user message asks for no answer.
LEMMA AnsweredAppend ==
  ASSUME NEW s \in Seq(Message), NEW m \in Message, AnsweredTo(s, Len(s)),
         m.role = "user"
  PROVE  AnsweredTo(Append(s, m), Len(Append(s, m)))
<1> DEFINE t == Append(s, m)
<1>1. /\ t \in Seq(Message) /\ Len(s) \in Nat /\ Len(t) = Len(s) + 1
      /\ t[Len(s) + 1] = m /\ \A i \in 1..Len(s) : t[i] = s[i]
  BY AppendProperties, LenProperties
<1> HIDE DEF t
<1>2. AnsweredTo(t, Len(s))
  BY <1>1, StillAnswered
<1>3. Answered(t, Len(s) + 1)
  BY <1>1 DEF Answered
<1>4. \A p \in 1..Len(t) : p \in 1..Len(s) \/ p = Len(s) + 1
  BY <1>1
<1>5. AnsweredTo(t, Len(t))
  BY <1>2, <1>3, <1>4 DEF AnsweredTo
<1> QED BY <1>5 DEF t

\* A reply is received.
LEMMA ReplyLast ==
  ASSUME NEW s \in Seq(Message), NEW m \in Message, AnsweredTo(s, Len(s)),
         context' = Append(s, m), reply' = m
  PROVE  /\ context' # <<>> /\ context'[Len(context')] = reply'
         /\ AnsweredTo(context', Len(context') - 1)
<1>1. /\ context' \in Seq(Message) /\ Len(s) \in Nat /\ Len(context') = Len(s) + 1
      /\ context'[Len(s) + 1] = m /\ \A i \in 1..Len(s) : context'[i] = s[i]
      /\ context' # <<>>
  BY AppendProperties, LenProperties
<1>2. AnsweredTo(context', Len(s))
  <2> DEFINE t == context'
  <2>1. /\ t \in Seq(Message) /\ Len(s) <= Len(t) /\ Len(s) \in 0..Len(s)
        /\ \A i \in 1..Len(s) : t[i] = s[i]
    BY <1>1
  <2> HIDE DEF t
  <2>2. AnsweredTo(t, Len(s))
    BY <2>1, StillAnswered
  <2> QED BY <2>2 DEF t
<1> QED BY <1>1, <1>2

\* The turn ends: the results of the reply follow it.
LEMMA BatchAnswered ==
  ASSUME IInv, ContextInv, AnsweredInv, BatchOver
  PROVE  AnsweredTo(messages, Len(messages))
<1> DEFINE n == Len(context)
<1>1. /\ messages = context \o Results
      /\ context # <<>> /\ context[n] = reply /\ AnsweredTo(context, n - 1)
  BY DEF BatchOver, ContextInv, AnsweredInv, InBatch
<1>2. /\ messages \in Seq(Message) /\ context \in Seq(Message) /\ Results \in Seq(Message)
      /\ n \in Nat \ {0} /\ posted \in Nat /\ Len(Results) = posted
      /\ \A i \in 1..posted : Results[i] = Result(reply.batch, i)
  <2>1. posted \in Nat
    BY AgentAssumption DEF IInv, TypeOK, BatchTypeOK
  <2> QED BY <1>1, <2>1, Sequences, EmptySeq DEF Results
<1>3. /\ Len(messages) = n + posted
      /\ \A i \in 1..n : messages[i] = context[i]
      /\ \A i \in 1..posted : messages[n + i] = Result(reply.batch, i)
  <2>1. \A i \in 1..n + posted :
          messages[i] = IF i <= n THEN context[i] ELSE Results[i - n]
    BY <1>1, <1>2, ConcatProperties
  <2>2. Len(messages) = n + posted
    BY <1>1, <1>2, ConcatProperties
  <2>3. ASSUME NEW i \in 1..posted PROVE messages[n + i] = Result(reply.batch, i)
    <3>1. n + i \in 1..n + posted /\ ~(n + i <= n) /\ (n + i) - n = i
      BY <1>2
    <3> QED BY <1>2, <2>1, <3>1
  <2> QED BY <1>2, <2>1, <2>2, <2>3
<1> HIDE DEF n
<1>4. AnsweredTo(messages, n - 1)
  <2>1. /\ Len(context) <= Len(messages) /\ n - 1 \in 0..Len(context)
        /\ \A i \in 1..Len(context) : messages[i] = context[i]
    BY <1>2, <1>3 DEF n
  <2> QED BY <1>1, <1>2, <2>1, StillAnswered
<1>5. /\ reply.role = "assistant"
      /\ reply.stop = "stop" => reply.calls = posted
  <2>1. reply \in AssistantMessage
    BY DEF IInv, TypeOK, LoopTypeOK
  <2>2. reply.role = "assistant" /\ reply.calls \in Nat
    BY <2>1, AgentAssumption DEF AssistantMessage
  <2>3. ASSUME pc = "replied", Batch = {}, reply.stop = "stop" PROVE reply.calls = posted
    <3>1. reply.calls = 0
      BY <2>2, <2>3 DEF Batch, Failed
    <3>2. posted = 0
      BY <2>3 DEF IInv, BatchInv
    <3> QED BY <3>1, <3>2
  <2> QED BY <2>2, <2>3 DEF BatchOver
<1>6. Answered(messages, n)
  <2>1. messages[n] = reply
    BY <1>1, <1>2, <1>3 DEF n
  <2>2. \A i \in 1..posted : n + i \in 1..Len(messages)
    BY <1>2, <1>3
  <2> QED BY <1>3, <1>5, <2>1, <2>2 DEF Answered
<1>7. ASSUME NEW i \in 1..posted PROVE Answered(messages, n + i)
  <2>1. messages[n + i] = Result(reply.batch, i)
    BY <1>3
  <2>2. /\ messages[n + i].role = "toolResult" /\ messages[n + i].call = i
        /\ messages[n + i].batch = reply.batch
    BY <2>1 DEF Result
  <2>3. (n + i) - i = n /\ n \in 1..Len(messages) /\ messages[n] = reply
    BY <1>1, <1>2, <1>3 DEF n
  <2> QED BY <1>5, <2>2, <2>3 DEF Answered
<1>8. ASSUME NEW p \in 1..Len(messages) PROVE Answered(messages, p)
  <2>1. CASE p <= n - 1
    BY <1>2, <1>4, <2>1 DEF AnsweredTo
  <2>2. CASE p = n
    BY <1>6, <2>2
  <2>3. CASE p > n
    <3>1. p - n \in 1..posted /\ n + (p - n) = p
      BY <1>2, <1>3, <2>3
    <3> QED BY <1>7, <3>1
  <2> QED BY <1>2, <2>1, <2>2, <2>3
<1> QED BY <1>8 DEF AnsweredTo

\* Every undisturbed step keeps what is answered so.
LEMMA AnsweredStep ==
  ASSUME {"raise", "cancel", "reset"} \cap Disruptions = {},
         IInv, IInv', CalmInv, ContextInv, ContextInv', AnsweredInv, Next
  PROVE  AnsweredInv'
<1> USE DEF AnsweredInv, InBatch
<1>0. messages \in Seq(Message) /\ context \in Seq(Message)
  BY Sequences
<1>1. ASSUME UNCHANGED messages, pc \notin InBatch, pc' \notin InBatch
      PROVE  AnsweredInv'
  BY <1>1
<1>2. ASSUME UNCHANGED <<context, reply>>, pc \in InBatch, pc' \in InBatch
      PROVE  AnsweredInv'
  BY <1>2
<1>3. ASSUME NEW prompts \in Seq(UserMessage), NEW skip \in BOOLEAN,
             StartRun(prompts, skip)
      PROVE  AnsweredInv'
  BY <1>1, <1>3 DEF StartRun
<1>4. CASE FirstTurn \/ FirstPoll \/ DeliverStart \/ Request
  BY <1>1, <1>4 DEF FirstTurn, FirstPoll, DeliverStart, Request, stateVars
<1>5. CASE DeliverEnd
  <2>1. Head(outbox) \in UserMessage
    BY <1>5, HeadTailProperties DEF DeliverEnd, IInv, TypeOK, LoopTypeOK, LoopInv
  <2>2. Head(outbox) \in Message /\ Head(outbox).role = "user"
    BY <2>1, MessageTypes DEF UserMessage, UserOf
  <2>3. messages' = Append(messages, Head(outbox)) /\ pc' \notin InBatch /\ pc \notin InBatch
    BY <1>5 DEF DeliverEnd
  <2> QED BY <1>0, <2>2, <2>3, AnsweredAppend
<1>6. CASE StreamStart \/ StreamUpdate \/ ReplyStart
  BY <1>1, <1>6 DEF StreamStart, StreamUpdate, ReplyStart
<1>7. CASE StreamDone
  <2> PICK r \in Replies :
        context' = [context EXCEPT ![Len(context)] = r] /\ reply' = r
    BY <1>7 DEF StreamDone
  <2>1. r \in Message /\ Partial \in Message
    BY RepliesType, FixedReplies, MessageTypes DEF IInv, TypeOK, RestTypeOK
  <2>2. context = Append(messages, Partial)
    BY <1>7 DEF StreamDone, ContextInv
  <2>3. context' = Append(messages, r)
    BY <1>0, <2>1, <2>2, LastReplaced
  <2>4. AnsweredTo(messages, Len(messages)) /\ pc' \in InBatch
    BY <1>7 DEF StreamDone
  <2> QED BY <1>0, <2>1, <2>3, <2>4, ReplyLast
<1>8. CASE ReplyEnd
  <2>1. reply \in Message
    BY MessageTypes DEF IInv, TypeOK, LoopTypeOK
  <2>2. context' = Append(messages, reply) /\ reply' = reply
    BY <1>8 DEF ReplyEnd, ContextInv
  <2>3. AnsweredTo(messages, Len(messages)) /\ pc' \in InBatch
    BY <1>8 DEF ReplyEnd
  <2> QED BY <1>0, <2>1, <2>2, <2>3, ReplyLast
<1>9. ASSUME NEW i \in Calls,
             \/ ToolStart(i) \/ RejectCall(i) \/ AcceptCall(i) \/ SequentialEnd(i)
      PROVE  AnsweredInv'
  BY <1>2, <1>9 DEF ToolStart, RejectCall, AcceptCall, SequentialEnd, FinishCall,
                    stateVars, loopVars
<1>10. ASSUME UNCHANGED <<messages, context, reply, pc>> PROVE AnsweredInv'
  BY <1>10
<1>11. ASSUME NEW i \in Calls, TaskEnd(i) \/ TaskReturn(i) PROVE AnsweredInv'
  BY <1>10, <1>11 DEF TaskEnd, TaskReturn, FinishCall, stateVars, loopVars
<1>12. CASE ResultStart \/ ResultEnd
  BY <1>2, <1>12 DEF ResultStart, ResultEnd, loopVars, batchVars
<1>13. CASE TurnEnd
  BY <1>13, BatchAnswered DEF TurnEnd, stateVars
<1>14. CASE NextTurn \/ FollowUpTurn \/ AgentEnd
  BY <1>1, <1>14 DEF NextTurn, FollowUpTurn, BeginTurn, AgentEnd, stateVars
<1>15. CASE Finish
  BY <1>1, <1>15 DEF Finish, LeaveRun, BecomeIdle
<1>16. ~Cancel
  BY DEF Cancel
<1>17. ASSUME NEW c \in orphans, OrphanEnd(c) PROVE AnsweredInv'
  BY <1>10, <1>17 DEF OrphanEnd, loopVars, batchVars
<1>18. CASE Steer \/ FollowUp \/ ClearQueues \/ Abort
  BY <1>10, <1>18 DEF Steer, FollowUp, ClearQueues, Abort, stateVars, loopVars
<1>19. ASSUME NEW q \in {"steer", "followUp"}, NEW m \in Modes, SetMode(q, m)
       PROVE  AnsweredInv'
  BY <1>10, <1>19 DEF SetMode, stateVars, loopVars
<1>20. ASSUME NEW w \in Waiters, WaitForIdle(w) \/ CancelWaiter(w) \/ WaiterReturns(w)
       PROVE  AnsweredInv'
  BY <1>10, <1>20 DEF WaitForIdle, CancelWaiter, WaiterReturns, stateVars, loopVars
<1> QED
  BY <1>3, <1>4, <1>5, <1>6, <1>7, <1>8, <1>9, <1>11, <1>12, <1>13, <1>14, <1>15,
     <1>16, <1>17, <1>18, <1>19, <1>20, RunStarts, CalmCases

\* In an undisturbed agent every request is well formed: the calls of each
\* reply that did not fail are answered right behind it, each once and in their
\* order, in whatever order the tools ended; and no result stands alone.
THEOREM RequestsWellFormed ==
  ASSUME {"raise", "cancel", "reset"} \cap Disruptions = {}
  PROVE  SafeSpec => []RequestWellFormed
<1>1. Init => AnsweredInv
  BY DEF Init, AnsweredInv, AnsweredTo, InBatch
<1>2. IInv /\ IInv' /\ CalmInv /\ ContextInv /\ ContextInv' /\ AnsweredInv /\ [Next]_vars
        => AnsweredInv'
  <2>1. ASSUME AnsweredInv, UNCHANGED vars PROVE AnsweredInv'
    BY <2>1 DEF AnsweredInv, vars, stateVars, loopVars
  <2> QED BY <2>1, AnsweredStep
<1>3. IInv /\ ContextInv /\ AnsweredInv => RequestWellFormed
  <2>1. IInv => DOMAIN context = 1..Len(context)
    BY Sequences, LenProperties
  <2>2. pc = "request" => pc \notin InBatch /\ pc \in BetweenReplies /\ pc # "started"
    BY DEF InBatch, BetweenReplies
  <2>3. ContextInv /\ pc = "request" => context = messages
    BY <2>2 DEF ContextInv
  <2> QED BY <2>1, <2>2, <2>3 DEF AnsweredInv, AnsweredTo, Answered, RequestWellFormed
<1>4. "reset" \notin Disruptions /\ {"raise", "reset"} \cap Disruptions = {}
  OBVIOUS
<1>5. SafeSpec => []CalmInv
  BY <1>4, CalmKept
<1>6. SafeSpec => []ContextInv
  BY <1>4, ContextKept
<1> QED BY Inductive, <1>1, <1>2, <1>3, <1>5, <1>6, PTL DEF SafeSpec

-----------------------------------------------------------------------------
(***************************************************************************)
(* The way of the user messages, from a queue through the outbox to the    *)
(* transcript.  Each of the four sequences holds the messages of a kind in *)
(* the order of their submission, and what stands nearer to the transcript *)
(* was submitted before what comes behind it.                              *)
(***************************************************************************)
Earlier(l, m) ==
  l.role = "user" /\ m.role = "user" /\ l.kind = m.kind => l.id < m.id

Ordered(s) == \A i, j \in 1..Len(s) : i < j => Earlier(s[i], s[j])
Before(s, t) == \A i \in 1..Len(s), j \in 1..Len(t) : Earlier(s[i], t[j])
UpTo(s, n) == \A i \in 1..Len(s) : s[i].role = "user" => s[i].id <= n

OrderInv ==
  /\ Ordered(messages) /\ UpTo(messages, submitted)
  /\ Ordered(outbox) /\ UpTo(outbox, submitted)
  /\ Ordered(steeringQueue) /\ UpTo(steeringQueue, submitted)
  /\ Ordered(followUpQueue) /\ UpTo(followUpQueue, submitted)
  /\ Before(messages, outbox)
  /\ Before(messages, steeringQueue) /\ Before(messages, followUpQueue)
  /\ Before(outbox, steeringQueue) /\ Before(outbox, followUpQueue)

\* An empty sequence is in order with any other.
LEMMA NoneBefore ==
  /\ Ordered(<<>>)
  /\ \A s, n : Before(s, <<>>) /\ Before(<<>>, s) /\ UpTo(<<>>, n)
BY DEF Ordered, Before, UpTo

\* What is appended to the transcript by the loop is not a user message.
LEMMA OthersAppended ==
  ASSUME NEW s \in Seq(Message), NEW m \in Message, m.role # "user"
  PROVE  /\ Ordered(s) => Ordered(Append(s, m))
         /\ \A t : Before(s, t) => Before(Append(s, m), t)
         /\ \A n : UpTo(s, n) => UpTo(Append(s, m), n)
<1> DEFINE a == Append(s, m)
<1>1. /\ Len(s) \in Nat /\ Len(a) = Len(s) + 1 /\ a[Len(s) + 1] = m
      /\ \A i \in 1..Len(s) : a[i] = s[i]
  BY AppendProperties, LenProperties
<1> HIDE DEF a
<1>2. \A i \in 1..Len(a) : i \in 1..Len(s) \/ a[i].role # "user"
  BY <1>1
<1>3. Ordered(s) => Ordered(a)
  BY <1>1, <1>2 DEF Ordered, Earlier
<1>4. ASSUME NEW t, Before(s, t) PROVE Before(a, t)
  BY <1>1, <1>2, <1>4 DEF Before, Earlier
<1>5. ASSUME NEW n, UpTo(s, n) PROVE UpTo(a, n)
  BY <1>1, <1>2, <1>5 DEF UpTo
<1> QED BY <1>3, <1>4, <1>5 DEF a

\* A message has an id that is a number; the bound on ids can be raised.
LEMMA IdsAreNumbers ==
  /\ \A m \in Message : m.role = "user" => m.id \in Nat
  /\ \A s \in Seq(Message) : \A i \in 1..Len(s) : s[i] \in Message
<1>1. \A m \in Message : m.role = "user" => m.id \in Nat
  BY DEF Message, UserMessage, UserOf, AssistantMessage, ToolResultMessage
<1>2. \A s \in Seq(Message) : \A i \in 1..Len(s) : s[i] \in Message
  BY ElementOfSeq
<1> QED BY <1>1, <1>2

\* Messages numbered up to n are numbered up to any larger number.
LEMMA LaterUpTo ==
  ASSUME NEW s \in Seq(Message), NEW n \in Nat, NEW l \in Nat, n <= l, UpTo(s, n)
  PROVE  UpTo(s, l)
BY IdsAreNumbers DEF UpTo

\* A message submitted now comes after all that were submitted before.
LEMMA NewestAppended ==
  ASSUME NEW s \in Seq(Message), NEW m \in UserMessage, NEW n \in Nat,
         m.id = n + 1, UpTo(s, n)
  PROVE  /\ Ordered(s) => Ordered(Append(s, m))
         /\ UpTo(Append(s, m), n + 1)
         /\ \A t \in Seq(Message) :
              Before(t, s) /\ UpTo(t, n) => Before(t, Append(s, m))
<1> DEFINE a == Append(s, m)
<1>1. /\ Len(s) \in Nat /\ Len(a) = Len(s) + 1 /\ a[Len(s) + 1] = m
      /\ \A i \in 1..Len(s) : a[i] = s[i]
  BY AppendProperties, LenProperties, MessageTypes
<1> HIDE DEF a
<1>2. \A i \in 1..Len(a) : i \in 1..Len(s) \/ i = Len(s) + 1
  BY <1>1
<1>3. \A t \in Seq(Message) : UpTo(t, n) => \A i \in 1..Len(t) : Earlier(t[i], m)
  BY IdsAreNumbers DEF UpTo, Earlier
<1>4. Ordered(s) => Ordered(a)
  BY <1>1, <1>2, <1>3 DEF Ordered
<1>5. UpTo(a, n + 1)
  BY <1>1, <1>2, IdsAreNumbers DEF UpTo
<1>6. ASSUME NEW t \in Seq(Message), Before(t, s), UpTo(t, n) PROVE Before(t, a)
  BY <1>1, <1>2, <1>3, <1>6 DEF Before
<1> QED BY <1>4, <1>5, <1>6 DEF a

\* The head of the outbox goes to the end of the transcript.
LEMMA HeadDelivered ==
  ASSUME NEW s \in Seq(Message), NEW t \in Seq(Message), t # <<>>,
         Ordered(s), Ordered(t), Before(s, t)
  PROVE  /\ Ordered(Append(s, Head(t))) /\ Ordered(Tail(t))
         /\ Before(Append(s, Head(t)), Tail(t))
         /\ \A u : Before(t, u) => Before(Tail(t), u)
         /\ \A u : Before(s, u) /\ Before(t, u) => Before(Append(s, Head(t)), u)
         /\ \A n : UpTo(t, n) => UpTo(Tail(t), n)
         /\ \A n : UpTo(s, n) /\ UpTo(t, n) => UpTo(Append(s, Head(t)), n)
<1> DEFINE a == Append(s, Head(t))
           r == Tail(t)
<1>1. /\ Head(t) \in Message /\ Head(t) = t[1] /\ Len(t) \in Nat \ {0}
      /\ Len(r) = Len(t) - 1 /\ \A i \in 1..Len(r) : r[i] = t[i + 1]
  BY HeadTailProperties, EmptySeq
<1>2. /\ Len(s) \in Nat /\ Len(a) = Len(s) + 1 /\ a[Len(s) + 1] = t[1]
      /\ \A i \in 1..Len(s) : a[i] = s[i]
  BY <1>1, AppendProperties, LenProperties
<1> HIDE DEF a, r
<1>3. \A i \in 1..Len(a) : i \in 1..Len(s) \/ i = Len(s) + 1
  BY <1>2
<1>4. \A i \in 1..Len(r) : i + 1 \in 1..Len(t) /\ 1 < i + 1
  BY <1>1
<1>5. 1 \in 1..Len(t)
  BY <1>1
<1>6. Ordered(a)
  BY <1>2, <1>3, <1>5 DEF Ordered, Before
<1>7. Ordered(r)
  <2> SUFFICES ASSUME NEW i \in 1..Len(r), NEW j \in 1..Len(r), i < j
               PROVE  Earlier(r[i], r[j])
    BY DEF Ordered
  <2> QED BY <1>1, <1>4 DEF Ordered
<1>8. Before(a, r)
  BY <1>1, <1>2, <1>3, <1>4, <1>5 DEF Ordered, Before
<1>9. ASSUME NEW u, Before(t, u) PROVE Before(r, u)
  BY <1>1, <1>4, <1>9 DEF Before
<1>10. ASSUME NEW u, Before(s, u), Before(t, u) PROVE Before(a, u)
  BY <1>2, <1>3, <1>5, <1>10 DEF Before
<1>11. ASSUME NEW n, UpTo(t, n) PROVE UpTo(r, n)
  BY <1>1, <1>4, <1>11 DEF UpTo
<1>12. ASSUME NEW n, UpTo(s, n), UpTo(t, n) PROVE UpTo(a, n)
  BY <1>2, <1>3, <1>5, <1>12 DEF UpTo
<1> QED BY <1>6, <1>7, <1>8, <1>9, <1>10, <1>11, <1>12 DEF a, r

\* What a drain takes was submitted before what it leaves.
LEMMA DrainOrdered ==
  ASSUME NEW q \in Seq(Message), NEW md, Ordered(q)
  PROVE  LET d == Drained(md, q)
             r == Remaining(md, q)
         IN  /\ Ordered(d) /\ Ordered(r) /\ Before(d, r)
             /\ \A s : Before(s, q) => Before(s, d) /\ Before(s, r)
             /\ \A n : UpTo(q, n) => UpTo(d, n) /\ UpTo(r, n)
<1>1. CASE q = <<>> \/ md = "all"
  BY <1>1, NoneBefore DEF Drained, Remaining
<1>2. CASE ~(q = <<>> \/ md = "all")
  <2> DEFINE d == <<Head(q)>>
             r == Tail(q)
  <2>1. Drained(md, q) = d /\ Remaining(md, q) = r
    BY <1>2 DEF Drained, Remaining
  <2>2. /\ Head(q) = q[1] /\ Len(q) \in Nat \ {0}
        /\ Len(r) = Len(q) - 1 /\ \A i \in 1..Len(r) : r[i] = q[i + 1]
    BY <1>2, HeadTailProperties, EmptySeq
  <2>3. Len(d) = 1 /\ d[1] = q[1]
    BY <2>2
  <2> HIDE DEF d, r
  <2>4. \A i \in 1..Len(r) : i + 1 \in 1..Len(q) /\ 1 < i + 1
    BY <2>2
  <2>5. 1 \in 1..Len(q) /\ \A i \in 1..Len(d) : i = 1
    BY <2>2, <2>3
  <2>6. Ordered(d)
    BY <2>3, <2>5 DEF Ordered
  <2>7. Ordered(r)
    <3> SUFFICES ASSUME NEW i \in 1..Len(r), NEW j \in 1..Len(r), i < j
                 PROVE  Earlier(r[i], r[j])
      BY DEF Ordered
    <3> QED BY <2>2, <2>4 DEF Ordered
  <2>8. Before(d, r)
    BY <2>2, <2>3, <2>4, <2>5 DEF Ordered, Before
  <2>9. ASSUME NEW s, Before(s, q) PROVE Before(s, d) /\ Before(s, r)
    BY <2>2, <2>3, <2>4, <2>5, <2>9 DEF Before
  <2>10. ASSUME NEW n, UpTo(q, n) PROVE UpTo(d, n) /\ UpTo(r, n)
    BY <2>2, <2>3, <2>4, <2>5, <2>10 DEF UpTo
  <2> QED BY <2>1, <2>6, <2>7, <2>8, <2>9, <2>10
<1> QED BY <1>1, <1>2

\* Messages of different kinds need not be in order.
LEMMA KindsApart ==
  ASSUME NEW s \in Seq(UserMessage), NEW t \in Seq(UserMessage),
         \A i \in 1..Len(s), j \in 1..Len(t) : s[i].kind # t[j].kind
  PROVE  Before(s, t)
BY DEF Before, Earlier

\* The four sequences, and the kinds of the queued messages.
LEMMA WaySequences ==
  ASSUME IInv
  PROVE  /\ messages \in Seq(Message) /\ submitted \in Nat
         /\ outbox \in Seq(UserMessage) /\ outbox \in Seq(Message)
         /\ steeringQueue \in Seq(UserMessage) /\ steeringQueue \in Seq(Message)
         /\ followUpQueue \in Seq(UserMessage) /\ followUpQueue \in Seq(Message)
         /\ steeringQueue \in Seq(UserOf({"steer"}))
         /\ followUpQueue \in Seq(UserOf({"followUp"}))
BY UserSeq, AgentAssumption
   DEF IInv, TypeOK, StateTypeOK, QueueTypeOK, LoopTypeOK, RestTypeOK

\* A queue's messages are of its kind.
LEMMA QueueKinds ==
  ASSUME NEW k, NEW q \in Seq(UserOf({k}))
  PROVE  \A i \in 1..Len(q) : q[i].role = "user" /\ q[i].kind = k
<1>1. \A i \in 1..Len(q) : q[i] \in UserOf({k})
  BY ElementOfSeq
<1> QED BY <1>1 DEF UserOf

\* What is drained from a queue goes into an empty outbox.
LEMMA DrainKeepsOrder ==
  ASSUME IInv, OrderInv, NEW md, messages' = messages, submitted' = submitted,
         \/ /\ outbox' = Drained(md, steeringQueue)
            /\ steeringQueue' = Remaining(md, steeringQueue)
            /\ followUpQueue' = followUpQueue
         \/ /\ outbox' = Drained(md, followUpQueue)
            /\ followUpQueue' = Remaining(md, followUpQueue)
            /\ steeringQueue' = steeringQueue
  PROVE  OrderInv'
<1> USE WaySequences
<1>1. CASE /\ outbox' = Drained(md, steeringQueue)
           /\ steeringQueue' = Remaining(md, steeringQueue)
           /\ followUpQueue' = followUpQueue
  <2>1. outbox' \in Seq(UserOf({"steer"}))
    BY <1>1, DrainType
  <2>2. outbox' \in Seq(UserMessage)
    BY <2>1, UserSeq
  <2>3. Before(outbox', followUpQueue)
    <3>1. \A i \in 1..Len(outbox') : outbox'[i].kind = "steer"
      BY <2>1, QueueKinds
    <3>2. \A i \in 1..Len(followUpQueue) : followUpQueue[i].kind = "followUp"
      BY QueueKinds
    <3> QED BY <2>2, <3>1, <3>2, KindsApart
  <2> QED BY <1>1, <2>3, DrainOrdered DEF OrderInv
<1>2. CASE /\ outbox' = Drained(md, followUpQueue)
           /\ followUpQueue' = Remaining(md, followUpQueue)
           /\ steeringQueue' = steeringQueue
  <2>1. outbox' \in Seq(UserOf({"followUp"}))
    BY <1>2, DrainType
  <2>2. outbox' \in Seq(UserMessage)
    BY <2>1, UserSeq
  <2>3. Before(outbox', steeringQueue)
    <3>1. \A i \in 1..Len(outbox') : outbox'[i].kind = "followUp"
      BY <2>1, QueueKinds
    <3>2. \A i \in 1..Len(steeringQueue) : steeringQueue[i].kind = "steer"
      BY QueueKinds
    <3> QED BY <2>2, <3>1, <3>2, KindsApart
  <2> QED BY <1>2, <2>3, DrainOrdered DEF OrderInv
<1> QED BY <1>1, <1>2

\* Every step of the agent keeps the messages in order.
LEMMA OrderStep ==
  ASSUME IInv, OrderInv, Next
  PROVE  OrderInv'
<1> USE WaySequences
<1>1. ASSUME UNCHANGED <<messages, outbox, steeringQueue, followUpQueue, submitted>>
      PROVE  OrderInv'
  BY <1>1 DEF OrderInv
<1>2. ASSUME NEW m \in Message, m.role # "user", messages' = Append(messages, m),
             outbox' = outbox \/ outbox' = <<>>,
             UNCHANGED <<steeringQueue, followUpQueue, submitted>>
      PROVE  OrderInv'
  <2>1. /\ Ordered(messages') /\ UpTo(messages', submitted)
        /\ \A t : Before(messages, t) => Before(messages', t)
    BY <1>2, OthersAppended DEF OrderInv
  <2>2. CASE outbox' = outbox
    BY <1>2, <2>1, <2>2 DEF OrderInv
  <2>3. CASE outbox' = <<>>
    BY <1>2, <2>1, <2>3, NoneBefore DEF OrderInv
  <2> QED BY <1>2, <2>2, <2>3
<1>3. CASE Prompt
  <2> PICK n \in 1..2 :
        /\ outbox' = [i \in 1..n |-> User("prompt", submitted + i)]
        /\ submitted' = submitted + n
        /\ UNCHANGED <<messages, steeringQueue, followUpQueue>>
    BY <1>3 DEF Prompt, StartRun
  <2>1. /\ Len(outbox') = n
        /\ \A i \in 1..n : /\ outbox'[i].id = submitted + i
                           /\ outbox'[i].role = "user" /\ outbox'[i].kind = "prompt"
    BY DEF User
  <2>2. Ordered(outbox') /\ UpTo(outbox', submitted')
    BY <2>1 DEF Ordered, UpTo, Earlier
  <2>3. \A t \in Seq(Message) : UpTo(t, submitted) => UpTo(t, submitted')
    BY LaterUpTo
  <2>4. Before(messages, outbox')
    BY <2>1, IdsAreNumbers DEF OrderInv, UpTo, Before, Earlier
  <2>5. Before(outbox', steeringQueue) /\ Before(outbox', followUpQueue)
    <3>1. /\ \A i \in 1..Len(steeringQueue) : steeringQueue[i].kind = "steer"
          /\ \A i \in 1..Len(followUpQueue) : followUpQueue[i].kind = "followUp"
      BY QueueKinds
    <3> QED BY <2>1, <3>1 DEF Before, Earlier
  <2> QED BY <2>2, <2>3, <2>4, <2>5 DEF OrderInv
<1>4. CASE ContinueWithSteering
  <2>1. /\ outbox' = Drained(mode["steer"], steeringQueue)
        /\ steeringQueue' = Remaining(mode["steer"], steeringQueue)
        /\ UNCHANGED <<messages, followUpQueue, submitted>>
    BY <1>4 DEF ContinueWithSteering, StartRun
  <2> QED BY <2>1, DrainKeepsOrder
<1>5. CASE ContinueWithFollowUp
  <2>1. /\ outbox' = Drained(mode["followUp"], followUpQueue)
        /\ followUpQueue' = Remaining(mode["followUp"], followUpQueue)
        /\ UNCHANGED <<messages, steeringQueue, submitted>>
    BY <1>5 DEF ContinueWithFollowUp, StartRun
  <2> QED BY <2>1, DrainKeepsOrder
<1>6. CASE ContinueRun
  BY <1>6, NoneBefore DEF ContinueRun, StartRun, OrderInv
<1>7. CASE FirstPoll
  <2>1. CASE skipPoll
    BY <1>1, <1>7, <2>1 DEF FirstPoll, stateVars, restVars
  <2>2. CASE ~skipPoll
    <3>1. /\ outbox' = Drained(mode["steer"], steeringQueue)
          /\ steeringQueue' = Remaining(mode["steer"], steeringQueue)
          /\ UNCHANGED <<messages, followUpQueue, submitted>>
      BY <1>7, <2>2 DEF FirstPoll, stateVars, restVars
    <3> QED BY <3>1, DrainKeepsOrder
  <2> QED BY <2>1, <2>2
<1>8. CASE DeliverEnd
  <2>1. /\ outbox # <<>> /\ messages' = Append(messages, Head(outbox))
        /\ outbox' = Tail(outbox)
        /\ UNCHANGED <<steeringQueue, followUpQueue, submitted>>
    BY <1>8 DEF DeliverEnd, queueVars, restVars, IInv, LoopInv
  <2> QED BY <2>1, HeadDelivered DEF OrderInv
<1>9. CASE StreamDone
  <2> PICK r \in Replies : messages' = Append(messages, r)
    BY <1>9 DEF StreamDone
  <2>1. r \in Message /\ r.role = "assistant"
    BY RepliesType, MessageTypes DEF IInv, TypeOK, RestTypeOK, AssistantMessage
  <2> QED BY <1>2, <1>9, <2>1 DEF StreamDone, queueVars
<1>10. CASE ReplyEnd
  <2>1. reply \in Message /\ reply.role = "assistant"
    BY MessageTypes DEF IInv, TypeOK, LoopTypeOK, AssistantMessage
  <2> QED BY <1>2, <1>10, <2>1 DEF ReplyEnd, queueVars, restVars
<1>11. CASE ResultEnd
  <2>1. /\ Result(reply.batch, posted + 1) \in Message
        /\ Result(reply.batch, posted + 1).role = "toolResult"
    BY <1>11, ResultsType DEF ResultEnd, IInv, Result
  <2> QED BY <1>2, <1>11, <2>1 DEF ResultEnd, queueVars, loopVars, restVars
<1>12. CASE NextTurn
  BY <1>12, DrainKeepsOrder DEF NextTurn, BeginTurn, stateVars, restVars
<1>13. CASE FollowUpTurn
  BY <1>13, DrainKeepsOrder DEF FollowUpTurn, BeginTurn, stateVars, restVars
<1>14. CASE FailRun
  <2> DEFINE m == Assistant(0, 0, IF aborted THEN "aborted" ELSE "error")
  <2>1. m \in Message /\ m.role = "assistant"
    BY FixedReplies, MessageTypes DEF Assistant, Stops
  <2>2. messages' = Append(messages, m) /\ outbox' = <<>>
    BY <1>14 DEF FailRun, LeaveLoop
  <2> HIDE DEF m
  <2> QED BY <1>2, <1>14, <2>1, <2>2 DEF FailRun, queueVars
<1>15. CASE LeaveRun
  BY <1>15, NoneBefore DEF LeaveRun, LeaveLoop, queueVars, OrderInv
<1>16. CASE Steer
  <2> DEFINE m == User("steer", submitted + 1)
  <2>1. m \in UserMessage /\ m.id = submitted + 1 /\ m.kind = "steer"
    BY DEF User, UserMessage, UserOf, Kinds
  <2>2. /\ steeringQueue' = Append(steeringQueue, m) /\ submitted' = submitted + 1
        /\ UNCHANGED <<messages, outbox, followUpQueue>>
    BY <1>16 DEF Steer, stateVars, loopVars
  <2> HIDE DEF m
  <2>3. \A t \in Seq(Message) : UpTo(t, submitted) => UpTo(t, submitted')
    BY <2>2, LaterUpTo
  <2> QED BY <2>1, <2>2, <2>3, NewestAppended DEF OrderInv
<1>17. CASE FollowUp
  <2> DEFINE m == User("followUp", submitted + 1)
  <2>1. m \in UserMessage /\ m.id = submitted + 1 /\ m.kind = "followUp"
    BY DEF User, UserMessage, UserOf, Kinds
  <2>2. /\ followUpQueue' = Append(followUpQueue, m) /\ submitted' = submitted + 1
        /\ UNCHANGED <<messages, outbox, steeringQueue>>
    BY <1>17 DEF FollowUp, stateVars, loopVars
  <2> HIDE DEF m
  <2>3. \A t \in Seq(Message) : UpTo(t, submitted) => UpTo(t, submitted')
    BY <2>2, LaterUpTo
  <2> QED BY <2>1, <2>2, <2>3, NewestAppended DEF OrderInv
<1>18. CASE ClearQueues
  BY <1>18, NoneBefore DEF ClearQueues, stateVars, loopVars, restVars, OrderInv
<1>19. CASE Reset
  BY <1>19, NoneBefore DEF Reset, loopVars, restVars, OrderInv
<1>20. CASE \/ FirstTurn \/ DeliverStart \/ Request \/ StreamStart \/ StreamUpdate
            \/ ReplyStart \/ ResultStart \/ TurnEnd \/ AgentEnd \/ Abort
  BY <1>1, <1>20
     DEF FirstTurn, DeliverStart, Request, StreamStart, StreamUpdate, ReplyStart,
         ResultStart, TurnEnd, AgentEnd, Abort, stateVars, queueVars, loopVars, restVars
<1>21. ASSUME NEW i \in Calls,
              \/ ToolStart(i) \/ RejectCall(i) \/ AcceptCall(i)
              \/ SequentialEnd(i) \/ TaskEnd(i) \/ TaskReturn(i)
       PROVE  OrderInv'
  BY <1>1, <1>21
     DEF ToolStart, RejectCall, AcceptCall, SequentialEnd, TaskEnd, TaskReturn,
         FinishCall, stateVars, queueVars, loopVars, restVars
<1>22. ASSUME NEW c \in orphans, OrphanEnd(c) PROVE OrderInv'
  BY <1>1, <1>22 DEF OrphanEnd, queueVars, loopVars
<1>23. ASSUME NEW q \in {"steer", "followUp"}, NEW m \in Modes, SetMode(q, m)
       PROVE  OrderInv'
  BY <1>1, <1>23 DEF SetMode, stateVars, loopVars, restVars
<1>24. ASSUME NEW w \in Waiters, WaitForIdle(w) \/ CancelWaiter(w) \/ WaiterReturns(w)
       PROVE  OrderInv'
  BY <1>1, <1>24 DEF WaitForIdle, CancelWaiter, WaiterReturns, stateVars, queueVars, loopVars
<1> QED
  BY <1>3, <1>4, <1>5, <1>6, <1>7, <1>8, <1>9, <1>10, <1>11, <1>12, <1>13, <1>14,
     <1>15, <1>16, <1>17, <1>18, <1>19, <1>20, <1>21, <1>22, <1>23, <1>24, NextCases

\* An element of a concatenation is one of either sequence.
LEMMA ConcatPlaces ==
  ASSUME NEW S, NEW s \in Seq(S), NEW t \in Seq(S), NEW i \in DOMAIN (s \o t)
  PROVE  \/ i \in 1..Len(s) /\ (s \o t)[i] = s[i]
         \/ \E j \in 1..Len(t) : i = Len(s) + j /\ (s \o t)[i] = t[j]
<1> DEFINE w == s \o t
<1>1. /\ w \in Seq(S) /\ Len(w) = Len(s) + Len(t) /\ Len(s) \in Nat /\ Len(t) \in Nat
      /\ \A p \in 1..Len(w) : w[p] = IF p <= Len(s) THEN s[p] ELSE t[p - Len(s)]
  BY ConcatProperties, LenProperties
<1>2. i \in 1..Len(w)
  BY <1>1, LenProperties
<1> HIDE DEF w
<1>3. CASE i <= Len(s)
  BY <1>1, <1>2, <1>3 DEF w
<1>4. CASE i > Len(s)
  <2> DEFINE j == i - Len(s)
  <2>1. j \in 1..Len(t) /\ i = Len(s) + j
    BY <1>1, <1>2, <1>4
  <2>2. w[i] = t[j]
    BY <1>1, <1>2, <1>4
  <2> QED BY <2>1, <2>2 DEF w
<1> QED BY <1>1, <1>2, <1>3, <1>4

\* A user message stands on its way in one of the three sequences.
LEMMA WayPlaces ==
  ASSUME IInv, NEW k \in Kinds, NEW i \in DOMAIN Way(k)
  PROVE  \/ i \in 1..Len(messages) /\ Way(k)[i] = messages[i]
         \/ \E j \in 1..Len(outbox) :
              i = Len(messages) + j /\ Way(k)[i] = outbox[j]
         \/ \E j \in 1..Len(Queue(k)) :
              i = Len(messages) + Len(outbox) + j /\ Way(k)[i] = Queue(k)[j]
<1>1. /\ messages \in Seq(Message) /\ outbox \in Seq(Message) /\ Queue(k) \in Seq(Message)
  BY WaySequences DEF Queue
<1> DEFINE s == messages \o outbox
<1>2. s \in Seq(Message) /\ Len(s) = Len(messages) + Len(outbox)
  BY <1>1, ConcatProperties
<1>3. Way(k) = s \o Queue(k)
  BY DEF Way
<1>4. \/ i \in 1..Len(s) /\ Way(k)[i] = s[i]
      \/ \E j \in 1..Len(Queue(k)) : i = Len(s) + j /\ Way(k)[i] = Queue(k)[j]
  <2> HIDE DEF s
  <2> QED BY <1>1, <1>2, <1>3, ConcatPlaces
<1>5. CASE i \in 1..Len(s) /\ Way(k)[i] = s[i]
  <2>1. i \in DOMAIN s
    BY <1>2, <1>5, LenProperties
  <2> QED BY <1>1, <1>5, <2>1, ConcatPlaces
<1> QED BY <1>2, <1>4, <1>5

\* What the invariant says of the sequences, said of the way.
LEMMA OrderOnWay ==
  ASSUME IInv, OrderInv
  PROVE  DeliveredInOrder
<1> SUFFICES ASSUME NEW k \in Kinds, NEW i \in OnWay(k), NEW j \in OnWay(k), i < j
             PROVE  Way(k)[i].id < Way(k)[j].id
  BY DEF DeliveredInOrder
<1>1. /\ i \in DOMAIN Way(k) /\ j \in DOMAIN Way(k)
      /\ Way(k)[i].role = "user" /\ Way(k)[i].kind = k
      /\ Way(k)[j].role = "user" /\ Way(k)[j].kind = k
  BY DEF OnWay
<1>2. /\ Ordered(messages) /\ Ordered(outbox) /\ Ordered(Queue(k))
      /\ Before(messages, outbox) /\ Before(messages, Queue(k)) /\ Before(outbox, Queue(k))
  BY NoneBefore DEF OrderInv, Queue
<1>3. /\ Len(messages) \in Nat /\ Len(outbox) \in Nat /\ Len(Queue(k)) \in Nat
  BY WaySequences, LenProperties DEF Queue
<1>4. Earlier(Way(k)[i], Way(k)[j])
  <2>1. CASE i \in 1..Len(messages) /\ Way(k)[i] = messages[i]
    BY <1>1, <1>2, <1>3, <2>1, WayPlaces DEF Ordered, Before
  <2>2. CASE \E l \in 1..Len(outbox) : i = Len(messages) + l /\ Way(k)[i] = outbox[l]
    BY <1>1, <1>2, <1>3, <2>2, WayPlaces DEF Ordered, Before
  <2>3. CASE \E l \in 1..Len(Queue(k)) :
               i = Len(messages) + Len(outbox) + l /\ Way(k)[i] = Queue(k)[l]
    BY <1>1, <1>2, <1>3, <2>3, WayPlaces DEF Ordered, Before
  <2> QED BY <1>1, <2>1, <2>2, <2>3, WayPlaces
<1> QED BY <1>1, <1>4 DEF Earlier

\* Whatever disturbs a run, the messages of a kind reach the transcript in
\* the order of their submission, and none twice.
THEOREM DeliveryInOrder == SafeSpec => []DeliveredInOrder
<1>1. Init => OrderInv
  BY NoneBefore DEF Init, OrderInv
<1>2. IInv /\ OrderInv /\ [Next]_vars => OrderInv'
  <2>1. ASSUME OrderInv, UNCHANGED vars PROVE OrderInv'
    BY <2>1 DEF OrderInv, vars, stateVars, queueVars, loopVars, restVars
  <2> QED BY <2>1, OrderStep
<1>3. IInv /\ OrderInv => DeliveredInOrder
  BY OrderOnWay
<1> QED BY Inductive, <1>1, <1>2, <1>3, PTL DEF SafeSpec

-----------------------------------------------------------------------------
(***************************************************************************)
(* Nothing is lost where nothing throws messages away.  A step moves user  *)
(* messages between the four sequences, or adds those it numbers.          *)
(***************************************************************************)
\* What the messages of a sequence are, as it grows, shrinks or is drained.
LEMMA HeldAppend ==
  ASSUME NEW S, NEW s \in Seq(S), NEW m \in S
  PROVE  MessagesOf(Append(s, m)) = MessagesOf(s) \cup {m}
<1> DEFINE a == Append(s, m)
<1>1. /\ Len(s) \in Nat /\ Len(a) = Len(s) + 1 /\ a[Len(s) + 1] = m
      /\ \A i \in 1..Len(s) : a[i] = s[i]
      /\ DOMAIN a = 1..Len(a) /\ DOMAIN s = 1..Len(s)
  BY AppendProperties, LenProperties
<1> HIDE DEF a
<1>2. \A i \in 1..Len(a) : i \in 1..Len(s) \/ i = Len(s) + 1
  BY <1>1
<1>3. 1..Len(s) \subseteq 1..Len(a) /\ Len(s) + 1 \in 1..Len(a)
  BY <1>1
<1>4. MessagesOf(a) = MessagesOf(s) \cup {m}
  BY <1>1, <1>2, <1>3 DEF MessagesOf
<1> QED BY <1>4 DEF a

\* The messages of a queue are its first one and those of the others.
LEMMA HeldHead ==
  ASSUME NEW S, NEW t \in Seq(S), t # <<>>
  PROVE  MessagesOf(t) = {Head(t)} \cup MessagesOf(Tail(t))
<1> DEFINE r == Tail(t)
<1>1. /\ Head(t) = t[1] /\ Len(t) \in Nat \ {0} /\ r \in Seq(S)
      /\ Len(r) = Len(t) - 1 /\ \A i \in 1..Len(r) : r[i] = t[i + 1]
  BY HeadTailProperties, EmptySeq
<1>2. DOMAIN t = 1..Len(t) /\ DOMAIN r = 1..Len(r)
  BY <1>1, LenProperties
<1> HIDE DEF r
<1>3. \A i \in 1..Len(r) : i + 1 \in 1..Len(t)
  BY <1>1
<1>4. ASSUME NEW i \in 1..Len(t), i # 1 PROVE \E j \in 1..Len(r) : t[i] = r[j]
  <2>1. PICK j \in 1..Len(r) : j + 1 = i
    <3>1. i - 1 \in 1..Len(r) /\ (i - 1) + 1 = i
      BY <1>1, <1>4
    <3> QED BY <3>1
  <2> QED BY <1>1, <2>1
<1>5. 1 \in 1..Len(t)
  BY <1>1
<1>6. MessagesOf(t) = {t[1]} \cup MessagesOf(r)
  <2>1. MessagesOf(t) \subseteq {t[1]} \cup MessagesOf(r)
    BY <1>2, <1>4 DEF MessagesOf
  <2>2. MessagesOf(r) \subseteq MessagesOf(t)
    BY <1>1, <1>2, <1>3 DEF MessagesOf
  <2>3. t[1] \in MessagesOf(t)
    BY <1>2, <1>5 DEF MessagesOf
  <2> QED BY <2>1, <2>2, <2>3
<1> QED BY <1>1, <1>6 DEF r

\* An empty queue has none.
LEMMA HeldNone == MessagesOf(<<>>) = {}
BY DEF MessagesOf

\* What is drained from a queue and what stays in it are all it had.
LEMMA HeldDrain ==
  ASSUME NEW S, NEW q \in Seq(S), NEW md
  PROVE  MessagesOf(q) = MessagesOf(Drained(md, q)) \cup MessagesOf(Remaining(md, q))
<1>1. CASE q = <<>> \/ md = "all"
  BY <1>1, HeldNone DEF Drained, Remaining
<1>2. CASE ~(q = <<>> \/ md = "all")
  <2>1. MessagesOf(<<Head(q)>>) = {Head(q)}
    BY DEF MessagesOf
  <2> QED BY <1>2, <2>1, HeldHead DEF Drained, Remaining
<1> QED BY <1>1, <1>2

HeldNow ==
  MessagesOf(messages) \cup MessagesOf(outbox) \cup
  MessagesOf(steeringQueue) \cup MessagesOf(followUpQueue)

\* A step that moves messages.
LEMMA HeldMoves ==
  ASSUME NothingLost, submitted' = submitted, NEW O, \A m \in O : m.role # "user",
         HeldNow' = HeldNow \cup O
  PROVE  NothingLost'
<1>1. UsersHeld' = UsersHeld
  BY DEF UsersHeld, HeldNow
<1> QED BY <1>1 DEF NothingLost

\* A step that adds messages, numbered from the last one on.
LEMMA HeldGrows ==
  ASSUME NothingLost, submitted \in Nat, NEW n \in Nat, submitted' = submitted + n,
         NEW A, \A m \in A : m.role = "user" /\ m.id \in (submitted + 1)..(submitted + n),
         \A i \in (submitted + 1)..(submitted + n) : \E m \in A : m.id = i,
         \A l, m \in A : l.id = m.id => l = m,
         HeldNow' = HeldNow \cup A
  PROVE  NothingLost'
<1>1. UsersHeld' = UsersHeld \cup A
  BY DEF UsersHeld, HeldNow
<1>2. \A m \in UsersHeld : m.id \in 1..submitted
  BY DEF NothingLost
<1>3. \A i \in 1..submitted : \E m \in UsersHeld : m.id = i
  BY DEF NothingLost
<1>4. \A l, m \in UsersHeld' : l.id = m.id => l = m
  BY <1>1, <1>2 DEF NothingLost
<1>5. ASSUME NEW i \in 1..(submitted + n) PROVE \E m \in UsersHeld' : m.id = i
  BY <1>1, <1>3
<1>6. ASSUME NEW m \in UsersHeld' PROVE m.id \in 1..(submitted + n)
  BY <1>1, <1>2
<1>7. {m.id : m \in UsersHeld'} = 1..(submitted + n)
  BY <1>5, <1>6
<1> QED BY <1>4, <1>7 DEF NothingLost

\* A drain into the empty outbox.
LEMMA HeldDrained ==
  ASSUME IInv, NothingLost, NEW md, messages' = messages, submitted' = submitted,
         outbox = <<>>,
         \/ /\ outbox' = Drained(md, steeringQueue)
            /\ steeringQueue' = Remaining(md, steeringQueue)
            /\ followUpQueue' = followUpQueue
         \/ /\ outbox' = Drained(md, followUpQueue)
            /\ followUpQueue' = Remaining(md, followUpQueue)
            /\ steeringQueue' = steeringQueue
  PROVE  NothingLost'
<1>1. /\ MessagesOf(steeringQueue)
           = MessagesOf(Drained(md, steeringQueue)) \cup MessagesOf(Remaining(md, steeringQueue))
      /\ MessagesOf(followUpQueue)
           = MessagesOf(Drained(md, followUpQueue)) \cup MessagesOf(Remaining(md, followUpQueue))
  BY WaySequences, HeldDrain
<1> DEFINE O == {}
<1>2. HeldNow' = HeldNow \cup O /\ \A m \in O : m.role # "user"
  BY <1>1, HeldNone DEF HeldNow
<1> HIDE DEF O
<1> QED BY <1>2, HeldMoves

\* Every step keeps all that was submitted.
LEMMA HeldStep ==
  ASSUME {"raise", "cancel", "reset", "clear"} \cap Disruptions = {},
         IInv, LoyalInv, NothingLost, Next
  PROVE  NothingLost'
<1> USE WaySequences
<1>1. ASSUME UNCHANGED <<messages, outbox, steeringQueue, followUpQueue, submitted>>
      PROVE  NothingLost'
  BY <1>1 DEF NothingLost, UsersHeld
<1>2. ASSUME NEW m \in Message, m.role # "user", messages' = Append(messages, m),
             UNCHANGED <<outbox, steeringQueue, followUpQueue, submitted>>
      PROVE  NothingLost'
  <2>1. MessagesOf(messages') = MessagesOf(messages) \cup {m}
    BY <1>2, HeldAppend
  <2>2. HeldNow' = HeldNow \cup {m}
    BY <1>2, <2>1 DEF HeldNow
  <2>3. \A l \in {m} : l.role # "user"
    BY <1>2
  <2> QED BY <1>2, <2>2, <2>3, HeldMoves
<1>3. pc \in {"idle", "ended", "failing", "turnEnded"} => outbox = <<>>
  BY DEF IInv, LoopInv
<1>4. CASE Prompt
  <2> PICK n \in 1..2 :
        /\ outbox' = [i \in 1..n |-> User("prompt", submitted + i)]
        /\ submitted' = submitted + n
        /\ UNCHANGED <<messages, steeringQueue, followUpQueue>>
    BY <1>4 DEF Prompt, StartRun
  <2> DEFINE A == MessagesOf(outbox')
  <2>1. DOMAIN outbox' = 1..n /\ \A i \in 1..n : outbox'[i] = User("prompt", submitted + i)
    OBVIOUS
  <2>2. \A m \in A : \E i \in 1..n : m = User("prompt", submitted + i)
    BY <2>1 DEF MessagesOf
  <2>3. \A i \in 1..n : User("prompt", submitted + i) \in A
    BY <2>1 DEF MessagesOf
  <2> HIDE DEF A
  <2>4. /\ \A m \in A : m.role = "user" /\ m.id \in (submitted + 1)..(submitted + n)
        /\ \A l, m \in A : l.id = m.id => l = m
    BY <2>2 DEF User
  <2>5. ASSUME NEW i \in (submitted + 1)..(submitted + n) PROVE \E m \in A : m.id = i
    <3>1. PICK j \in 1..n : submitted + j = i
      <4>1. i - submitted \in 1..n /\ submitted + (i - submitted) = i
        OBVIOUS
      <4> QED BY <4>1
    <3>2. User("prompt", submitted + j).id = i
      BY <3>1 DEF User
    <3> QED BY <2>3, <3>2
  <2>6. outbox = <<>>
    BY <1>3, <1>4 DEF Prompt, StartRun
  <2>7. HeldNow' = HeldNow \cup A
    BY <2>6, HeldNone DEF A, HeldNow
  <2>8. n \in Nat
    OBVIOUS
  <2> QED BY <2>4, <2>5, <2>7, <2>8, HeldGrows
<1>5. CASE Steer \/ FollowUp
  <2> PICK k \in {"steer", "followUp"} :
        /\ submitted' = submitted + 1 /\ UNCHANGED <<messages, outbox>>
        /\ \/ /\ k = "steer" /\ followUpQueue' = followUpQueue
              /\ steeringQueue' = Append(steeringQueue, User(k, submitted + 1))
           \/ /\ k = "followUp" /\ steeringQueue' = steeringQueue
              /\ followUpQueue' = Append(followUpQueue, User(k, submitted + 1))
    BY <1>5 DEF Steer, FollowUp, stateVars, loopVars
  <2> DEFINE m == User(k, submitted + 1)
  <2>1. m \in Message /\ m.role = "user" /\ m.id = submitted + 1
    <3>1. m \in UserMessage
      BY DEF User, UserMessage, UserOf, Kinds
    <3> QED BY <3>1, MessageTypes DEF User
  <2> HIDE DEF m
  <2>2. HeldNow' = HeldNow \cup {m}
    <3>1. CASE k = "steer"
      <4>1. steeringQueue' = Append(steeringQueue, m)
        BY <3>1 DEF m
      <4>2. MessagesOf(steeringQueue') = MessagesOf(steeringQueue) \cup {m}
        BY <2>1, <4>1, HeldAppend
      <4> QED BY <3>1, <4>2 DEF HeldNow
    <3>2. CASE k = "followUp"
      <4>1. followUpQueue' = Append(followUpQueue, m)
        BY <3>2 DEF m
      <4>2. MessagesOf(followUpQueue') = MessagesOf(followUpQueue) \cup {m}
        BY <2>1, <4>1, HeldAppend
      <4> QED BY <3>2, <4>2 DEF HeldNow
    <3> QED BY <3>1, <3>2
  <2>3. \A i \in (submitted + 1)..(submitted + 1) : i = submitted + 1
    OBVIOUS
  <2> DEFINE A == {m}
  <2>4. /\ \A l \in A : l.role = "user" /\ l.id \in (submitted + 1)..(submitted + 1)
        /\ \A i \in (submitted + 1)..(submitted + 1) : \E l \in A : l.id = i
        /\ \A l, n \in A : l.id = n.id => l = n
        /\ HeldNow' = HeldNow \cup A
    BY <2>1, <2>2, <2>3
  <2> HIDE DEF A
  <2>5. 1 \in Nat
    OBVIOUS
  <2> QED BY <2>4, <2>5, HeldGrows
<1>6. CASE ContinueWithSteering
  BY <1>3, <1>6, HeldDrained DEF ContinueWithSteering, StartRun
<1>7. CASE ContinueWithFollowUp
  BY <1>3, <1>7, HeldDrained DEF ContinueWithFollowUp, StartRun
<1>8. CASE ContinueRun
  BY <1>1, <1>3, <1>8 DEF ContinueRun, StartRun
<1>9. CASE FirstPoll
  <2>1. CASE skipPoll
    BY <1>1, <1>9, <2>1 DEF FirstPoll, stateVars, restVars
  <2>2. CASE ~skipPoll
    BY <1>9, <2>2, HeldDrained DEF FirstPoll, stateVars, restVars
  <2> QED BY <2>1, <2>2
<1>10. CASE DeliverEnd
  <2>1. /\ outbox # <<>> /\ messages' = Append(messages, Head(outbox))
        /\ outbox' = Tail(outbox)
        /\ UNCHANGED <<steeringQueue, followUpQueue, submitted>>
    BY <1>10 DEF DeliverEnd, queueVars, restVars, IInv, LoopInv
  <2>2. MessagesOf(messages') = MessagesOf(messages) \cup {Head(outbox)}
    BY <2>1, HeadTailProperties, HeldAppend
  <2>3. MessagesOf(outbox) = {Head(outbox)} \cup MessagesOf(outbox')
    BY <2>1, HeldHead
  <2>4. HeldNow' = HeldNow \cup {}
    BY <2>1, <2>2, <2>3 DEF HeldNow
  <2> QED BY <2>1, <2>4, HeldMoves
<1>11. CASE StreamDone
  <2> PICK r \in Replies : messages' = Append(messages, r)
    BY <1>11 DEF StreamDone
  <2>1. r \in Message /\ r.role = "assistant"
    BY RepliesType, MessageTypes DEF IInv, TypeOK, RestTypeOK, AssistantMessage
  <2> QED BY <1>2, <1>11, <2>1 DEF StreamDone, queueVars
<1>12. CASE ReplyEnd
  <2>1. reply \in Message /\ reply.role = "assistant"
    BY MessageTypes DEF IInv, TypeOK, LoopTypeOK, AssistantMessage
  <2> QED BY <1>2, <1>12, <2>1 DEF ReplyEnd, queueVars, restVars
<1>13. CASE ResultEnd
  <2>1. /\ Result(reply.batch, posted + 1) \in Message
        /\ Result(reply.batch, posted + 1).role = "toolResult"
    BY <1>13, ResultsType DEF ResultEnd, IInv, Result
  <2> QED BY <1>2, <1>13, <2>1 DEF ResultEnd, queueVars, loopVars, restVars
<1>14. CASE NextTurn
  BY <1>3, <1>14, HeldDrained DEF NextTurn, BeginTurn, stateVars, restVars
<1>15. CASE FollowUpTurn
  BY <1>3, <1>15, HeldDrained DEF FollowUpTurn, BeginTurn, stateVars, restVars
<1>16. CASE Finish
  BY <1>1, <1>3, <1>16 DEF Finish, LeaveRun, LeaveLoop, queueVars
<1>17. CASE \/ FirstTurn \/ DeliverStart \/ Request \/ StreamStart \/ StreamUpdate
            \/ ReplyStart \/ ResultStart \/ TurnEnd \/ AgentEnd \/ Abort
  BY <1>1, <1>17
     DEF FirstTurn, DeliverStart, Request, StreamStart, StreamUpdate, ReplyStart,
         ResultStart, TurnEnd, AgentEnd, Abort, stateVars, queueVars, loopVars, restVars
<1>18. ASSUME NEW i \in Calls,
              \/ ToolStart(i) \/ RejectCall(i) \/ AcceptCall(i)
              \/ SequentialEnd(i) \/ TaskEnd(i) \/ TaskReturn(i)
       PROVE  NothingLost'
  BY <1>1, <1>18
     DEF ToolStart, RejectCall, AcceptCall, SequentialEnd, TaskEnd, TaskReturn,
         FinishCall, stateVars, queueVars, loopVars, restVars
<1>19. ASSUME NEW q \in {"steer", "followUp"}, NEW m \in Modes, SetMode(q, m)
       PROVE  NothingLost'
  BY <1>1, <1>19 DEF SetMode, stateVars, loopVars, restVars
<1>20. ASSUME NEW w \in Waiters, WaitForIdle(w) \/ CancelWaiter(w) \/ WaiterReturns(w)
       PROVE  NothingLost'
  BY <1>1, <1>20 DEF WaitForIdle, CancelWaiter, WaiterReturns, stateVars, queueVars, loopVars
<1>21. ~ClearQueues /\ ~Reset
  BY DEF ClearQueues, Reset
<1> QED
  BY <1>4, <1>5, <1>6, <1>7, <1>8, <1>9, <1>10, <1>11, <1>12, <1>13, <1>14, <1>15,
     <1>16, <1>17, <1>18, <1>19, <1>20, <1>21, LoyalCases

\* Where no listener raises, no run is cancelled, and nobody resets the agent
\* or clears its queues, every submitted message is delivered, on its way or
\* in its queue: whatever the modes of the queues, also when they are changed,
\* and however often the agent is told to abort.
THEOREM AllHeld ==
  ASSUME {"raise", "cancel", "reset", "clear"} \cap Disruptions = {}
  PROVE  SafeSpec => []NothingLost
<1>1. Init => NothingLost
  BY HeldNone DEF Init, NothingLost, UsersHeld
<1>2. IInv /\ LoyalInv /\ NothingLost /\ [Next]_vars => NothingLost'
  <2>1. ASSUME NothingLost, UNCHANGED vars PROVE NothingLost'
    BY <2>1 DEF NothingLost, UsersHeld, vars, stateVars, queueVars, loopVars, restVars
  <2> QED BY <2>1, HeldStep
<1>3. {"raise", "cancel"} \cap Disruptions = {}
  OBVIOUS
<1> QED BY Inductive, LoyalKept, <1>1, <1>2, <1>3, PTL DEF SafeSpec

-----------------------------------------------------------------------------
(***************************************************************************)
(* The polls of the queues.  Where the mode is to give one message at a    *)
(* time, a message of the kind is in the outbox only if those delivered    *)
(* before have their reply; a run that has not yet polled and will do so   *)
(* has no steering message that waits for one.  Where steering is given    *)
(* all at once, what is queued after the first poll is newer than every    *)
(* prompt.                                                                 *)
(***************************************************************************)
OfKind(m, k) == m.role = "user" /\ m.kind = k

Apart(s, k) ==
  \A i, j \in 1..Len(s) : i < j /\ OfKind(s[i], k) /\ OfKind(s[j], k) =>
    \E a \in i..j : s[a].role = "assistant"
HasReply(s, k) ==
  \A i \in 1..Len(s) : OfKind(s[i], k) =>
    \E a \in 1..Len(s) : i < a /\ s[a].role = "assistant"
Single(s, k) ==
  \A i, j \in 1..Len(s) : OfKind(s[i], k) /\ OfKind(s[j], k) => i = j
NoneOf(s, k) == \A i \in 1..Len(s) : ~OfKind(s[i], k)

AfterReply == InBatch \cup {"turnEnded", "ended", "failing", "idle", "started"}

PollInv(k) ==
  /\ Apart(messages, k)
  /\ Single(outbox, k)
  /\ NoneOf(outbox, k) \/ HasReply(messages, k)
  /\ pc \in AfterReply => HasReply(messages, k)
  /\ firstPoll /\ ~skipPoll /\ k = "steer" =>
       NoneOf(outbox, k) /\ HasReply(messages, k)

NewerThanPrompts ==
  \A m \in MessagesOf(steeringQueue), p \in MessagesOf(messages) \cup MessagesOf(outbox) :
    OfKind(p, "prompt") => p.id < m.id

OverdueInv ==
  pc \notin {"idle", "failing"} /\ (firstPoll => skipPoll) => NewerThanPrompts

\* A message is added to the transcript.
LEMMA PollAppend ==
  ASSUME NEW s \in Seq(Message), NEW m \in Message, NEW k
  PROVE  /\ ~OfKind(m, k) /\ Apart(s, k) => Apart(Append(s, m), k)
         /\ ~OfKind(m, k) /\ HasReply(s, k) => HasReply(Append(s, m), k)
         /\ m.role = "assistant" => ~OfKind(m, k) /\ HasReply(Append(s, m), k)
         /\ Apart(s, k) /\ HasReply(s, k) => Apart(Append(s, m), k)
<1> DEFINE a == Append(s, m)
<1>1. /\ Len(s) \in Nat /\ Len(a) = Len(s) + 1 /\ a[Len(s) + 1] = m
      /\ \A i \in 1..Len(s) : a[i] = s[i]
  BY AppendProperties, LenProperties
<1> HIDE DEF a
<1>2. \A i \in 1..Len(a) : i \in 1..Len(s) \/ i = Len(s) + 1
  BY <1>1
<1>3. \A i, j \in 1..Len(s) : i..j \subseteq 1..Len(s)
  BY <1>1
<1>4. 1..Len(s) \subseteq 1..Len(a) /\ Len(s) + 1 \in 1..Len(a)
  BY <1>1
<1>5. ASSUME Apart(s, k), NEW i \in 1..Len(s), NEW j \in 1..Len(s), i < j,
             OfKind(a[i], k), OfKind(a[j], k)
      PROVE  \E b \in i..j : a[b].role = "assistant"
  <2>1. OfKind(s[i], k) /\ OfKind(s[j], k)
    BY <1>1, <1>5
  <2>2. PICK b \in i..j : s[b].role = "assistant"
    BY <1>5, <2>1 DEF Apart
  <2> QED BY <1>1, <1>3, <2>2
<1>6. ~OfKind(m, k) /\ Apart(s, k) => Apart(a, k)
  <2> SUFFICES ASSUME ~OfKind(m, k), Apart(s, k),
                      NEW i \in 1..Len(a), NEW j \in 1..Len(a), i < j,
                      OfKind(a[i], k), OfKind(a[j], k)
               PROVE  \E b \in i..j : a[b].role = "assistant"
    BY DEF Apart
  <2>1. i \in 1..Len(s) /\ j \in 1..Len(s)
    BY <1>1, <1>2
  <2> QED BY <1>5, <2>1
<1>7. ~OfKind(m, k) /\ HasReply(s, k) => HasReply(a, k)
  BY <1>1, <1>2, <1>4 DEF HasReply
<1>8. m.role = "assistant" => ~OfKind(m, k)
  BY DEF OfKind
<1>9. m.role = "assistant" => HasReply(a, k)
  <2> SUFFICES ASSUME m.role = "assistant", NEW i \in 1..Len(a), OfKind(a[i], k)
               PROVE  \E b \in 1..Len(a) : i < b /\ a[b].role = "assistant"
    BY DEF HasReply
  <2>1. i < Len(s) + 1
    BY <1>1, <1>2, <1>8
  <2> QED BY <1>1, <1>4, <2>1
<1>10. Apart(s, k) /\ HasReply(s, k) => Apart(a, k)
  <2> SUFFICES ASSUME Apart(s, k), HasReply(s, k),
                      NEW i \in 1..Len(a), NEW j \in 1..Len(a), i < j,
                      OfKind(a[i], k), OfKind(a[j], k)
               PROVE  \E b \in i..j : a[b].role = "assistant"
    BY DEF Apart
  <2>1. i \in 1..Len(s)
    BY <1>1, <1>2
  <2>2. CASE j \in 1..Len(s)
    BY <1>5, <2>1, <2>2
  <2>3. CASE j = Len(s) + 1
    <3>1. PICK b \in 1..Len(s) : i < b /\ s[b].role = "assistant"
      BY <1>1, <2>1 DEF HasReply
    <3>2. b \in i..j /\ a[b].role = "assistant"
      BY <1>1, <2>1, <2>3, <3>1
    <3> QED BY <3>2
  <2> QED BY <1>2, <2>2, <2>3
<1> QED BY <1>6, <1>7, <1>8, <1>9, <1>10 DEF a

\* The head of the outbox is delivered.
LEMMA PollHead ==
  ASSUME NEW t \in Seq(Message), t # <<>>, NEW k
  PROVE  /\ Single(t, k) => Single(Tail(t), k)
         /\ Single(t, k) /\ OfKind(Head(t), k) => NoneOf(Tail(t), k)
         /\ NoneOf(t, k) => ~OfKind(Head(t), k) /\ NoneOf(Tail(t), k)
<1> DEFINE r == Tail(t)
<1>1. /\ Head(t) = t[1] /\ Len(t) \in Nat \ {0}
      /\ Len(r) = Len(t) - 1 /\ \A i \in 1..Len(r) : r[i] = t[i + 1]
  BY HeadTailProperties, EmptySeq
<1> HIDE DEF r
<1>2. \A i \in 1..Len(r) : i + 1 \in 1..Len(t) /\ i + 1 # 1
  BY <1>1
<1>3. 1 \in 1..Len(t)
  BY <1>1
<1>4. Single(t, k) => Single(r, k)
  <2> SUFFICES ASSUME Single(t, k), NEW i \in 1..Len(r), NEW j \in 1..Len(r),
                      OfKind(r[i], k), OfKind(r[j], k)
               PROVE  i = j
    BY DEF Single
  <2>1. i + 1 = j + 1
    BY <1>1, <1>2 DEF Single
  <2> QED BY <2>1
<1>5. Single(t, k) /\ OfKind(t[1], k) => NoneOf(r, k)
  BY <1>1, <1>2, <1>3 DEF Single, NoneOf
<1>6. NoneOf(t, k) => ~OfKind(t[1], k) /\ NoneOf(r, k)
  BY <1>1, <1>2, <1>3 DEF NoneOf
<1> QED BY <1>1, <1>4, <1>5, <1>6 DEF r

\* What a poll takes from a queue.
LEMMA PollDrained ==
  ASSUME NEW l, NEW q \in Seq(UserOf({l})), NEW k, NEW md
  PROVE  /\ k # l => NoneOf(Drained(md, q), k)
         /\ md = "one-at-a-time" => Single(Drained(md, q), k)
<1> DEFINE d == Drained(md, q)
<1>1. d \in Seq(UserOf({l}))
  BY DrainType
<1>2. md = "one-at-a-time" => d = <<>> \/ d = <<Head(q)>>
  BY DEF Drained
<1> HIDE DEF d
<1>3. k # l => NoneOf(d, k)
  BY <1>1, QueueKinds DEF NoneOf, OfKind
<1>4. md = "one-at-a-time" => \A i \in 1..Len(d) : i = 1
  <2>1. ASSUME NEW x, d = <<x>> PROVE \A i \in 1..Len(d) : i = 1
    BY <2>1
  <2>2. d = <<>> => \A i \in 1..Len(d) : i = 1
    OBVIOUS
  <2> QED BY <1>2, <2>1, <2>2
<1>5. md = "one-at-a-time" => Single(d, k)
  BY <1>4 DEF Single
<1> QED BY <1>3, <1>5 DEF d

\* There is nothing to answer or to keep apart in an empty sequence.
LEMMA PollNone ==
  \A k : NoneOf(<<>>, k) /\ Single(<<>>, k) /\ HasReply(<<>>, k) /\ Apart(<<>>, k)
BY DEF NoneOf, Single, HasReply, Apart

\* What may happen to a run that nobody cancels, and whose modes stay.
LEMMA PollCases ==
  ASSUME {"cancel", "mode"} \cap Disruptions = {}, Next
  PROVE
    /\ mode' = mode
    /\ \/ Prompt \/ ContinueWithSteering \/ ContinueWithFollowUp \/ ContinueRun
       \/ FirstTurn \/ FirstPoll \/ DeliverStart \/ DeliverEnd \/ Request
       \/ StreamStart \/ StreamUpdate \/ StreamDone \/ ReplyStart \/ ReplyEnd
       \/ \E i \in Calls : ToolStart(i) \/ RejectCall(i) \/ AcceptCall(i)
       \/ \E i \in Calls : SequentialEnd(i) \/ TaskEnd(i) \/ TaskReturn(i)
       \/ ResultStart \/ ResultEnd \/ TurnEnd
       \/ NextTurn \/ FollowUpTurn \/ AgentEnd \/ Finish \/ FailRun
       \/ \E c \in orphans : OrphanEnd(c)
       \/ Steer \/ FollowUp \/ ClearQueues \/ Reset \/ Abort
       \/ \E w \in Waiters : WaitForIdle(w) \/ CancelWaiter(w) \/ WaiterReturns(w)
<1>1. ~Cancel /\ \A q, m : ~SetMode(q, m)
  BY DEF Cancel, SetMode
<1>2. \/ Prompt \/ ContinueWithSteering \/ ContinueWithFollowUp \/ ContinueRun
      \/ FirstTurn \/ FirstPoll \/ DeliverStart \/ DeliverEnd \/ Request
      \/ StreamStart \/ StreamUpdate \/ StreamDone \/ ReplyStart \/ ReplyEnd
      \/ \E i \in Calls : ToolStart(i) \/ RejectCall(i) \/ AcceptCall(i)
      \/ \E i \in Calls : SequentialEnd(i) \/ TaskEnd(i) \/ TaskReturn(i)
      \/ ResultStart \/ ResultEnd \/ TurnEnd
      \/ NextTurn \/ FollowUpTurn \/ AgentEnd \/ Finish \/ FailRun
      \/ \E c \in orphans : OrphanEnd(c)
      \/ Steer \/ FollowUp \/ ClearQueues \/ Reset \/ Abort
      \/ \E w \in Waiters : WaitForIdle(w) \/ CancelWaiter(w) \/ WaiterReturns(w)
  BY <1>1 DEF Next, LoopStep, ProviderStep, ToolStep, UserStep, Raise, TaskRaised
<1>3. mode' = mode
  <2>1. CASE Prompt \/ ContinueWithSteering \/ ContinueWithFollowUp \/ ContinueRun
    BY <2>1 DEF Prompt, ContinueWithSteering, ContinueWithFollowUp, ContinueRun, StartRun
  <2>2. CASE \/ FirstTurn \/ FirstPoll \/ DeliverStart \/ DeliverEnd \/ Request
             \/ StreamStart \/ StreamUpdate \/ StreamDone \/ ReplyStart \/ ReplyEnd
             \/ ResultStart \/ ResultEnd \/ TurnEnd
    BY <2>2
       DEF FirstTurn, FirstPoll, DeliverStart, DeliverEnd, Request, StreamStart,
           StreamUpdate, StreamDone, ReplyStart, ReplyEnd, ResultStart, ResultEnd,
           TurnEnd, queueVars
  <2>3. CASE \E i \in Calls : \/ ToolStart(i) \/ RejectCall(i) \/ AcceptCall(i)
                             \/ SequentialEnd(i) \/ TaskEnd(i) \/ TaskReturn(i)
    BY <2>3 DEF ToolStart, RejectCall, AcceptCall, SequentialEnd, TaskEnd, TaskReturn,
                FinishCall, queueVars
  <2>4. CASE NextTurn \/ FollowUpTurn \/ AgentEnd \/ Finish \/ FailRun
    BY <2>4 DEF NextTurn, FollowUpTurn, BeginTurn, AgentEnd, Finish, LeaveRun, FailRun,
                queueVars
  <2>5. CASE \/ \E c \in orphans : OrphanEnd(c)
             \/ Steer \/ FollowUp \/ ClearQueues \/ Reset \/ Abort
             \/ \E w \in Waiters : WaitForIdle(w) \/ CancelWaiter(w) \/ WaiterReturns(w)
    BY <2>5 DEF OrphanEnd, Steer, FollowUp, ClearQueues, Reset, Abort, WaitForIdle,
                CancelWaiter, WaiterReturns, queueVars
  <2> QED BY <1>2, <2>1, <2>2, <2>3, <2>4, <2>5
<1> QED BY <1>2, <1>3

\* The poll before the first request is made, or skipped, before that request.
Beginning == {"started", "turnStarted", "delivering"}
FirstPollInv == firstPoll => pc \in Beginning

LEMMA FirstPollStep ==
  ASSUME {"cancel", "mode"} \cap Disruptions = {}, FirstPollInv, Next
  PROVE  FirstPollInv'
<1> USE DEF FirstPollInv, Beginning
<1>1. CASE Prompt \/ ContinueWithSteering \/ ContinueWithFollowUp \/ ContinueRun
  BY <1>1 DEF Prompt, ContinueWithSteering, ContinueWithFollowUp, ContinueRun, StartRun
<1>2. CASE \/ FirstTurn \/ FirstPoll \/ DeliverStart \/ DeliverEnd \/ Request
           \/ StreamStart \/ StreamUpdate \/ StreamDone \/ ReplyStart \/ ReplyEnd
           \/ ResultStart \/ ResultEnd \/ TurnEnd
  BY <1>2
     DEF FirstTurn, FirstPoll, DeliverStart, DeliverEnd, Request, StreamStart,
         StreamUpdate, StreamDone, ReplyStart, ReplyEnd, ResultStart, ResultEnd,
         TurnEnd, BatchOver, loopVars
<1>3. ASSUME NEW i \in Calls, \/ ToolStart(i) \/ RejectCall(i) \/ AcceptCall(i)
                            \/ SequentialEnd(i) \/ TaskEnd(i) \/ TaskReturn(i)
      PROVE  FirstPollInv'
  BY <1>3 DEF ToolStart, RejectCall, AcceptCall, SequentialEnd, TaskEnd, TaskReturn,
              FinishCall, loopVars
<1>4. CASE NextTurn \/ FollowUpTurn \/ AgentEnd \/ Finish \/ FailRun
  BY <1>4 DEF NextTurn, FollowUpTurn, BeginTurn, AgentEnd, Finish, LeaveRun, LeaveLoop,
              FailRun, loopVars
<1>5. CASE \/ \E c \in orphans : OrphanEnd(c)
           \/ Steer \/ FollowUp \/ ClearQueues \/ Reset \/ Abort
           \/ \E w \in Waiters : WaitForIdle(w) \/ CancelWaiter(w) \/ WaiterReturns(w)
  BY <1>5 DEF OrphanEnd, Steer, FollowUp, ClearQueues, Reset, Abort, WaitForIdle,
              CancelWaiter, WaiterReturns, loopVars
<1> QED BY <1>1, <1>2, <1>3, <1>4, <1>5, PollCases

\* Every step keeps the messages of a kind that come one at a time apart.
LEMMA PollStep ==
  ASSUME {"cancel", "mode"} \cap Disruptions = {}, IInv, FirstPollInv, Next,
         NEW k \in {"steer", "followUp"}, mode[k] = "one-at-a-time", PollInv(k)
  PROVE  PollInv(k)'
<1> USE WaySequences
<1>1. ASSUME UNCHANGED <<messages, outbox>>, pc' \in AfterReply => pc \in AfterReply,
             firstPoll' /\ ~skipPoll' => firstPoll /\ ~skipPoll
      PROVE  PollInv(k)'
  BY <1>1 DEF PollInv
<1>2. ASSUME NEW m \in Message, m.role = "assistant", messages' = Append(messages, m),
             outbox' = outbox \/ outbox' = <<>>,
             firstPoll' /\ ~skipPoll' => firstPoll /\ ~skipPoll
      PROVE  PollInv(k)'
  <2>1. Apart(messages', k) /\ HasReply(messages', k)
    BY <1>2, PollAppend DEF PollInv
  <2>2. Single(outbox', k) /\ (NoneOf(outbox, k) => NoneOf(outbox', k))
    BY <1>2, PollNone DEF PollInv
  <2> QED BY <1>2, <2>1, <2>2 DEF PollInv
<1>3. ASSUME NEW l \in {"steer", "followUp"}, NEW q \in Seq(UserOf({l})),
             messages' = messages, outbox' = Drained(mode[l], q),
             HasReply(messages, l) \/ l # k,
             pc' \in AfterReply => HasReply(messages, k),
             firstPoll' /\ ~skipPoll' /\ k = "steer" => l # k /\ HasReply(messages, k)
      PROVE  PollInv(k)'
  <2> DEFINE md == mode[l]
  <2>1. outbox' = Drained(md, q) /\ (k = l => md = "one-at-a-time")
    BY <1>3
  <2> HIDE DEF md
  <2>2. /\ k # l => NoneOf(Drained(md, q), k)
        /\ md = "one-at-a-time" => Single(Drained(md, q), k)
    BY PollDrained
  <2>3. /\ k # l => NoneOf(outbox', k)
        /\ k = l => Single(outbox', k)
    BY <2>1, <2>2
  <2>4. Single(outbox', k)
    BY <2>3 DEF NoneOf, Single
  <2> QED BY <1>3, <2>3, <2>4 DEF PollInv
<1>4. pc \in {"idle", "turnEnded"} => HasReply(messages, k)
  BY DEF PollInv, AfterReply
<1>5. CASE Prompt
  <2> PICK n \in 1..2 :
        /\ outbox' = [i \in 1..n |-> User("prompt", submitted + i)]
        /\ messages' = messages /\ pc = "idle"
    BY <1>5 DEF Prompt, StartRun
  <2>1. Len(outbox') = n /\ \A i \in 1..n : outbox'[i].kind = "prompt"
    BY DEF User
  <2>2. NoneOf(outbox', k) /\ Single(outbox', k)
    BY <2>1 DEF NoneOf, Single, OfKind
  <2> QED BY <1>4, <2>2 DEF PollInv
<1>6. CASE ContinueWithSteering
  <2>1. /\ outbox' = Drained(mode["steer"], steeringQueue)
        /\ messages' = messages /\ pc = "idle" /\ skipPoll'
    BY <1>6 DEF ContinueWithSteering, StartRun
  <2> QED BY <1>3, <1>4, <2>1
<1>7. CASE ContinueWithFollowUp
  <2>1. /\ outbox' = Drained(mode["followUp"], followUpQueue)
        /\ messages' = messages /\ pc = "idle"
    BY <1>7 DEF ContinueWithFollowUp, StartRun
  <2> QED BY <1>3, <1>4, <2>1
<1>8. CASE ContinueRun
  <2>1. outbox' = <<>> /\ messages' = messages /\ pc = "idle"
    BY <1>8 DEF ContinueRun, StartRun
  <2> QED BY <1>4, <2>1, PollNone DEF PollInv
<1>9. CASE FirstPoll
  <2>1. pc' = "polled" /\ pc' \notin AfterReply /\ ~firstPoll' /\ messages' = messages
    BY <1>9 DEF FirstPoll, stateVars, AfterReply, InBatch
  <2>2. CASE skipPoll
    BY <1>1, <1>9, <2>1, <2>2 DEF FirstPoll
  <2>3. CASE ~skipPoll
    <3>1. outbox' = Drained(mode["steer"], steeringQueue) /\ firstPoll
      BY <1>9, <2>3 DEF FirstPoll
    <3>2. HasReply(messages, "steer") \/ "steer" # k
      BY <2>3, <3>1 DEF PollInv
    <3> QED BY <1>3, <2>1, <3>1, <3>2
  <2> QED BY <2>2, <2>3
<1>10. CASE DeliverEnd
  <2>1. /\ outbox # <<>> /\ messages' = Append(messages, Head(outbox))
        /\ outbox' = Tail(outbox) /\ Head(outbox) \in Message
        /\ UNCHANGED <<firstPoll, skipPoll>>
    BY <1>10, OutboxHead DEF DeliverEnd, IInv, LoopInv, TypeOK
  <2>2. pc' \notin AfterReply
    BY <1>10 DEF DeliverEnd, AfterReply, InBatch
  <2>3. CASE OfKind(Head(outbox), k)
    <3>1. HasReply(messages, k) /\ ~NoneOf(outbox, k)
      BY <2>1, <2>3, PollHead DEF PollInv
    <3>2. Apart(messages', k)
      BY <2>1, <3>1, PollAppend DEF PollInv
    <3>3. NoneOf(outbox', k) /\ Single(outbox', k)
      BY <2>1, <2>3, PollHead DEF PollInv
    <3> QED BY <2>1, <2>2, <3>1, <3>2, <3>3 DEF PollInv
  <2>4. CASE ~OfKind(Head(outbox), k)
    <3>1. Apart(messages', k) /\ (HasReply(messages, k) => HasReply(messages', k))
      BY <2>1, <2>4, PollAppend DEF PollInv
    <3>2. Single(outbox', k) /\ (NoneOf(outbox, k) => NoneOf(outbox', k))
      BY <2>1, PollHead DEF PollInv
    <3> QED BY <2>1, <2>2, <3>1, <3>2 DEF PollInv
  <2> QED BY <2>3, <2>4
<1>11. CASE StreamDone
  <2> PICK r \in Replies : messages' = Append(messages, r)
    BY <1>11 DEF StreamDone
  <2>1. r \in Message /\ r.role = "assistant"
    BY RepliesType, MessageTypes DEF IInv, TypeOK, RestTypeOK, AssistantMessage
  <2> QED BY <1>2, <1>11, <2>1 DEF StreamDone
<1>12. CASE ReplyEnd
  <2>1. reply \in Message /\ reply.role = "assistant"
    BY MessageTypes DEF IInv, TypeOK, LoopTypeOK, AssistantMessage
  <2> QED BY <1>2, <1>12, <2>1 DEF ReplyEnd
<1>13. CASE ResultEnd
  <2> DEFINE m == Result(reply.batch, posted + 1)
  <2>1. m \in Message /\ ~OfKind(m, k)
    BY <1>13, ResultsType DEF ResultEnd, IInv, Result, OfKind
  <2>2. /\ messages' = Append(messages, m) /\ UNCHANGED <<outbox, firstPoll, skipPoll>>
        /\ pc = "posting"
    BY <1>13 DEF ResultEnd, loopVars
  <2> HIDE DEF m
  <2>3. Apart(messages', k) /\ HasReply(messages', k)
    BY <2>1, <2>2, PollAppend DEF PollInv, AfterReply, InBatch
  <2> QED BY <2>2, <2>3 DEF PollInv
<1>14. CASE NextTurn
  <2>1. /\ outbox' = Drained(mode["steer"], steeringQueue)
        /\ messages' = messages /\ UNCHANGED <<firstPoll, skipPoll>>
        /\ pc = "turnEnded" /\ outbox = <<>>
    BY <1>14 DEF NextTurn, BeginTurn, stateVars, IInv, LoopInv
  <2> QED BY <1>3, <1>4, <2>1 DEF FirstPollInv, Beginning
<1>15. CASE FollowUpTurn
  <2>1. /\ outbox' = Drained(mode["followUp"], followUpQueue)
        /\ messages' = messages /\ UNCHANGED <<firstPoll, skipPoll>>
        /\ pc = "turnEnded"
    BY <1>15 DEF FollowUpTurn, BeginTurn, stateVars
  <2> QED BY <1>3, <1>4, <2>1 DEF FirstPollInv, Beginning
<1>16. CASE FailRun
  <2> DEFINE m == Assistant(0, 0, IF aborted THEN "aborted" ELSE "error")
  <2>1. m \in Message /\ m.role = "assistant"
    BY FixedReplies, MessageTypes DEF Assistant, Stops
  <2>2. messages' = Append(messages, m) /\ outbox' = <<>> /\ ~firstPoll'
    BY <1>16 DEF FailRun, LeaveLoop
  <2> HIDE DEF m
  <2> QED BY <1>2, <2>1, <2>2
<1>17. CASE Finish
  <2>1. /\ outbox' = <<>> /\ ~firstPoll' /\ messages' = messages
        /\ pc \in AfterReply
    BY <1>17 DEF Finish, LeaveRun, LeaveLoop, AfterReply
  <2> QED BY <2>1, PollNone DEF PollInv
<1>18. CASE Reset
  <2>1. messages' = <<>> /\ UNCHANGED <<outbox, firstPoll, skipPoll>>
    BY <1>18 DEF Reset, loopVars
  <2> QED BY <2>1, PollNone DEF PollInv
<1>19. CASE \/ FirstTurn \/ DeliverStart \/ Request \/ StreamStart \/ StreamUpdate
            \/ ReplyStart \/ ResultStart \/ TurnEnd \/ AgentEnd
  BY <1>1, <1>19
     DEF FirstTurn, DeliverStart, Request, StreamStart, StreamUpdate, ReplyStart,
         ResultStart, TurnEnd, BatchOver, AgentEnd, stateVars, loopVars, AfterReply, InBatch
<1>20. ASSUME NEW i \in Calls,
              \/ ToolStart(i) \/ RejectCall(i) \/ AcceptCall(i)
              \/ SequentialEnd(i) \/ TaskEnd(i) \/ TaskReturn(i)
       PROVE  PollInv(k)'
  BY <1>1, <1>20
     DEF ToolStart, RejectCall, AcceptCall, SequentialEnd, TaskEnd, TaskReturn,
         FinishCall, stateVars, loopVars, AfterReply, InBatch
<1>21. CASE \/ \E c \in orphans : OrphanEnd(c)
            \/ Steer \/ FollowUp \/ ClearQueues \/ Abort
            \/ \E w \in Waiters : WaitForIdle(w) \/ CancelWaiter(w) \/ WaiterReturns(w)
  BY <1>1, <1>21
     DEF OrphanEnd, Steer, FollowUp, ClearQueues, Abort, WaitForIdle, CancelWaiter,
         WaiterReturns, stateVars, loopVars
<1> QED
  BY <1>5, <1>6, <1>7, <1>8, <1>9, <1>10, <1>11, <1>12, <1>13, <1>14, <1>15,
     <1>16, <1>17, <1>18, <1>19, <1>20, <1>21, PollCases

\* Every step keeps what waits after the first poll newer than the prompts.
LEMMA OverdueStep ==
  ASSUME {"cancel", "mode"} \cap Disruptions = {}, IInv, OrderInv, Next,
         mode["steer"] = "all", OverdueInv
  PROVE  OverdueInv'
<1> USE WaySequences
<1> DEFINE H == MessagesOf(messages) \cup MessagesOf(outbox)
           Polled == pc \notin {"idle", "failing"} /\ (firstPoll => skipPoll)
<1>1. ASSUME Polled' => Polled,
             MessagesOf(steeringQueue') \subseteq MessagesOf(steeringQueue),
             \A p \in H' : p \in H \/ ~OfKind(p, "prompt")
      PROVE  OverdueInv'
  BY <1>1 DEF OverdueInv, NewerThanPrompts
<1>2. ASSUME steeringQueue' = <<>> PROVE OverdueInv'
  BY <1>2, HeldNone DEF OverdueInv, NewerThanPrompts
<1>3. \A q \in Seq(Message) : q = <<>> \/ Remaining("all", q) = <<>>
  BY DEF Remaining
<1>4. \A p \in H : p.role = "user" => p.id \in Nat /\ p.id <= submitted
  BY IdsAreNumbers DEF OrderInv, UpTo, MessagesOf
<1>5. ASSUME NEW m \in Message, m.role # "user", messages' = Append(messages, m),
             outbox' = outbox, steeringQueue' = steeringQueue, Polled' => Polled
      PROVE  OverdueInv'
  <2>1. MessagesOf(messages') = MessagesOf(messages) \cup {m}
    BY <1>5, HeldAppend
  <2>2. \A p \in H' : p \in H \/ ~OfKind(p, "prompt")
    BY <1>5, <2>1 DEF OfKind
  <2> QED BY <1>1, <1>5, <2>2
<1>6. ASSUME ~Polled' PROVE OverdueInv'
  BY <1>6 DEF OverdueInv
<1>7. ASSUME UNCHANGED <<messages, outbox>>, Polled' => Polled,
             steeringQueue' = steeringQueue \/ steeringQueue' = <<>>
      PROVE  OverdueInv'
  BY <1>1, <1>2, <1>7
<1>8. CASE Prompt \/ ContinueWithFollowUp \/ ContinueRun
  <2>1. ~Polled'
    BY <1>8 DEF Prompt, ContinueWithFollowUp, ContinueRun, StartRun
  <2> QED BY <1>6, <2>1
<1>9. CASE ContinueWithSteering \/ NextTurn
  <2>1. steeringQueue' = Remaining("all", steeringQueue)
    BY <1>9 DEF ContinueWithSteering, NextTurn
  <2>2. steeringQueue' = <<>>
    BY <2>1 DEF Remaining
  <2> QED BY <1>2, <2>2
<1>10. CASE FirstPoll
  <2>1. CASE skipPoll
    BY <1>7, <1>10, <2>1 DEF FirstPoll, stateVars
  <2>2. CASE ~skipPoll
    <3>1. steeringQueue' = Remaining("all", steeringQueue)
      BY <1>10, <2>2 DEF FirstPoll
    <3>2. steeringQueue' = <<>>
      BY <3>1 DEF Remaining
    <3> QED BY <1>2, <3>2
  <2> QED BY <2>1, <2>2
<1>11. CASE DeliverEnd
  <2>1. /\ outbox # <<>> /\ messages' = Append(messages, Head(outbox))
        /\ outbox' = Tail(outbox) /\ Head(outbox) \in Message
        /\ steeringQueue' = steeringQueue /\ (Polled' => Polled)
    BY <1>11, OutboxHead DEF DeliverEnd, queueVars, IInv, LoopInv, TypeOK
  <2>2. /\ MessagesOf(messages') = MessagesOf(messages) \cup {Head(outbox)}
        /\ MessagesOf(outbox) = {Head(outbox)} \cup MessagesOf(outbox')
    BY <2>1, HeldAppend, HeldHead
  <2> QED BY <1>1, <2>1, <2>2
<1>12. CASE StreamDone
  <2> PICK r \in Replies : messages' = Append(messages, r)
    BY <1>12 DEF StreamDone
  <2>1. r \in Message /\ r.role = "assistant"
    BY RepliesType, MessageTypes DEF IInv, TypeOK, RestTypeOK, AssistantMessage
  <2> QED BY <1>5, <1>12, <2>1 DEF StreamDone, queueVars
<1>13. CASE ReplyEnd
  <2>1. reply \in Message /\ reply.role = "assistant"
    BY MessageTypes DEF IInv, TypeOK, LoopTypeOK, AssistantMessage
  <2> QED BY <1>5, <1>13, <2>1 DEF ReplyEnd, queueVars
<1>14. CASE ResultEnd
  <2>1. /\ Result(reply.batch, posted + 1) \in Message
        /\ Result(reply.batch, posted + 1).role = "toolResult"
    BY <1>14, ResultsType DEF ResultEnd, IInv, Result
  <2> QED BY <1>5, <1>14, <2>1 DEF ResultEnd, queueVars, loopVars
<1>15. CASE FollowUpTurn
  <2>1. /\ outbox' = Drained(mode["followUp"], followUpQueue)
        /\ UNCHANGED <<messages, steeringQueue>> /\ (Polled' => Polled)
    BY <1>15 DEF FollowUpTurn, BeginTurn, stateVars
  <2>2. outbox' \in Seq(UserOf({"followUp"}))
    BY <2>1, DrainType
  <2>3. DOMAIN outbox' = 1..Len(outbox')
    BY <2>2, LenProperties
  <2>4. \A i \in 1..Len(outbox') : outbox'[i].kind = "followUp"
    BY <2>2, QueueKinds
  <2>5. \A p \in MessagesOf(outbox') : ~OfKind(p, "prompt")
    BY <2>3, <2>4 DEF MessagesOf, OfKind
  <2> QED BY <1>1, <2>1, <2>5
<1>16. CASE FailRun \/ Finish
  <2>1. ~Polled'
    BY <1>16 DEF FailRun, Finish, LeaveRun, BecomeIdle
  <2> QED BY <1>6, <2>1
<1>17. CASE Reset \/ ClearQueues
  BY <1>2, <1>7, <1>17 DEF Reset, ClearQueues, stateVars, loopVars
<1>18. CASE Steer
  <2> DEFINE m == User("steer", submitted + 1)
  <2>1. m \in UserMessage /\ m.id = submitted + 1
    BY DEF User, UserMessage, UserOf, Kinds
  <2>2. /\ steeringQueue' = Append(steeringQueue, m)
        /\ UNCHANGED <<messages, outbox>> /\ (Polled' => Polled)
    BY <1>18 DEF Steer, stateVars, loopVars
  <2> HIDE DEF m
  <2>3. MessagesOf(steeringQueue') = MessagesOf(steeringQueue) \cup {m}
    BY <2>1, <2>2, HeldAppend, MessageTypes
  <2>4. \A p \in H : OfKind(p, "prompt") => p.id < m.id
    BY <1>4, <2>1 DEF OfKind
  <2> QED BY <2>2, <2>3, <2>4 DEF OverdueInv, NewerThanPrompts
<1>19. CASE \/ FirstTurn \/ DeliverStart \/ Request \/ StreamStart \/ StreamUpdate
            \/ ReplyStart \/ ResultStart \/ TurnEnd \/ AgentEnd
  BY <1>7, <1>19
     DEF FirstTurn, DeliverStart, Request, StreamStart, StreamUpdate, ReplyStart,
         ResultStart, TurnEnd, BatchOver, AgentEnd, stateVars, queueVars, loopVars
<1>20. ASSUME NEW i \in Calls,
              \/ ToolStart(i) \/ RejectCall(i) \/ AcceptCall(i)
              \/ SequentialEnd(i) \/ TaskEnd(i) \/ TaskReturn(i)
       PROVE  OverdueInv'
  BY <1>7, <1>20
     DEF ToolStart, RejectCall, AcceptCall, SequentialEnd, TaskEnd, TaskReturn,
         FinishCall, stateVars, queueVars, loopVars
<1>21. CASE \/ \E c \in orphans : OrphanEnd(c)
            \/ FollowUp \/ Abort
            \/ \E w \in Waiters : WaitForIdle(w) \/ CancelWaiter(w) \/ WaiterReturns(w)
  BY <1>7, <1>21
     DEF OrphanEnd, FollowUp, Abort, WaitForIdle, CancelWaiter, WaiterReturns,
         stateVars, queueVars, loopVars
<1> HIDE DEF H, Polled
<1> QED
  BY <1>8, <1>9, <1>10, <1>11, <1>12, <1>13, <1>14, <1>15, <1>16, <1>17, <1>18,
     <1>19, <1>20, <1>21, PollCases

\* While nobody cancels a run or sets a mode, whatever listeners raise and
\* whoever resets: a run polls the steering queue exactly once before its
\* first request.  Messages that come one at a time have a reply between
\* them, and no steering that comes all at once is older than a prompt that
\* is in the request.
THEOREM FirstPollOnce ==
  ASSUME {"cancel", "mode"} \cap Disruptions = {}
  PROVE  SafeSpec => []PolledOnce
<1> DEFINE Held(k) == mode[k] = "one-at-a-time" => PollInv(k)
           Polls == /\ FirstPollInv /\ Held("steer") /\ Held("followUp")
                    /\ mode["steer"] = "all" => OverdueInv
<1>1. Init => OrderInv /\ Polls
  <2>1. Init => OrderInv /\ FirstPollInv /\ OverdueInv
    BY NoneBefore DEF Init, OrderInv, FirstPollInv, OverdueInv
  <2>2. ASSUME NEW k PROVE Init => PollInv(k)
    BY PollNone DEF Init, PollInv
  <2> QED BY <2>1, <2>2
<1>2. IInv /\ OrderInv /\ [Next]_vars => OrderInv'
  <2>1. ASSUME OrderInv, UNCHANGED vars PROVE OrderInv'
    BY <2>1 DEF OrderInv, vars, stateVars, queueVars, loopVars, restVars
  <2> QED BY <2>1, OrderStep
<1>3. IInv /\ OrderInv /\ Polls /\ [Next]_vars => Polls'
  <2>1. ASSUME Polls, UNCHANGED vars PROVE Polls'
    BY <2>1 DEF PollInv, FirstPollInv, OverdueInv, NewerThanPrompts, vars, stateVars,
                queueVars, loopVars
  <2>2. ASSUME IInv, OrderInv, Polls, Next PROVE Polls'
    <3>1. mode' = mode
      BY <2>2, PollCases
    <3>2. FirstPollInv'
      BY <2>2, FirstPollStep
    <3>3. ASSUME NEW k \in {"steer", "followUp"}, Held(k) PROVE Held(k)'
      BY <2>2, <3>1, <3>3, PollStep
    <3>4. mode'["steer"] = "all" => OverdueInv'
      BY <2>2, <3>1, OverdueStep
    <3> QED BY <2>2, <3>2, <3>3, <3>4
  <2> QED BY <2>1, <2>2
<1>4. IInv /\ Polls => PolledOnce
  <2> SUFFICES ASSUME IInv, Polls PROVE PolledOnce
    OBVIOUS
  <2>1. DOMAIN messages = 1..Len(messages)
    BY WaySequences, LenProperties
  <2>2. OneAtATime
    BY <2>1 DEF OneAtATime, KindAt, PollInv, Apart, OfKind
  <2>3. NoneOverdue
    BY DEF NoneOverdue, OverdueInv, NewerThanPrompts, KindAt, OfKind, MessagesOf,
           FirstPollInv, Beginning
  <2> QED BY <2>2, <2>3 DEF PolledOnce
<1> HIDE DEF Polls
<1> QED BY Inductive, <1>1, <1>2, <1>3, <1>4, PTL DEF SafeSpec

-----------------------------------------------------------------------------
(***************************************************************************)
(* The transcript handed over.  What the transformation holds after a part *)
(* of the history, HandingOver: either a reply waits, the last one that    *)
(* lasts, whose first results have come; or nothing waits, since a message *)
(* of the user was the last or a reset has cut off all but results.  What  *)
(* came before is answered.  As the results of a reply stand behind it in  *)
(* the history, and no other reply has its number, the next result is the  *)
(* next one of the reply that waits.                                       *)
(***************************************************************************)
\* The ids, the messages and the locals of the transformation.
Id == (Nat \X Nat) \X {"original", "normalized"}
OutMessage ==
  UserMessage
    \cup [role : {"assistant"}, ids : Seq(Id)]
    \cup [role : {"toolResult"}, id : Id, synthetic : BOOLEAN]
HandoverState ==
  [out : Seq(OutMessage), calls : SUBSET (Nat \X Nat), pending : Seq(Id), answered : SUBSET Id]

\* An id remembers its call.
LEMMA IdTypes ==
  ASSUME NEW kept, NEW c \in Nat \X Nat
  PROVE  /\ Original(c) \in Id /\ Normalized(kept, c) \in Id
         /\ Original(c)[1] = c /\ Normalized(kept, c)[1] = c
BY DEF Original, Normalized, Id

\* The numbers in a message are numbers.
LEMMA NumberTypes ==
  ASSUME NEW m \in Message
  PROVE  /\ m.role \in {"user", "assistant", "toolResult"}
         /\ m.role = "user" => m \in UserMessage
         /\ m.role = "assistant" => m.batch \in Nat /\ m.calls \in Nat
         /\ m.role = "toolResult" => m.batch \in Nat /\ m.call \in Nat
BY AgentAssumption DEF Message, UserMessage, UserOf, AssistantMessage, ToolResultMessage, Calls

\* What flush_pending has made after each pending call.
Makes(f, h) ==
  /\ f[0] = h.out
  /\ \A n \in 1..Len(h.pending) :
       f[n] = IF h.pending[n] \in h.answered THEN f[n - 1]
              ELSE Append(f[n - 1], NoResultProvided(h.pending[n]))

\* g is h after flush_pending, which has made out.
Flushed(g, h, out) ==
  /\ g \in HandoverState /\ g.out = out /\ g.pending = <<>>
  /\ g.calls = h.calls /\ g.answered \subseteq h.answered

\* A made-up result is a message of the output.
LEMMA MadeTypes ==
  ASSUME NEW id \in Id
  PROVE  NoResultProvided(id) \in OutMessage
BY DEF NoResultProvided, OutMessage

\* The fields that a flush changes.
LEMMA FlushFields ==
  ASSUME NEW h \in HandoverState, NEW o \in Seq(OutMessage)
  PROVE  Flushed([h EXCEPT !.out = o, !.pending = <<>>, !.answered = {}], h, o)
<1> DEFINE g == [h EXCEPT !.out = o, !.pending = <<>>, !.answered = {}]
<1>1. g.out = o /\ g.pending = <<>> /\ g.calls = h.calls /\ g.answered = {}
  BY DEF HandoverState
<1>3. <<>> \in Seq(Id) /\ h.calls \in SUBSET (Nat \X Nat) /\ {} \in SUBSET Id
  BY DEF HandoverState
<1>4. g \in HandoverState
  BY <1>3 DEF HandoverState
<1> HIDE DEF g
<1>5. Flushed(g, h, o)
  BY <1>1, <1>4 DEF Flushed
<1> QED BY <1>5 DEF g

\* flush_pending goes through the pending calls.
LEMMA FlushSteps ==
  ASSUME NEW h \in HandoverState
  PROVE  \E f \in [0..Len(h.pending) -> Seq(OutMessage)] :
           Makes(f, h) /\ Flushed(FlushPending(h), h, f[Len(h.pending)])
<1> DEFINE k == Len(h.pending)
           Made(o, n) == IF h.pending[n] \in h.answered THEN o
                         ELSE Append(o, NoResultProvided(h.pending[n]))
           step == [n \in 1..k |-> [o \in Seq(OutMessage) |-> Made(o, n)]]
<1>1. /\ k \in Nat /\ h.out \in Seq(OutMessage) /\ h.pending \in Seq(Id)
      /\ \A n \in 1..k : h.pending[n] \in Id
  BY DEF HandoverState
<1>2. \A n \in 1..k : \A o \in Seq(OutMessage) : Made(o, n) \in Seq(OutMessage)
  BY <1>1, MadeTypes, AppendProperties
<1>3. step \in [1..k -> [Seq(OutMessage) -> Seq(OutMessage)]]
  <2> HIDE DEF Made
  <2> QED BY <1>2
<1>4. \A n \in 1..k : \A o \in Seq(OutMessage) : step[n][o] = Made(o, n)
  <2> HIDE DEF Made
  <2> QED OBVIOUS
<1> HIDE DEF step, Made
<1>5. PICK a \in [0..k -> Seq(OutMessage)] : Recurs(a, k, h.out, step)
  <2> HIDE DEF k
  <2> QED BY <1>1, <1>3, Recursion
<1>6. ASSUME NEW n \in 1..k PROVE a[n] = Made(a[n - 1], n)
  <2>1. n - 1 \in 0..k
    BY <1>1
  <2>2. a[n - 1] \in Seq(OutMessage)
    BY <2>1
  <2> QED BY <1>4, <1>5, <2>2 DEF Recurs
<1>7. a[0] = h.out
  BY <1>5 DEF Recurs
<1> DEFINE Walk(u) == u = [n \in 0 .. k |->
                             IF n = 0 THEN h.out
                             ELSE IF h.pending[n] \in h.answered THEN u[n - 1]
                             ELSE Append(u[n - 1], NoResultProvided(h.pending[n]))]
           c == CHOOSE u : Walk(u)
<1>8. Walk(a)
  <2>1. \A n \in 0..k : n # 0 => n \in 1..k
    BY <1>1
  <2> HIDE DEF k
  <2> QED BY <1>6, <1>7, <2>1 DEF Made
<1>9. Walk(c)
  <2> HIDE DEF Walk
  <2> QED BY <1>8
<1>10. Makes(c, h)
  <2> HIDE DEF c
  <2>1. 0 \in 0..k /\ \A n \in 1..k : n \in 0..k /\ n # 0
    BY <1>1
  <2>2. c[0] = h.out
    BY <1>9, <2>1
  <2>3. ASSUME NEW n \in 1..k
        PROVE  c[n] = IF h.pending[n] \in h.answered THEN c[n - 1]
                      ELSE Append(c[n - 1], NoResultProvided(h.pending[n]))
    BY <1>9, <2>1
  <2> QED BY <2>2, <2>3 DEF Makes
<1>11. c \in [0..k -> Seq(OutMessage)]
  <2> HIDE DEF c
  <2> DEFINE S == {n \in 0..k : c[n] \in Seq(OutMessage)}
  <2>1. 0 \in S
    BY <1>1, <1>10 DEF Makes
  <2>2. ASSUME NEW n \in 0..(k - 1), n \in S PROVE n + 1 \in S
    <3>1. PICK i \in 1..k : i = n + 1
      BY <1>1
    <3>2. i - 1 = n /\ c[i] = Made(c[i - 1], i)
      BY <3>1, <1>10 DEF Makes, Made
    <3> HIDE DEF k
    <3>3. c[i] \in Seq(OutMessage)
      BY <1>2, <2>2, <3>2
    <3> QED BY <3>1, <3>3, <1>1
  <2>3. 0..k \subseteq S
    <3> HIDE DEF S, k
    <3> QED BY <1>1, <2>1, <2>2, BoundedInduction
  <2> HIDE DEF k
  <2>4. DOMAIN c = 0..k /\ c = [n \in 0..k |-> c[n]]
    BY <1>9
  <2> QED BY <2>3, <2>4
<1>12. FlushPending(h) = IF h.pending = <<>> THEN h
                         ELSE [h EXCEPT !.out = c[k], !.pending = <<>>, !.answered = {}]
  BY DEF FlushPending, c
<1>13. c[k] \in Seq(OutMessage)
  <2> HIDE DEF c, k
  <2> QED BY <1>1, <1>11
<1>14. Flushed(FlushPending(h), h, c[k])
  <2> HIDE DEF c
  <2>1. CASE h.pending = <<>>
    <3>1. k = 0 /\ c[k] = h.out
      BY <2>1, <1>10 DEF Makes
    <3> HIDE DEF k
    <3> QED BY <1>12, <2>1, <3>1 DEF Flushed
  <2>2. CASE h.pending # <<>>
    <3> HIDE DEF k
    <3>1. DEFINE o == c[k]
    <3>2. o \in Seq(OutMessage)
      BY <1>13
    <3>3. FlushPending(h) = [h EXCEPT !.out = o, !.pending = <<>>, !.answered = {}]
      BY <1>12, <2>2
    <3> HIDE DEF o
    <3>4. Flushed(FlushPending(h), h, o)
      BY <3>2, <3>3, FlushFields
    <3> QED BY <3>4 DEF o
  <2> QED BY <2>1, <2>2
<1> QED
  <2> HIDE DEF c
  <2> QED BY <1>10, <1>11, <1>14

\* What flush_pending makes when the first j of the pending calls have results:
\* all of the old output, then an answer for each of the others.
Completed(new, old, ids, j) ==
  /\ Len(new) = (Len(old) - j) + Len(ids)
  /\ \A r \in 1..Len(old) : new[r] = old[r]
  /\ \A k \in (j + 1)..Len(ids) :
       new[(Len(old) - j) + k] = NoResultProvided(ids[k])

\* So much is made of the pending calls.
LEMMA FlushCompletes ==
  ASSUME NEW h \in HandoverState, NEW j \in 0..Len(h.pending),
         \A k \in 1..Len(h.pending) : h.pending[k] \in h.answered <=> k <= j
  PROVE  Completed(FlushPending(h).out, h.out, h.pending, j)
<1>1. PICK f \in [0..Len(h.pending) -> Seq(OutMessage)] :
        Makes(f, h) /\ Flushed(FlushPending(h), h, f[Len(h.pending)])
  BY FlushSteps
<1> DEFINE m == Len(h.pending)
           n == Len(h.out)
           old == h.out
           Long(l) == IF l <= j THEN n ELSE n + (l - j)
           Good(l) == /\ Len(f[l]) = Long(l)
                      /\ \A r \in 1..n : f[l][r] = old[r]
                      /\ \A k \in (j + 1)..l : f[l][(n - j) + k] = NoResultProvided(h.pending[k])
           S == {l \in 0..m : Good(l)}
<1>2. m \in Nat /\ n \in Nat /\ j \in Nat /\ j <= m /\ \A k \in 1..m : h.pending[k] \in Id
  BY DEF HandoverState
<1>3. 0 \in S
  BY <1>1, <1>2 DEF Makes
<1>4. ASSUME NEW l \in 0..(m - 1), l \in S PROVE l + 1 \in S
  <2>1. PICK k \in 1..m : k = l + 1
    BY <1>2
  <2>2. k - 1 = l /\ l \in 0..m /\ k \in 0..m
    BY <1>2, <2>1
  <2>3. /\ f[l] \in Seq(OutMessage)
        /\ f[k] = IF k <= j THEN f[l] ELSE Append(f[l], NoResultProvided(h.pending[k]))
    BY <1>1, <2>2 DEF Makes
  <2>4. NoResultProvided(h.pending[k]) \in OutMessage
    BY <1>2, MadeTypes
  <2> DEFINE e == NoResultProvided(h.pending[k])
             a == f[l]
             b == f[k]
  <2>5. Good(l)
    BY <1>4
  <2>6. CASE k <= j
    <3>1. b = a /\ Long(k) = Long(l)
      BY <1>2, <2>1, <2>3, <2>6
    <3>2. \A i \in (j + 1)..k : FALSE
      BY <1>2, <2>6
    <3> HIDE DEF m, n, old, Long
    <3> QED BY <2>1, <2>2, <2>5, <3>1, <3>2
  <2>7. CASE k > j
    <3>1. b = Append(a, e) /\ a \in Seq(OutMessage) /\ e \in OutMessage
      BY <1>2, <2>3, <2>4, <2>7
    <3> HIDE DEF a, b, e
    <3>2. /\ Len(a) \in Nat /\ Len(b) = Len(a) + 1 /\ b[Len(a) + 1] = e
          /\ \A i \in 1..Len(a) : b[i] = a[i]
      BY <3>1, AppendProperties
    <3>3. Len(a) = n + (l - j) /\ Long(k) = Len(a) + 1 /\ Len(a) + 1 = (n - j) + k
      <4>1. Len(a) = Long(l)
        BY <2>5 DEF a
      <4> HIDE DEF m, n, a
      <4>2. l = j => n = n + (l - j)
        BY <1>2
      <4>3. Long(l) = n + (l - j) /\ Long(k) = n + (k - j)
        BY <1>2, <2>1, <2>7
      <4>4. n \in Int /\ j \in Int /\ l \in Int /\ k = l + 1
        BY <1>2, <2>1
      <4> HIDE DEF Long
      <4> QED BY <4>1, <4>3, <4>4
    <3>4. /\ \A r \in 1..n : a[r] = old[r]
          /\ \A i \in (j + 1)..l : a[(n - j) + i] = NoResultProvided(h.pending[i])
      BY <2>5 DEF a
    <3> HIDE DEF m, n, old, Long
    <3>5. \A r \in 1..n : b[r] = old[r]
      <4>1. \A r \in 1..n : r \in 1..Len(a)
        BY <1>2, <2>1, <2>7, <3>3
      <4> QED BY <3>2, <3>4, <4>1
    <3>6. ASSUME NEW i \in (j + 1)..k PROVE b[(n - j) + i] = NoResultProvided(h.pending[i])
      <4>1. CASE i = k
        BY <3>2, <3>3, <4>1 DEF e
      <4>2. CASE i # k
        <5>1. i \in (j + 1)..l
          BY <1>2, <2>1, <4>2
        <5>2. PICK r \in 1..Len(a) : r = (n - j) + i
          <6>1. i >= j + 1 /\ i <= l /\ i \in Int
            BY <1>2, <2>1, <5>1
          <6>2. (n - j) + i \in 1..Len(a)
            BY <1>2, <2>1, <3>3, <6>1
          <6> QED BY <6>2
        <5>3. b[r] = a[r]
          BY <3>2
        <5> QED BY <3>4, <5>1, <5>2, <5>3
      <4> QED BY <4>1, <4>2
    <3>7. Len(b) = Long(k)
      BY <3>2, <3>3
    <3>8. Good(k)
      BY <3>5, <3>6, <3>7 DEF b
    <3> QED BY <2>1, <2>2, <3>8
  <2> QED BY <1>2, <2>6, <2>7
<1>5. 0..m \subseteq S
  <2> HIDE DEF S, m
  <2> QED BY <1>2, <1>3, <1>4, BoundedInduction
<1>6. Good(m) /\ Long(m) = (n - j) + m
  <2>1. m \in 0..m
    BY <1>2
  <2>2. Long(m) = (n - j) + m
    <3> HIDE DEF m, n
    <3> QED BY <1>2
  <2> HIDE DEF m, n, old, Long
  <2> QED BY <1>5, <2>1, <2>2
<1>7. FlushPending(h).out = f[m]
  BY <1>1 DEF Flushed
<1> QED BY <1>6, <1>7 DEF Completed

\* What a reply and a result become.
IdsOf(kept, m) == [i \in 1..m.calls |-> Normalized(kept, <<m.batch, i>>)]
OutReply(kept, m) == [role |-> "assistant", ids |-> IdsOf(kept, m)]
OutResult(id) == [role |-> "toolResult", id |-> id, synthetic |-> FALSE]
OutId(kept, h, m) ==
  IF <<m.batch, m.call>> \in h.calls THEN Normalized(kept, <<m.batch, m.call>>)
  ELSE Original(<<m.batch, m.call>>)

\* The ids of the calls of a reply, in the order of the calls.
LEMMA IdsTypes ==
  ASSUME NEW kept, NEW m \in Message, m.role = "assistant"
  PROVE  /\ IdsOf(kept, m) \in Seq(Id) /\ Len(IdsOf(kept, m)) = m.calls /\ m.calls \in Nat
         /\ \A k \in 1..m.calls : /\ IdsOf(kept, m)[k] = Normalized(kept, <<m.batch, k>>)
                                  /\ IdsOf(kept, m)[k][1] = <<m.batch, k>>
         /\ OutReply(kept, m) \in OutMessage
<1>1. m.calls \in Nat /\ m.batch \in Nat
  BY NumberTypes
<1>2. \A k \in 1..m.calls : /\ Normalized(kept, <<m.batch, k>>) \in Id
                            /\ Normalized(kept, <<m.batch, k>>)[1] = <<m.batch, k>>
  BY <1>1, IdTypes
<1>3. IdsOf(kept, m) \in Seq(Id) /\ Len(IdsOf(kept, m)) = m.calls
  <2> DEFINE n == m.calls
             f == IdsOf(kept, m)
  <2>1. f \in [1..n -> Id] /\ n \in Nat
    BY <1>1, <1>2 DEF IdsOf
  <2> HIDE DEF f, n
  <2>2. f \in Seq(Id) /\ Len(f) = n
    BY <2>1
  <2> QED BY <2>2 DEF f, n
<1>4. \A k \in 1..m.calls : IdsOf(kept, m)[k] = Normalized(kept, <<m.batch, k>>)
  BY DEF IdsOf
<1>5. OutReply(kept, m) \in OutMessage
  BY <1>3 DEF OutReply, OutMessage
<1> QED BY <1>1, <1>2, <1>3, <1>4, <1>5

\* g is h after a message that does not flush, or after what follows the flush.
Becomes(g, h, out, calls, ids, answered) ==
  /\ g \in HandoverState
  /\ g.out = Append(h.out, out) /\ g.calls = h.calls \cup calls
  /\ g.pending = h.pending \o ids /\ g.answered = h.answered \cup answered

\* The types of the locals.
LEMMA StateFields ==
  ASSUME NEW h \in HandoverState
  PROVE  /\ h.out \in Seq(OutMessage) /\ h.calls \in SUBSET (Nat \X Nat)
         /\ h.pending \in Seq(Id) /\ h.answered \in SUBSET Id
BY DEF HandoverState

\* A result is appended, and its call is answered.
LEMMA ResultGives ==
  ASSUME NEW kept, NEW h \in HandoverState, NEW m \in Message, m.role = "toolResult"
  PROVE  /\ OutId(kept, h, m) \in Id /\ OutId(kept, h, m)[1] = <<m.batch, m.call>>
         /\ OutResult(OutId(kept, h, m)) \in OutMessage
         /\ Becomes(HandOver(kept, h, m), h, OutResult(OutId(kept, h, m)), {}, <<>>,
                    {OutId(kept, h, m)})
<1> DEFINE id == OutId(kept, h, m)
           e == OutResult(id)
           o == Append(h.out, e)
           a == h.answered \cup {id}
           g == [h EXCEPT !.answered = a, !.out = o]
<1>1. id \in Id /\ id[1] = <<m.batch, m.call>>
  <2>1. <<m.batch, m.call>> \in Nat \X Nat
    BY NumberTypes
  <2> QED BY <2>1, IdTypes DEF OutId
<1>2. HandOver(kept, h, m) = g
  BY DEF HandOver, HandOverResult, OutId, OutResult, HandoverState
<1> HIDE DEF id
<1>3. e \in OutMessage
  BY <1>1 DEF OutMessage, OutResult
<1> HIDE DEF e
<1>4. o \in Seq(OutMessage) /\ a \in SUBSET Id
  BY <1>1, <1>3, StateFields, AppendProperties
<1>5. o = Append(h.out, e) /\ a = h.answered \cup {id}
  OBVIOUS
<1> HIDE DEF o, a
<1>6. g.out = o /\ g.answered = a /\ g.calls = h.calls /\ g.pending = h.pending
  BY DEF HandoverState
<1>7. g \in HandoverState
  BY <1>4 DEF HandoverState
<1> HIDE DEF g
<1>8. h.pending \o <<>> = h.pending
  BY StateFields, ConcatEmptySeq
<1>9. Becomes(g, h, e, {}, <<>>, {id})
  BY <1>5, <1>6, <1>7, <1>8 DEF Becomes
<1> QED BY <1>1, <1>2, <1>3, <1>9 DEF id, e

\* A message from the user is appended after a flush.
LEMMA UserGives ==
  ASSUME NEW kept, NEW h \in HandoverState, NEW m \in Message, m.role = "user"
  PROVE  /\ m \in OutMessage
         /\ Becomes(HandOver(kept, h, m), FlushPending(h), m, {}, <<>>, {})
<1> DEFINE f == FlushPending(h)
           o == Append(f.out, m)
           g == [f EXCEPT !.out = o]
<1>1. f \in HandoverState
  BY FlushSteps DEF Flushed
<1>2. m \in OutMessage
  BY NumberTypes DEF OutMessage
<1>3. HandOver(kept, h, m) = g
  BY DEF HandOver, HandOverUser
<1> HIDE DEF f
<1>4. o \in Seq(OutMessage)
  BY <1>1, <1>2, StateFields, AppendProperties
<1>5. o = Append(f.out, m)
  OBVIOUS
<1> HIDE DEF o
<1>6. g.out = o /\ g.answered = f.answered /\ g.calls = f.calls /\ g.pending = f.pending
  BY <1>1 DEF HandoverState
<1>7. g \in HandoverState
  BY <1>1, <1>4 DEF HandoverState
<1> HIDE DEF g
<1>8. f.pending \o <<>> = f.pending
  BY <1>1, StateFields, ConcatEmptySeq
<1>9. Becomes(g, f, m, {}, <<>>, {})
  BY <1>5, <1>6, <1>7, <1>8 DEF Becomes
<1> QED BY <1>2, <1>3, <1>9 DEF f

\* So is a reply, whose calls are pending then.
LEMMA ReplyGives ==
  ASSUME NEW kept, NEW h \in HandoverState, NEW m \in Message, Lasting(m)
  PROVE  Becomes(HandOver(kept, h, m), FlushPending(h), OutReply(kept, m),
                 {m.batch} \X (1..m.calls), IdsOf(kept, m), {})
<1> DEFINE f == FlushPending(h)
           ids == IdsOf(kept, m)
           e == OutReply(kept, m)
           new == {m.batch} \X (1..m.calls)
           o == Append(f.out, e)
           c == f.calls \cup new
           w == f.pending \o ids
           g == [f EXCEPT !.calls = c, !.pending = w, !.out = o]
<1>1. f \in HandoverState
  BY FlushSteps DEF Flushed
<1>2. ids \in Seq(Id) /\ e \in OutMessage /\ new \in SUBSET (Nat \X Nat)
  <2>1. m.role = "assistant"
    BY DEF Lasting
  <2>2. m.batch \in Nat /\ m.calls \in Nat
    BY <2>1, NumberTypes
  <2> QED BY <2>1, <2>2, IdsTypes
<1>3. HandOver(kept, h, m) = g
  <2>1. HandOver(kept, h, m) = HandOverReply(kept, h, m)
    BY DEF HandOver, Lasting
  <2>2. HandOverReply(kept, h, m) = [f EXCEPT !.calls = @ \cup new, !.pending = @ \o ids,
                                              !.out = Append(@, e)]
    BY DEF HandOverReply, OutReply, IdsOf
  <2> HIDE DEF f, ids, e, new
  <2> QED BY <1>1, <2>1, <2>2 DEF HandoverState
<1> HIDE DEF f, ids, e, new
<1>4. o \in Seq(OutMessage) /\ c \in SUBSET (Nat \X Nat) /\ w \in Seq(Id)
  BY <1>1, <1>2, StateFields, AppendProperties, ConcatProperties
<1>5. o = Append(f.out, e) /\ c = f.calls \cup new /\ w = f.pending \o ids
  OBVIOUS
<1> HIDE DEF o, c, w
<1>6. g.out = o /\ g.answered = f.answered /\ g.calls = c /\ g.pending = w
  BY <1>1 DEF HandoverState
<1>7. g \in HandoverState
  BY <1>1, <1>4 DEF HandoverState
<1> HIDE DEF g
<1>8. Becomes(g, f, e, new, ids, {})
  BY <1>5, <1>6, <1>7 DEF Becomes
<1> QED BY <1>3, <1>8 DEF f, ids, e, new

\* The locals keep their types; a failed reply changes none of them.
LEMMA HandOverTypes ==
  ASSUME NEW kept, NEW h \in HandoverState, NEW m \in Message
  PROVE  /\ HandOver(kept, h, m) \in HandoverState
         /\ m.role = "assistant" /\ ~Lasting(m) => HandOver(kept, h, m) = h
<1>1. m.role \in {"user", "assistant", "toolResult"}
  BY NumberTypes
<1>2. CASE m.role = "user"
  BY <1>2, UserGives DEF Becomes
<1>3. CASE m.role = "toolResult"
  BY <1>3, ResultGives DEF Becomes
<1>4. CASE Lasting(m)
  BY <1>4, ReplyGives DEF Becomes, Lasting
<1>5. ASSUME m.role = "assistant", ~Lasting(m)
      PROVE  HandOver(kept, h, m) = h
  BY <1>5 DEF HandOver, Lasting
<1> QED BY <1>1, <1>2, <1>3, <1>4, <1>5

\* f are the states of the transformation after the first message, the second, ...
Passes(f, kept, s) ==
  /\ f[0] = NothingYet
  /\ \A i \in 1..Len(s) : f[i] = HandOver(kept, f[i - 1], s[i])
\* The last flush makes the output.
Ends(kept, s, h) == Handoff(kept, s) = FlushPending(h).out

\* The transformation goes through these states.
LEMMA HandoffSteps ==
  ASSUME NEW kept, NEW s \in Seq(Message)
  PROVE  \E f \in [0..Len(s) -> HandoverState] :
           Passes(f, kept, s) /\ Ends(kept, s, f[Len(s)])
<1> DEFINE k == Len(s)
           step == [n \in 1..k |-> [h \in HandoverState |-> HandOver(kept, h, s[n])]]
<1>1. k \in Nat /\ \A n \in 1..k : s[n] \in Message
  OBVIOUS
<1>2. NothingYet \in HandoverState
  BY DEF NothingYet, HandoverState
<1>3. step \in [1..k -> [HandoverState -> HandoverState]]
  BY <1>1, HandOverTypes
<1>4. \A n \in 1..k : \A h \in HandoverState : step[n][h] = HandOver(kept, h, s[n])
  OBVIOUS
<1> HIDE DEF step
<1>5. PICK a \in [0..k -> HandoverState] : Recurs(a, k, NothingYet, step)
  <2> HIDE DEF k
  <2> QED BY <1>1, <1>2, <1>3, Recursion
<1>6. ASSUME NEW n \in 1..k PROVE a[n] = HandOver(kept, a[n - 1], s[n])
  <2>1. n - 1 \in 0..k
    BY <1>1
  <2>2. a[n - 1] \in HandoverState
    BY <2>1
  <2> QED BY <1>4, <1>5, <2>2 DEF Recurs
<1>7. a[0] = NothingYet
  BY <1>5 DEF Recurs
<1> DEFINE Walk(u) == u = [n \in 0 .. k |->
                             IF n = 0 THEN NothingYet
                             ELSE HandOver(kept, u[n - 1], s[n])]
           c == CHOOSE u : Walk(u)
<1>8. Walk(a)
  <2>1. \A n \in 0..k : n # 0 => n \in 1..k
    BY <1>1
  <2> HIDE DEF k
  <2> QED BY <1>6, <1>7, <2>1
<1>9. Walk(c)
  <2> HIDE DEF Walk
  <2> QED BY <1>8
<1>10. Handoff(kept, s) = FlushPending(c[k]).out
  BY DEF Handoff, c
<1> HIDE DEF c
<1>11. Passes(c, kept, s)
  <2>1. 0 \in 0..k /\ \A n \in 1..k : n \in 0..k /\ n # 0
    BY <1>1
  <2>2. c[0] = NothingYet
    BY <1>9, <2>1
  <2>3. ASSUME NEW n \in 1..k PROVE c[n] = HandOver(kept, c[n - 1], s[n])
    BY <1>9, <2>1
  <2> QED BY <2>2, <2>3 DEF Passes
<1>12. c \in [0..k -> HandoverState]
  <2> DEFINE S == {n \in 0..k : c[n] \in HandoverState}
  <2>1. 0 \in S
    BY <1>1, <1>2, <1>11 DEF Passes
  <2>2. ASSUME NEW n \in 0..(k - 1), n \in S PROVE n + 1 \in S
    <3>1. PICK i \in 1..k : i = n + 1
      BY <1>1
    <3>2. i - 1 = n /\ c[i] = HandOver(kept, c[i - 1], s[i])
      BY <3>1, <1>11 DEF Passes
    <3> HIDE DEF k
    <3>3. c[i] \in HandoverState
      BY <1>1, <2>2, <3>2, HandOverTypes
    <3> QED BY <3>1, <3>3, <1>1
  <2>3. 0..k \subseteq S
    <3> HIDE DEF S, k
    <3> QED BY <1>1, <2>1, <2>2, BoundedInduction
  <2>4. DOMAIN c = 0..k /\ c = [n \in 0..k |-> c[n]]
    <3> HIDE DEF k
    <3> QED BY <1>9
  <2> HIDE DEF k
  <2> QED BY <2>3, <2>4
<1> QED BY <1>10, <1>11, <1>12 DEF Ends

\* The call c has a result among the first n messages.
HasResult(s, n, c) ==
  \E r \in 1..n : s[r].role = "toolResult" /\ c = <<s[r].batch, s[r].call>>

\* A result that has the id of a call of a reply that lasts is the one behind it.
LEMMA ResultsBehind ==
  ASSUME NEW s \in Seq(Message), InPlace(s), Numbered(s),
         NEW q \in 1..Len(s), Lasting(s[q]), NEW k \in 1..s[q].calls,
         HasResult(s, Len(s), <<s[q].batch, k>>)
  PROVE  q + k <= Len(s) /\ Behind(s, q, q + k)
<1>1. Len(s) \in Nat /\ \A p \in 1..Len(s) : s[p] \in Message
  OBVIOUS
<1>2. PICK r \in 1..Len(s) : /\ s[r].role = "toolResult"
                             /\ s[r].batch = s[q].batch /\ s[r].call = k
  BY DEF HasResult
<1>3. /\ s[q].role = "assistant" /\ s[q].calls \in Nat /\ s[q].calls > 0 /\ s[q].batch \in Nat
      /\ Numbers(s[q]) /\ Numbers(s[r])
  BY <1>1, <1>2, NumberTypes DEF Lasting, Numbers
<1>4. ~(r < q)
  BY <1>2, <1>3 DEF Numbered
<1>5. r > q
  BY <1>1, <1>2, <1>3, <1>4
<1>6. ~ \A i \in 1..r : s[i].role = "toolResult"
  BY <1>3, <1>5
<1>7. PICK p \in 1..(r - 1) : Behind(s, p, r)
  BY <1>2, <1>6 DEF InPlace
<1>8. /\ p \in 1..Len(s) /\ s[r] = Result(s[p].batch, r - p) /\ r - p <= s[p].calls
      /\ s[p].role = "assistant"
  BY <1>1, <1>7 DEF Behind, Lasting
<1>9. s[p].calls \in Nat /\ s[p].calls > 0 /\ s[p].batch = s[q].batch /\ k = r - p
  <2>1. s[p].calls \in Nat
    BY <1>1, <1>8, NumberTypes
  <2> QED BY <1>2, <1>7, <1>8, <2>1 DEF Result
<1>10. ~(p < q) /\ ~(q < p)
  BY <1>3, <1>8, <1>9 DEF Numbered, Numbers
<1>11. p = q
  BY <1>8, <1>10
<1>12. r = q + k
  BY <1>9, <1>11
<1> QED BY <1>7, <1>11, <1>12

\* The answers to the reply at p of the output, which end before t.
Answer(s, m, id) ==
  m.role = "toolResult" /\ m.id = id /\ (m.synthetic <=> ~HasResult(s, Len(s), id[1]))

AnswersAt(s, out, p, t) ==
  LET ids == out[p].ids IN
  /\ p + Len(ids) < t
  /\ \A k \in 1..Len(ids) : Answer(s, out[p + k], ids[k])
  /\ p + Len(ids) + 1 < t => out[p + Len(ids) + 1].role # "toolResult"

\* Every reply before t is answered before t.
FineTo(s, out, t) == \A p \in 1..(t - 1) : out[p].role = "assistant" => AnswersAt(s, out, p, t)

\* No result stands behind a message from the user.
Gapless(out) ==
  \A p \in 1..Len(out) : out[p].role = "toolResult" /\ p > 1 => out[p - 1].role # "user"

\* The output of a history that a reset has cut off in a batch.
OnlyAnswers(out) == \A p \in 1..Len(out) : out[p].role = "toolResult"

\* The reply at q waits for more results, and has j of them.
WaitsFor(kept, s, i, h, q, j) ==
  /\ Lasting(s[q]) /\ q + j <= i /\ j <= s[q].calls
  /\ \A r \in (q + 1)..(q + j) : s[r] = Result(s[q].batch, r - q)
  /\ \A r \in (q + j + 1)..i : s[r].role = "assistant" /\ ~Lasting(s[r])
  /\ h.pending = IdsOf(kept, s[q])
  /\ \A k \in 1..s[q].calls : <<s[q].batch, k>> \in h.calls
  /\ \A k \in 1..j : IdsOf(kept, s[q])[k] \in h.answered

\* In the output that reply is followed by the j results it has.
Answering(kept, s, h, q, j) ==
  LET p == Len(h.out) - j IN
  /\ p >= 1 /\ h.out[p] = OutReply(kept, s[q])
  /\ \A k \in 1..j : h.out[p + k] = OutResult(IdsOf(kept, s[q])[k])
  /\ FineTo(s, h.out, p)

\* Some reply of the first i messages waits.
Waits(kept, s, i, h) ==
  \E q \in 1..i : \E j \in 0..(i - q) :
    WaitsFor(kept, s, i, h, q, j) /\ Answering(kept, s, h, q, j)

\* No reply waits.
Rests(s, i, h) ==
  /\ h.pending = <<>>
  /\ \/ OnlyAnswers(h.out)
     \/ Len(h.out) > 0 /\ h.out[Len(h.out)].role = "user" /\ FineTo(s, h.out, Len(h.out))
  /\ \A q \in 1..i : Lasting(s[q]) => \E r \in (q + 1)..i : s[r].role = "user"

\* The invariant of the transformation, after i messages.
HandingOver(kept, s, i, h) ==
  /\ h \in HandoverState
  /\ \A id \in h.answered : HasResult(s, i, id[1])
  /\ Gapless(h.out)
  /\ (\A r \in 1..i : s[r].role = "toolResult") => OnlyAnswers(h.out)
  /\ Waits(kept, s, i, h) \/ Rests(s, i, h)

\* At first there is nothing.
LEMMA HandingInit ==
  ASSUME NEW kept, NEW s
  PROVE  HandingOver(kept, s, 0, NothingYet)
<1>1. NothingYet \in HandoverState
  BY DEF NothingYet, HandoverState
<1> QED BY <1>1 DEF NothingYet, HandingOver, Gapless, OnlyAnswers, Rests

\* A message more at the end of the output.
LEMMA OutAppend ==
  ASSUME NEW o \in Seq(OutMessage), NEW e \in OutMessage, NEW a, a = Append(o, e)
  PROVE  /\ a \in Seq(OutMessage) /\ Len(o) \in Nat /\ Len(a) = Len(o) + 1 /\ a[Len(a)] = e
         /\ a[Len(o) + 1] = e /\ \A p \in 1..Len(o) : a[p] = o[p]
BY AppendProperties, LenProperties

\* What is answered stays so.
LEMMA FineKept ==
  ASSUME NEW s, NEW o, NEW a, NEW t \in Int, t - 1 <= Len(o), Len(o) \in Nat,
         \A p \in 1..Len(o) : a[p] = o[p], o \in Seq(OutMessage),
         FineTo(s, o, t)
  PROVE  FineTo(s, a, t)
<1> SUFFICES ASSUME NEW p \in 1..(t - 1), a[p].role = "assistant"
             PROVE  AnswersAt(s, a, p, t)
  BY DEF FineTo
<1>1. p \in 1..Len(o) /\ a[p] = o[p]
  OBVIOUS
<1>2. AnswersAt(s, o, p, t)
  BY <1>1 DEF FineTo
<1> DEFINE ids == o[p].ids
<1>3. Len(ids) \in Nat
  <2>1. o[p] \in OutMessage
    BY <1>1
  <2>2. ids \in Seq(Id)
    BY <1>1, <2>1 DEF OutMessage, UserMessage, UserOf
  <2> QED BY <2>2, LenProperties
<1>4. /\ p + Len(ids) < t
      /\ \A k \in 1..Len(ids) : Answer(s, o[p + k], ids[k])
      /\ p + Len(ids) + 1 < t => o[p + Len(ids) + 1].role # "toolResult"
  BY <1>2 DEF AnswersAt
<1> HIDE DEF ids
<1>5. \A k \in 1..Len(ids) : a[p + k] = o[p + k]
  <2> SUFFICES ASSUME NEW k \in 1..Len(ids) PROVE p + k \in 1..Len(o)
    OBVIOUS
  <2> QED BY <1>3, <1>4
<1>6. p + Len(ids) + 1 < t => a[p + Len(ids) + 1] = o[p + Len(ids) + 1]
  <2> SUFFICES ASSUME p + Len(ids) + 1 < t PROVE p + Len(ids) + 1 \in 1..Len(o)
    OBVIOUS
  <2> QED BY <1>3
<1>7. a[p].ids = ids
  BY <1>1 DEF ids
<1> QED BY <1>4, <1>5, <1>6, <1>7 DEF AnswersAt

\* What is handed over when nothing waits any more.
Closed(s, out) == Gapless(out) /\ FineTo(s, out, Len(out) + 1)

\* Where no result follows, a flush closes what waits.
LEMMA FlushCloses ==
  ASSUME NEW kept, NEW s \in Seq(Message), InPlace(s), Numbered(s), NEW i \in 0..Len(s),
         NEW h, HandingOver(kept, s, i, h),
         i < Len(s) => s[i + 1].role # "toolResult"
  PROVE  /\ Closed(s, FlushPending(h).out)
         /\ FlushPending(h) \in HandoverState /\ FlushPending(h).pending = <<>>
         /\ FlushPending(h).answered \subseteq h.answered
<1> DEFINE g == FlushPending(h)
<1>1. /\ h \in HandoverState /\ g \in HandoverState /\ g.pending = <<>>
      /\ g.answered \subseteq h.answered
  BY FlushSteps DEF HandingOver, Flushed
<1>2. h.out \in Seq(OutMessage) /\ g.out \in Seq(OutMessage)
  BY <1>1, StateFields
<1>3. CASE Rests(s, i, h)
  <2> DEFINE o == h.out
  <2>1. g.out = o
    BY <1>3 DEF Rests, FlushPending
  <2>2. Len(o) \in Nat
    BY <1>2
  <2>3. FineTo(s, o, Len(o) + 1)
    <3>1. CASE OnlyAnswers(o)
      BY <2>2, <3>1 DEF OnlyAnswers, FineTo
    <3>2. CASE Len(o) > 0 /\ o[Len(o)].role = "user" /\ FineTo(s, o, Len(o))
      <4> SUFFICES ASSUME NEW p \in 1..Len(o), o[p].role = "assistant"
                   PROVE  AnswersAt(s, o, p, Len(o) + 1)
        BY <2>2 DEF FineTo
      <4>1. p \in 1..(Len(o) - 1)
        BY <2>2, <3>2
      <4>2. AnswersAt(s, o, p, Len(o))
        BY <3>2, <4>1 DEF FineTo
      <4>3. Len(o[p].ids) \in Nat
        <5>1. o[p] \in OutMessage
          BY <1>2
        <5>2. o[p].ids \in Seq(Id)
          BY <5>1 DEF OutMessage, UserMessage, UserOf
        <5> QED BY <5>2, LenProperties
      <4> DEFINE n == Len(o[p].ids)
      <4>4. /\ p + n < Len(o) + 1
            /\ p + n + 1 < Len(o) + 1 => o[p + n + 1].role # "toolResult"
        <5>1. /\ p + n < Len(o)
              /\ p + n + 1 < Len(o) => o[p + n + 1].role # "toolResult"
          BY <4>2 DEF AnswersAt
        <5>2. p + n + 1 = Len(o) => o[p + n + 1].role = "user"
          BY <3>2
        <5> HIDE DEF o, n
        <5> QED BY <2>2, <4>3, <5>1, <5>2 DEF n
      <4> QED BY <4>2, <4>4 DEF AnswersAt
    <3> QED BY <1>3, <3>1, <3>2 DEF Rests
  <2> QED BY <1>1, <2>1, <2>3 DEF HandingOver, Closed
<1>4. ASSUME NEW q \in 1..i, NEW j \in 0..(i - q),
             WaitsFor(kept, s, i, h, q, j), Answering(kept, s, h, q, j)
      PROVE  Closed(s, g.out)
  <2> DEFINE ids == IdsOf(kept, s[q])
             m == s[q].calls
             b == s[q].batch
             o == h.out
             p == Len(o) - j
             a == g.out
  <2>1. /\ q \in 1..Len(s) /\ Lasting(s[q]) /\ s[q].role = "assistant" /\ s[q] \in Message
        /\ h.pending = ids /\ Len(ids) = m /\ m \in Nat /\ j <= m
        /\ \A k \in 1..m : ids[k][1] = <<b, k>>
    <3>1. /\ q \in 1..Len(s) /\ Lasting(s[q]) /\ s[q].role = "assistant" /\ s[q] \in Message
          /\ h.pending = ids /\ j <= m
      BY <1>4 DEF WaitsFor, Lasting
    <3>2. Len(ids) = m /\ m \in Nat /\ \A k \in 1..m : ids[k][1] = <<b, k>>
      BY <3>1, IdsTypes
    <3> QED BY <3>1, <3>2
  <2>2. \A k \in 1..m : HasResult(s, Len(s), <<b, k>>) <=> k <= j
    <3>1. ASSUME NEW k \in 1..m, k <= j PROVE HasResult(s, Len(s), <<b, k>>)
      <4>1. q + k \in (q + 1)..(q + j) /\ q + k \in 1..Len(s)
        BY <2>1, <3>1
      <4>2. s[q + k] = Result(b, k)
        BY <1>4, <4>1 DEF WaitsFor
      <4>3. s[q + k].role = "toolResult" /\ s[q + k].batch = b /\ s[q + k].call = k
        BY <4>2 DEF Result
      <4> HIDE DEF b
      <4> QED BY <4>1, <4>3 DEF HasResult
    <3>2. ASSUME NEW k \in 1..m, HasResult(s, Len(s), <<b, k>>), k > j PROVE FALSE
      <4>1. q + k <= Len(s) /\ Behind(s, q, q + k)
        BY <2>1, <3>2, ResultsBehind
      <4>2. q + j + 1 \in (q + 1)..(q + k) /\ q + j + 1 \in 1..Len(s)
        BY <3>2, <4>1
      <4>3. s[q + j + 1].role = "toolResult"
        <5>1. s[q + j + 1] = Result(b, (q + j + 1) - q)
          BY <4>1, <4>2 DEF Behind
        <5> QED BY <5>1 DEF Result
      <4>4. q + j + 1 \notin (q + j + 1)..i
        BY <1>4, <4>3 DEF WaitsFor
      <4>5. q + j = i /\ i < Len(s)
        BY <1>4, <4>2, <4>4 DEF WaitsFor
      <4> QED BY <4>3, <4>5
    <3> QED BY <2>1, <3>1, <3>2
  <2>3. \A k \in 1..m : ids[k] \in h.answered <=> k <= j
    <3>1. ASSUME NEW k \in 1..m, ids[k] \in h.answered PROVE k <= j
      <4>1. HasResult(s, i, <<b, k>>)
        BY <2>1, <3>1 DEF HandingOver
      <4>2. HasResult(s, Len(s), <<b, k>>)
        BY <4>1 DEF HasResult
      <4> QED BY <2>2, <4>2
    <3>2. ASSUME NEW k \in 1..m, k <= j PROVE ids[k] \in h.answered
      BY <1>4, <3>2 DEF WaitsFor
    <3> QED BY <3>1, <3>2
  <2>4. Completed(a, o, ids, j)
    <3>1. j \in 0..Len(h.pending)
      BY <2>1
    <3>2. \A k \in 1..Len(h.pending) : h.pending[k] \in h.answered <=> k <= j
      BY <2>1, <2>3
    <3> HIDE DEF ids
    <3> QED BY <1>1, <2>1, <3>1, <3>2, FlushCompletes
  <2>5. /\ p >= 1 /\ o[p] = OutReply(kept, s[q]) /\ FineTo(s, o, p)
        /\ \A k \in 1..j : o[p + k] = OutResult(ids[k])
        /\ Len(o) \in Nat /\ p \in Nat /\ p <= Len(o)
    BY <1>2, <1>4, LenProperties DEF Answering
  <2>6. /\ Len(a) = p + m /\ \A r \in 1..Len(o) : a[r] = o[r]
        /\ \A k \in (j + 1)..m : a[p + k] = NoResultProvided(ids[k])
    BY <2>1, <2>4 DEF Completed
  <2> HIDE DEF p, a, o, ids, m, b
  <2>7. \A k \in 1..j : a[p + k] = OutResult(ids[k])
    <3> SUFFICES ASSUME NEW k \in 1..j PROVE p + k \in 1..Len(o)
      BY <2>5, <2>6
    <3> QED BY <2>5 DEF p
  <2>8. a[p] = OutReply(kept, s[q]) /\ a[p].role = "assistant" /\ a[p].ids = ids
    BY <2>5, <2>6 DEF OutReply, ids
  <2>9. ASSUME NEW k \in 1..m PROVE Answer(s, a[p + k], ids[k])
    <3>1. ids[k][1] = <<b, k>> /\ (HasResult(s, Len(s), <<b, k>>) <=> k <= j)
      BY <2>1, <2>2
    <3>2. CASE k \in 1..j
      <4>1. a[p + k] = OutResult(ids[k]) /\ k <= j
        BY <2>7, <3>2
      <4> QED BY <3>1, <4>1 DEF OutResult, Answer
    <3>3. CASE k \in (j + 1)..m
      <4>1. a[p + k] = NoResultProvided(ids[k]) /\ ~(k <= j)
        BY <2>6, <3>3
      <4> QED BY <3>1, <4>1 DEF NoResultProvided, Answer
    <3> QED BY <2>1, <3>2, <3>3
  <2>10. AnswersAt(s, a, p, Len(a) + 1)
    <3>1. a[p].ids = ids /\ Len(ids) = m
      BY <2>1, <2>8
    <3>2. p + m < Len(a) + 1 /\ ~(p + m + 1 < Len(a) + 1)
      BY <2>1, <2>5, <2>6
    <3> QED BY <2>9, <3>1, <3>2 DEF AnswersAt
  <2>11. FineTo(s, a, p)
    <3>1. p - 1 <= Len(o) /\ p \in Int
      BY <2>5
    <3> QED BY <1>2, <2>5, <2>6, <3>1, FineKept DEF o
  <2>12. \A r \in (p + 1)..Len(a) : a[r].role = "toolResult"
    <3> SUFFICES ASSUME NEW r \in (p + 1)..Len(a) PROVE a[r].role = "toolResult"
      OBVIOUS
    <3>1. r - p \in 1..m /\ r = p + (r - p)
      BY <2>1, <2>5, <2>6
    <3>2. Answer(s, a[p + (r - p)], ids[r - p])
      BY <2>9, <3>1
    <3> QED BY <3>1, <3>2 DEF Answer
  <2>13. FineTo(s, a, Len(a) + 1)
    <3> SUFFICES ASSUME NEW r \in 1..Len(a), a[r].role = "assistant"
                 PROVE  AnswersAt(s, a, r, Len(a) + 1)
      BY <2>1, <2>5, <2>6 DEF FineTo
    <3>1. r <= p
      <4>1. r \notin (p + 1)..Len(a)
        BY <2>12
      <4> QED BY <2>1, <2>5, <2>6, <4>1
    <3>2. CASE r < p
      <4>1. r \in 1..(p - 1)
        BY <2>5, <3>2
      <4>2. AnswersAt(s, a, r, p)
        BY <2>11, <4>1 DEF FineTo
      <4>3. Len(a[r].ids) \in Nat
        <5>1. a[r] \in OutMessage
          BY <1>2 DEF a
        <5>2. a[r].ids \in Seq(Id)
          BY <5>1 DEF OutMessage, UserMessage, UserOf
        <5> QED BY <5>2, LenProperties
      <4> DEFINE n == Len(a[r].ids)
      <4>4. /\ r + n < p
            /\ r + n + 1 < p => a[r + n + 1].role # "toolResult"
        BY <4>2 DEF AnswersAt
      <4>5. /\ r + n < Len(a) + 1
            /\ a[r + n + 1].role # "toolResult"
        <5>1. r + n + 1 = p => a[r + n + 1].role # "toolResult"
          BY <2>8
        <5>2. n \in Nat /\ m \in Nat /\ p \in Nat /\ r \in Nat
          BY <2>1, <2>5, <4>3
        <5>3. r + n < p /\ Len(a) = p + m
          BY <2>6, <4>4
        <5> HIDE DEF n
        <5>4. r + n < Len(a) + 1 /\ (r + n + 1 = p \/ r + n + 1 < p)
          BY <5>2, <5>3
        <5> QED BY <4>4, <5>1, <5>4
      <4> QED BY <4>2, <4>5 DEF AnswersAt
    <3>3. CASE r = p
      BY <2>10, <3>3
    <3> QED BY <2>5, <3>1, <3>2, <3>3
  <2>14. Gapless(a)
    <3> SUFFICES ASSUME NEW r \in 1..Len(a), a[r].role = "toolResult", r > 1
                 PROVE  a[r - 1].role # "user"
      BY DEF Gapless
    <3>1. CASE r <= Len(o)
      <4>1. r \in 1..Len(o) /\ r - 1 \in 1..Len(o)
        BY <2>5, <3>1
      <4>2. a[r] = o[r] /\ a[r - 1] = o[r - 1]
        BY <2>6, <4>1
      <4>3. Gapless(o)
        BY DEF HandingOver, o
      <4> QED BY <4>1, <4>2, <4>3 DEF Gapless
    <3>2. CASE r > Len(o)
      <4>1. r - 1 = p \/ r - 1 \in (p + 1)..Len(a)
        BY <2>1, <2>5, <2>6, <3>2
      <4> QED BY <2>8, <2>12, <4>1
    <3> QED BY <2>1, <2>5, <2>6, <3>1, <3>2
  <2> QED BY <2>13, <2>14 DEF Closed, a
<1>5. Closed(s, g.out)
  <2>1. Waits(kept, s, i, h) \/ Rests(s, i, h)
    BY DEF HandingOver
  <2>2. CASE Waits(kept, s, i, h)
    <3>1. PICK q \in 1..i : \E j \in 0..(i - q) :
            WaitsFor(kept, s, i, h, q, j) /\ Answering(kept, s, h, q, j)
      BY <2>2 DEF Waits
    <3>2. PICK j \in 0..(i - q) :
            WaitsFor(kept, s, i, h, q, j) /\ Answering(kept, s, h, q, j)
      BY <3>1
    <3> QED BY <1>4, <3>2
  <2> QED BY <1>3, <2>1, <2>2
<1> QED BY <1>1, <1>5 DEF g

\* What a result is a result of stays so.
LEMMA ResultStays ==
  ASSUME NEW s, NEW i \in Nat, NEW k \in Nat, i <= k, NEW c, HasResult(s, i, c)
  PROVE  HasResult(s, k, c)
BY DEF HasResult

\* What is true of the answers when one message more is handed over.
LEMMA GaplessAppend ==
  ASSUME NEW o \in Seq(OutMessage), NEW e \in OutMessage, NEW a, a = Append(o, e),
         Gapless(o),
         e.role = "toolResult" /\ Len(o) > 0 => o[Len(o)].role # "user"
  PROVE  Gapless(a)
<1>1. /\ Len(o) \in Nat /\ Len(a) = Len(o) + 1 /\ a[Len(o) + 1] = e
      /\ \A p \in 1..Len(o) : a[p] = o[p]
  BY OutAppend
<1> SUFFICES ASSUME NEW p \in 1..Len(a), a[p].role = "toolResult", p > 1
             PROVE  a[p - 1].role # "user"
  BY DEF Gapless
<1>2. p - 1 \in 1..Len(o) /\ a[p - 1] = o[p - 1]
  BY <1>1
<1>3. CASE p \in 1..Len(o)
  BY <1>1, <1>2, <1>3 DEF Gapless
<1>4. CASE p = Len(o) + 1
  BY <1>1, <1>2, <1>4
<1> QED BY <1>1, <1>3, <1>4

\* Results stay alone when a result follows.
LEMMA OnlyAnswersAppend ==
  ASSUME NEW o \in Seq(OutMessage), NEW e \in OutMessage, NEW a, a = Append(o, e),
         OnlyAnswers(o), e.role = "toolResult"
  PROVE  OnlyAnswers(a)
<1>1. /\ Len(o) \in Nat /\ Len(a) = Len(o) + 1 /\ a[Len(o) + 1] = e
      /\ \A p \in 1..Len(o) : a[p] = o[p]
  BY OutAppend
<1> SUFFICES ASSUME NEW p \in 1..Len(a) PROVE a[p].role = "toolResult"
  BY DEF OnlyAnswers
<1>2. CASE p \in 1..Len(o)
  BY <1>1, <1>2 DEF OnlyAnswers
<1>3. CASE p = Len(o) + 1
  BY <1>1, <1>3
<1> QED BY <1>1, <1>2, <1>3

\* A failed reply is left out.
LEMMA HandsFailed ==
  ASSUME NEW kept, NEW s \in Seq(Message), NEW i \in 0..(Len(s) - 1), NEW h,
         HandingOver(kept, s, i, h), s[i + 1].role = "assistant", ~Lasting(s[i + 1])
  PROVE  HandingOver(kept, s, i + 1, HandOver(kept, h, s[i + 1]))
<1>1. Len(s) \in Nat /\ i \in Nat /\ i + 1 \in 1..Len(s) /\ s[i + 1] \in Message
  OBVIOUS
<1>2. h \in HandoverState /\ HandOver(kept, h, s[i + 1]) = h
  BY <1>1, HandOverTypes DEF HandingOver
<1>3. \A id \in h.answered : HasResult(s, i + 1, id[1])
  <2> SUFFICES ASSUME NEW id \in h.answered PROVE HasResult(s, i + 1, id[1])
    OBVIOUS
  <2>1. HasResult(s, i, id[1])
    BY DEF HandingOver
  <2> QED BY <1>1, <2>1, ResultStays
<1>4. ~ \A r \in 1..(i + 1) : s[r].role = "toolResult"
  BY <1>1
<1>5. ASSUME Waits(kept, s, i, h) PROVE Waits(kept, s, i + 1, h)
  <2>1. PICK q \in 1..i : \E j \in 0..(i - q) :
          WaitsFor(kept, s, i, h, q, j) /\ Answering(kept, s, h, q, j)
    BY <1>5 DEF Waits
  <2>2. PICK j \in 0..(i - q) :
          WaitsFor(kept, s, i, h, q, j) /\ Answering(kept, s, h, q, j)
    BY <2>1
  <2>3. \A r \in (q + j + 1)..(i + 1) : s[r].role = "assistant" /\ ~Lasting(s[r])
    <3>1. \A r \in (q + j + 1)..i : s[r].role = "assistant" /\ ~Lasting(s[r])
      BY <2>2 DEF WaitsFor
    <3>2. \A r \in (q + j + 1)..(i + 1) : r \in (q + j + 1)..i \/ r = i + 1
      BY <1>1
    <3> QED BY <3>1, <3>2
  <2>4. WaitsFor(kept, s, i + 1, h, q, j)
    <3>1. q + j <= i + 1
      BY <1>1
    <3> QED BY <2>2, <2>3, <3>1 DEF WaitsFor
  <2>5. q \in 1..(i + 1) /\ j \in 0..((i + 1) - q)
    BY <1>1
  <2> QED BY <2>2, <2>4, <2>5 DEF Waits
<1>6. ASSUME Rests(s, i, h) PROVE Rests(s, i + 1, h)
  <2> SUFFICES ASSUME NEW q \in 1..(i + 1), Lasting(s[q])
               PROVE  \E r \in (q + 1)..(i + 1) : s[r].role = "user"
    BY <1>6 DEF Rests
  <2>1. q \in 1..i
    BY <1>1
  <2>2. PICK r \in (q + 1)..i : s[r].role = "user"
    BY <1>6, <2>1 DEF Rests
  <2>3. r \in (q + 1)..(i + 1)
    BY <1>1
  <2> QED BY <2>2, <2>3
<1>7. Waits(kept, s, i + 1, h) \/ Rests(s, i + 1, h)
  BY <1>5, <1>6 DEF HandingOver
<1>8. Gapless(h.out)
  BY DEF HandingOver
<1>9. HandingOver(kept, s, i + 1, h)
  BY <1>2, <1>3, <1>4, <1>7, <1>8 DEF HandingOver
<1> QED BY <1>2, <1>9

\* A message from the user or a reply.
NoResult(m) == m.role # "toolResult"

\* What a message from the user or a reply leaves: all that came before is closed.
LEMMA HandsClosed ==
  ASSUME NEW kept, NEW s \in Seq(Message), InPlace(s), Numbered(s),
         NEW i \in 0..(Len(s) - 1), NEW h, HandingOver(kept, s, i, h),
         NoResult(s[i + 1]), NEW e \in OutMessage, NoResult(e), NEW calls, NEW ids \in Seq(Id),
         NEW g, Becomes(g, FlushPending(h), e, calls, ids, {})
  PROVE  /\ g \in HandoverState /\ g.pending = ids /\ calls \subseteq g.calls
         /\ \A id \in g.answered : HasResult(s, i + 1, id[1])
         /\ Gapless(g.out) /\ Len(g.out) \in Nat /\ Len(g.out) > 0
         /\ g.out[Len(g.out)] = e /\ FineTo(s, g.out, Len(g.out))
<1> DEFINE f == FlushPending(h)
<1>1. Len(s) \in Nat /\ i \in Nat /\ i \in 0..Len(s) /\ i + 1 \in 1..Len(s)
  OBVIOUS
<1>2. /\ Closed(s, f.out) /\ f \in HandoverState /\ f.pending = <<>>
      /\ f.answered \subseteq h.answered
  BY <1>1, FlushCloses DEF NoResult
<1> HIDE DEF f
<1>3. /\ g \in HandoverState /\ g.out = Append(f.out, e) /\ g.calls = f.calls \cup calls
      /\ g.pending = f.pending \o ids /\ g.answered = f.answered \cup {}
  BY DEF Becomes, f
<1>4. g.pending = ids
  BY <1>2, <1>3, ConcatEmptySeq
<1>5. ASSUME NEW id \in g.answered PROVE HasResult(s, i + 1, id[1])
  <2>1. id \in h.answered
    BY <1>2, <1>3
  <2>2. HasResult(s, i, id[1])
    BY <2>1 DEF HandingOver
  <2> QED BY <1>1, <2>2, ResultStays
<1>6. f.out \in Seq(OutMessage) /\ Gapless(f.out) /\ FineTo(s, f.out, Len(f.out) + 1)
  BY <1>2, StateFields DEF Closed
<1> DEFINE o == f.out
           a == g.out
<1>7. o \in Seq(OutMessage) /\ a = Append(o, e)
  BY <1>3, <1>6
<1> HIDE DEF o, a
<1>8. /\ Len(o) \in Nat /\ Len(a) = Len(o) + 1 /\ a[Len(o) + 1] = e
      /\ \A p \in 1..Len(o) : a[p] = o[p]
  BY <1>7, OutAppend
<1>9. Gapless(a)
  BY <1>6, <1>7, GaplessAppend DEF o, NoResult
<1>10. FineTo(s, a, Len(o) + 1)
  <2>1. Len(o) + 1 \in Int /\ (Len(o) + 1) - 1 <= Len(o)
    BY <1>8
  <2>2. FineTo(s, o, Len(o) + 1)
    BY <1>6 DEF o
  <2> QED BY <1>7, <1>8, <2>1, <2>2, FineKept
<1>11. Len(a) \in Nat /\ Len(a) > 0 /\ a[Len(a)] = e /\ FineTo(s, a, Len(a))
  BY <1>8, <1>10
<1> QED BY <1>3, <1>4, <1>5, <1>9, <1>11 DEF a

\* A message from the user closes what waits.
LEMMA HandsUser ==
  ASSUME NEW kept, NEW s \in Seq(Message), InPlace(s), Numbered(s),
         NEW i \in 0..(Len(s) - 1), NEW h, HandingOver(kept, s, i, h),
         s[i + 1].role = "user"
  PROVE  HandingOver(kept, s, i + 1, HandOver(kept, h, s[i + 1]))
<1> DEFINE g == HandOver(kept, h, s[i + 1])
           m == s[i + 1]
<1>1. Len(s) \in Nat /\ i \in Nat /\ i + 1 \in 1..Len(s) /\ m \in Message
  OBVIOUS
<1>2. m \in OutMessage /\ m.role = "user" /\ Becomes(g, FlushPending(h), m, {}, <<>>, {})
  BY <1>1, UserGives DEF HandingOver
<1> HIDE DEF g
<1>3. /\ g \in HandoverState /\ g.pending = <<>>
      /\ \A id \in g.answered : HasResult(s, i + 1, id[1])
      /\ Gapless(g.out) /\ Len(g.out) \in Nat /\ Len(g.out) > 0
      /\ g.out[Len(g.out)] = m /\ FineTo(s, g.out, Len(g.out))
  <2>1. NoResult(m) /\ NoResult(s[i + 1]) /\ <<>> \in Seq(Id)
    BY <1>2 DEF NoResult
  <2> DEFINE none == {}
             empty == <<>>
  <2>2. /\ Becomes(g, FlushPending(h), m, none, empty, {}) /\ m \in OutMessage
        /\ empty \in Seq(Id) /\ NoResult(m) /\ NoResult(s[i + 1])
    BY <1>2, <2>1
  <2> HIDE DEF m, none, empty
  <2>3. /\ g \in HandoverState /\ g.pending = empty /\ none \subseteq g.calls
        /\ \A id \in g.answered : HasResult(s, i + 1, id[1])
        /\ Gapless(g.out) /\ Len(g.out) \in Nat /\ Len(g.out) > 0
        /\ g.out[Len(g.out)] = m /\ FineTo(s, g.out, Len(g.out))
    BY <2>2, HandsClosed
  <2> QED BY <2>3 DEF empty
<1>4. ASSUME NEW q \in 1..(i + 1), Lasting(s[q])
      PROVE  \E r \in (q + 1)..(i + 1) : s[r].role = "user"
  <2>1. q # i + 1
    BY <1>2, <1>4 DEF Lasting
  <2>2. i + 1 \in (q + 1)..(i + 1)
    BY <1>1, <2>1
  <2> QED BY <1>2, <2>2
<1>5. Rests(s, i + 1, g)
  BY <1>2, <1>3, <1>4 DEF Rests
<1>6. ~ \A r \in 1..(i + 1) : s[r].role = "toolResult"
  BY <1>1, <1>2
<1>7. HandingOver(kept, s, i + 1, g)
  BY <1>3, <1>5, <1>6 DEF HandingOver
<1> QED BY <1>7 DEF g

\* So does a reply, whose own calls wait then.
LEMMA HandsReply ==
  ASSUME NEW kept, NEW s \in Seq(Message), InPlace(s), Numbered(s),
         NEW i \in 0..(Len(s) - 1), NEW h, HandingOver(kept, s, i, h),
         Lasting(s[i + 1])
  PROVE  HandingOver(kept, s, i + 1, HandOver(kept, h, s[i + 1]))
<1> DEFINE g == HandOver(kept, h, s[i + 1])
           m == s[i + 1]
           new == {m.batch} \X (1..m.calls)
<1>1. Len(s) \in Nat /\ i \in Nat /\ i + 1 \in 1..Len(s) /\ m \in Message
  OBVIOUS
<1>2. /\ m.role = "assistant" /\ OutReply(kept, m) \in OutMessage
      /\ IdsOf(kept, m) \in Seq(Id) /\ m.calls \in Nat
      /\ Becomes(g, FlushPending(h), OutReply(kept, m), new, IdsOf(kept, m), {})
  <2>1. m.role = "assistant"
    BY DEF Lasting
  <2>2. OutReply(kept, m) \in OutMessage /\ IdsOf(kept, m) \in Seq(Id) /\ m.calls \in Nat
    <3> HIDE DEF m
    <3> QED BY <1>1, <2>1, IdsTypes
  <2>3. Becomes(g, FlushPending(h), OutReply(kept, m), new, IdsOf(kept, m), {})
    BY <1>1, ReplyGives DEF HandingOver
  <2> QED BY <2>1, <2>2, <2>3
<1> HIDE DEF g, new
<1>3. /\ g \in HandoverState /\ g.pending = IdsOf(kept, m) /\ new \subseteq g.calls
      /\ \A id \in g.answered : HasResult(s, i + 1, id[1])
      /\ Gapless(g.out) /\ Len(g.out) \in Nat /\ Len(g.out) > 0
      /\ g.out[Len(g.out)] = OutReply(kept, m) /\ FineTo(s, g.out, Len(g.out))
  <2>1. NoResult(s[i + 1]) /\ NoResult(OutReply(kept, m))
    BY <1>2 DEF OutReply, NoResult
  <2> HIDE DEF m
  <2> QED BY <1>2, <2>1, HandsClosed
<1> DEFINE q == i + 1
<1>4. WaitsFor(kept, s, i + 1, g, q, 0)
  <2>1. q + 0 <= i + 1 /\ 0 <= m.calls
    BY <1>1, <1>2
  <2>2. \A r \in (q + 1)..(q + 0) : FALSE
    BY <1>1
  <2>3. \A r \in (q + 0 + 1)..(i + 1) : FALSE
    BY <1>1
  <2>4. \A k \in 1..m.calls : <<m.batch, k>> \in g.calls
    <3> HIDE DEF m
    <3> QED BY <1>3 DEF new
  <2>5. \A k \in 1..0 : FALSE
    OBVIOUS
  <2>6. m = s[q]
    OBVIOUS
  <2>7. Lasting(m)
    OBVIOUS
  <2> HIDE DEF m, q
  <2> QED BY <1>3, <2>1, <2>2, <2>3, <2>4, <2>5, <2>6, <2>7 DEF WaitsFor
<1>5. Answering(kept, s, g, q, 0)
  <2>1. Len(g.out) - 0 = Len(g.out) /\ Len(g.out) >= 1
    BY <1>3
  <2>2. \A k \in 1..0 : FALSE
    OBVIOUS
  <2>3. m = s[q]
    OBVIOUS
  <2> HIDE DEF m, q
  <2> QED BY <1>3, <2>1, <2>2, <2>3 DEF Answering
<1>6. Waits(kept, s, i + 1, g)
  <2>1. q \in 1..(i + 1) /\ 0 \in 0..((i + 1) - q)
    BY <1>1
  <2> HIDE DEF q
  <2> QED BY <1>4, <1>5, <2>1 DEF Waits
<1>7. ~ \A r \in 1..(i + 1) : s[r].role = "toolResult"
  BY <1>1, <1>2
<1>8. HandingOver(kept, s, i + 1, g)
  BY <1>3, <1>6, <1>7 DEF HandingOver
<1> QED BY <1>8 DEF g

\* A result is the next one of the reply that waits, or it has lost its reply and
\* all that came before has as well.
LEMMA HandsResult ==
  ASSUME NEW kept, NEW s \in Seq(Message), InPlace(s),
         NEW i \in 0..(Len(s) - 1), NEW h, HandingOver(kept, s, i, h),
         s[i + 1].role = "toolResult"
  PROVE  HandingOver(kept, s, i + 1, HandOver(kept, h, s[i + 1]))
<1> DEFINE g == HandOver(kept, h, s[i + 1])
           m == s[i + 1]
           id == OutId(kept, h, m)
           o == h.out
           a == g.out
<1>1. Len(s) \in Nat /\ i \in Nat /\ i + 1 \in 1..Len(s) /\ m \in Message
  OBVIOUS
<1>2. /\ id \in Id /\ id[1] = <<m.batch, m.call>> /\ OutResult(id) \in OutMessage
      /\ Becomes(g, h, OutResult(id), {}, <<>>, {id})
  BY <1>1, ResultGives DEF HandingOver
<1> HIDE DEF g, id
<1>3. /\ h \in HandoverState /\ g \in HandoverState /\ o \in Seq(OutMessage)
      /\ a = Append(o, OutResult(id)) /\ g.calls = h.calls /\ g.pending = h.pending
      /\ g.answered = h.answered \cup {id}
  <2>1. h \in HandoverState
    BY DEF HandingOver
  <2>2. h.pending \o <<>> = h.pending /\ h.out \in Seq(OutMessage)
    BY <2>1, StateFields, ConcatEmptySeq
  <2> QED BY <1>2, <2>1, <2>2 DEF Becomes
<1>4. Gapless(o) /\ OutResult(id).role = "toolResult"
  BY DEF HandingOver, OutResult
<1>5. ASSUME NEW d \in g.answered PROVE HasResult(s, i + 1, d[1])
  <2>1. CASE d \in h.answered
    <3>1. HasResult(s, i, d[1])
      BY <2>1 DEF HandingOver
    <3> QED BY <1>1, <3>1, ResultStays
  <2>2. CASE d = id
    BY <1>1, <1>2, <2>2 DEF HasResult
  <2> QED BY <1>3, <2>1, <2>2
<1> HIDE DEF o, a
<1>6. /\ Len(o) \in Nat /\ Len(a) = Len(o) + 1 /\ a[Len(o) + 1] = OutResult(id)
      /\ \A p \in 1..Len(o) : a[p] = o[p]
  BY <1>2, <1>3, OutAppend
<1>7. CASE \A r \in 1..(i + 1) : s[r].role = "toolResult"
  <2>1. \A r \in 1..i : s[r].role = "toolResult"
    BY <1>1, <1>7
  <2>2. \A q \in 1..(i + 1) : ~Lasting(s[q])
    BY <1>7 DEF Lasting
  <2>3. ~Waits(kept, s, i, h)
    <3>1. \A q \in 1..i : ~Lasting(s[q])
      BY <2>1 DEF Lasting
    <3> QED BY <3>1 DEF Waits, WaitsFor
  <2>4. OnlyAnswers(o) /\ h.pending = <<>>
    BY <2>1, <2>3 DEF HandingOver, Rests, o
  <2>5. OnlyAnswers(a)
    BY <1>2, <1>3, <1>4, <2>4, OnlyAnswersAppend
  <2>6. Gapless(a)
    <3>1. Len(o) > 0 => o[Len(o)].role # "user"
      BY <1>6, <2>4 DEF OnlyAnswers
    <3> QED BY <1>2, <1>3, <1>4, <3>1, GaplessAppend
  <2>7. Rests(s, i + 1, g)
    BY <1>3, <2>2, <2>4, <2>5 DEF Rests, a
  <2>8. HandingOver(kept, s, i + 1, g)
    BY <1>3, <1>5, <2>5, <2>6, <2>7 DEF HandingOver, a
  <2> QED BY <2>8 DEF g
<1>8. ASSUME NEW q \in 1..i, Behind(s, q, i + 1)
      PROVE  HandingOver(kept, s, i + 1, g)
  <2> DEFINE b == s[q].batch
             c == s[q].calls
             j == i - q
             ids == IdsOf(kept, s[q])
  <2>1. /\ Lasting(s[q]) /\ j + 1 <= c /\ q \in 1..Len(s) /\ s[q].role = "assistant"
        /\ s[q] \in Message
    BY <1>1, <1>8 DEF Behind, Lasting
  <2>2. \A r \in (q + 1)..(i + 1) : s[r] = Result(b, r - q)
    BY <1>8 DEF Behind
  <2>3. \A r \in (q + 1)..(i + 1) : s[r].role = "toolResult" /\ ~Lasting(s[r])
    <3> SUFFICES ASSUME NEW r \in (q + 1)..(i + 1)
                 PROVE  s[r].role = "toolResult" /\ ~Lasting(s[r])
      OBVIOUS
    <3>1. s[r] = Result(b, r - q)
      BY <2>2
    <3>2. s[r].role = "toolResult"
      BY <3>1 DEF Result
    <3> QED BY <3>2 DEF Lasting
  <2>4. ~Rests(s, i, h)
    <3>1. \A r \in (q + 1)..i : s[r].role # "user"
      BY <1>1, <2>3
    <3> QED BY <2>1, <3>1 DEF Rests
  <2>5. Waits(kept, s, i, h)
    BY <2>4 DEF HandingOver
  <2>6. PICK x \in 1..i : \E y \in 0..(i - x) :
          WaitsFor(kept, s, i, h, x, y) /\ Answering(kept, s, h, x, y)
    BY <2>5 DEF Waits
  <2>7. PICK y \in 0..(i - x) :
          WaitsFor(kept, s, i, h, x, y) /\ Answering(kept, s, h, x, y)
    BY <2>6
  <2>8. Lasting(s[x]) /\ s[x].role = "assistant"
    BY <2>7 DEF WaitsFor, Lasting
  <2>9. x = q
    <3>1. ~(x > q)
      <4>1. x \notin (q + 1)..(i + 1)
        BY <2>3, <2>8
      <4> QED BY <1>1, <4>1
    <3>2. ~(x < q)
      <4> SUFFICES ASSUME x < q PROVE FALSE
        OBVIOUS
      <4>1. q \in (x + 1)..(x + y) \/ q \in (x + y + 1)..i
        BY <1>1
      <4>2. q \notin (x + y + 1)..i
        BY <2>1, <2>7 DEF WaitsFor
      <4>3. q \notin (x + 1)..(x + y)
        <5> SUFFICES ASSUME q \in (x + 1)..(x + y) PROVE FALSE
          OBVIOUS
        <5>1. s[q] = Result(s[x].batch, q - x)
          BY <2>7 DEF WaitsFor
        <5> QED BY <2>1, <5>1 DEF Result
      <4> QED BY <4>1, <4>2, <4>3
    <3> QED BY <3>1, <3>2
  <2>10. y = j
    <3> SUFFICES ASSUME y < i - q PROVE FALSE
      BY <1>1, <2>9
    <3>1. q + y + 1 \in (x + y + 1)..i /\ q + y + 1 \in (q + 1)..(i + 1)
      BY <1>1, <2>9
    <3>2. s[q + y + 1].role = "assistant"
      BY <2>7, <3>1 DEF WaitsFor
    <3> QED BY <2>3, <3>1, <3>2
  <2>11. WaitsFor(kept, s, i, h, q, j) /\ Answering(kept, s, h, q, j)
    BY <2>7, <2>9, <2>10
  <2>12. m = Result(b, j + 1)
    <3>1. i + 1 \in (q + 1)..(i + 1) /\ (i + 1) - q = j + 1
      BY <1>1
    <3> QED BY <2>2, <3>1
  <2>13. m.batch = b /\ m.call = j + 1 /\ j \in Nat /\ j + 1 \in 1..c
    <3>1. c \in Nat
      BY <2>1, NumberTypes
    <3>2. j \in Nat /\ j + 1 \in 1..c
      BY <1>1, <2>1, <3>1
    <3> HIDE DEF m, j, b
    <3> QED BY <2>12, <3>2 DEF Result
  <2>14. id = ids[j + 1]
    <3>1. <<b, j + 1>> \in h.calls
      BY <2>11, <2>13 DEF WaitsFor
    <3>2. id = Normalized(kept, <<b, j + 1>>)
      <4> HIDE DEF m, j, b
      <4> QED BY <2>13, <3>1 DEF id, OutId
    <3>3. ids[j + 1] = Normalized(kept, <<b, j + 1>>)
      BY <2>1, <2>13, IdsTypes
    <3> QED BY <3>2, <3>3
  <2>15. WaitsFor(kept, s, i + 1, g, q, j + 1)
    <3>1. q + (j + 1) = i + 1 /\ \A r \in (q + (j + 1) + 1)..(i + 1) : FALSE
      BY <1>1
    <3>2. \A r \in (q + 1)..(q + (j + 1)) : s[r] = Result(s[q].batch, r - q)
      BY <2>2, <3>1
    <3>3. h.pending = ids /\ (\A k \in 1..c : <<b, k>> \in h.calls)
          /\ \A k \in 1..j : ids[k] \in h.answered
      BY <2>11 DEF WaitsFor
    <3>4. ASSUME NEW k \in 1..(j + 1) PROVE ids[k] \in g.answered
      <4>1. k \in 1..j \/ k = j + 1
        BY <2>13
      <4> HIDE DEF ids, j
      <4> QED BY <1>3, <2>14, <3>3, <4>1
    <3>5. g.pending = ids /\ \A k \in 1..c : <<b, k>> \in g.calls
      BY <1>3, <3>3
    <3>6. q + (j + 1) <= i + 1 /\ j + 1 <= c
      BY <1>1, <2>1
    <3> HIDE DEF j
    <3> QED BY <2>1, <3>1, <3>2, <3>4, <3>5, <3>6 DEF WaitsFor
  <2>16. Answering(kept, s, g, q, j + 1)
    <3> DEFINE p == Len(o) - j
    <3>1. /\ p >= 1 /\ o[p] = OutReply(kept, s[q]) /\ FineTo(s, o, p)
          /\ \A k \in 1..j : o[p + k] = OutResult(ids[k])
      BY <2>11 DEF Answering, o
    <3>2. p \in 1..Len(o) /\ Len(a) - (j + 1) = p /\ p + (j + 1) = Len(o) + 1
      <4>1. j \in Nat
        BY <2>13
      <4> HIDE DEF j
      <4> QED BY <1>6, <3>1, <4>1
    <3>3. a[p] = OutReply(kept, s[q])
      BY <1>6, <3>1, <3>2
    <3>4. ASSUME NEW k \in 1..(j + 1) PROVE a[p + k] = OutResult(ids[k])
      <4>1. CASE k \in 1..j
        <5>1. p + k \in 1..Len(o)
          <6>1. j \in Nat /\ k \in 1..j /\ Len(o) - j >= 1
            BY <2>13, <3>1, <4>1
          <6> HIDE DEF j
          <6> QED BY <1>6, <6>1
        <5>2. a[p + k] = o[p + k]
          BY <1>6, <5>1
        <5> QED BY <3>1, <4>1, <5>2
      <4>2. CASE k = j + 1
        <5>1. a[p + k] = OutResult(id)
          BY <1>6, <3>2, <4>2
        <5> QED BY <2>14, <4>2, <5>1
      <4> QED BY <2>13, <4>1, <4>2
    <3>5. FineTo(s, a, p)
      <4>1. p \in Int /\ p - 1 <= Len(o)
        BY <1>6, <3>2
      <4> HIDE DEF p
      <4> QED BY <1>3, <1>6, <3>1, <4>1, FineKept
    <3>6. p >= 1
      BY <3>1
    <3> HIDE DEF p, j, ids
    <3> QED BY <3>2, <3>3, <3>4, <3>5, <3>6 DEF Answering, a, ids
  <2>17. Waits(kept, s, i + 1, g)
    <3>1. q \in 1..(i + 1) /\ j + 1 \in 0..((i + 1) - q)
      BY <1>1, <2>13
    <3> HIDE DEF j
    <3> QED BY <2>15, <2>16, <3>1 DEF Waits
  <2>18. Gapless(a)
    <3>1. o[Len(o)].role # "user"
      <4>1. /\ Len(o) - j >= 1 /\ o[Len(o) - j] = OutReply(kept, s[q])
            /\ \A k \in 1..j : o[(Len(o) - j) + k] = OutResult(ids[k])
        BY <2>11 DEF Answering, o
      <4>2. CASE j = 0
        <5>1. Len(o) - j = Len(o)
          BY <1>6, <4>2
        <5> QED BY <4>1, <5>1 DEF OutReply
      <4>3. CASE j > 0
        <5>1. j \in 1..j /\ (Len(o) - j) + j = Len(o)
          <6>1. j \in Nat
            BY <2>13
          <6> HIDE DEF j
          <6> QED BY <1>6, <4>3, <6>1
        <5>2. o[Len(o)] = OutResult(ids[j])
          BY <4>1, <5>1
        <5> QED BY <5>2 DEF OutResult
      <4> QED BY <2>13, <4>2, <4>3
    <3> QED BY <1>2, <1>3, <1>4, <3>1, GaplessAppend
  <2>19. ~ \A r \in 1..(i + 1) : s[r].role = "toolResult"
    BY <1>1, <2>1
  <2> QED BY <1>3, <1>5, <2>17, <2>18, <2>19 DEF HandingOver, a
<1>9. CASE \E q \in 1..((i + 1) - 1) : Behind(s, q, i + 1)
  <2>1. PICK q \in 1..((i + 1) - 1) : Behind(s, q, i + 1)
    BY <1>9
  <2>2. q \in 1..i
    BY <1>1
  <2> QED BY <1>8, <2>1, <2>2 DEF g
<1> QED BY <1>1, <1>7, <1>9 DEF InPlace

\* Whatever the next message is, it is handed over as it should.
LEMMA HandsNext ==
  ASSUME NEW kept, NEW s \in Seq(Message), InPlace(s), Numbered(s),
         NEW i \in 0..(Len(s) - 1), NEW h, HandingOver(kept, s, i, h)
  PROVE  HandingOver(kept, s, i + 1, HandOver(kept, h, s[i + 1]))
<1>1. s[i + 1].role \in {"user", "assistant", "toolResult"}
  <2>1. s[i + 1] \in Message
    OBVIOUS
  <2> QED BY <2>1, NumberTypes
<1>2. CASE s[i + 1].role = "user"
  BY <1>2, HandsUser
<1>3. CASE s[i + 1].role = "toolResult"
  BY <1>3, HandsResult
<1>4. CASE Lasting(s[i + 1])
  BY <1>4, HandsReply
<1>5. CASE s[i + 1].role = "assistant" /\ ~Lasting(s[i + 1])
  BY <1>5, HandsFailed
<1> QED BY <1>1, <1>2, <1>3, <1>4, <1>5

\* So is all of a history, and nothing waits at its end.
LEMMA HandsAll ==
  ASSUME NEW kept, NEW s \in Seq(Message), InPlace(s), Numbered(s)
  PROVE  Closed(s, Handoff(kept, s)) /\ Handoff(kept, s) \in Seq(OutMessage)
<1> DEFINE k == Len(s)
<1>1. k \in Nat
  OBVIOUS
<1>2. PICK f \in [0..k -> HandoverState] : Passes(f, kept, s) /\ Ends(kept, s, f[k])
  BY HandoffSteps
<1> DEFINE S == {i \in 0..k : HandingOver(kept, s, i, f[i])}
<1>3. 0 \in S
  BY <1>1, <1>2, HandingInit DEF Passes
<1>4. ASSUME NEW i \in 0..(k - 1), i \in S PROVE i + 1 \in S
  <2>1. HandingOver(kept, s, i, f[i]) /\ i \in 0..(Len(s) - 1)
    BY <1>4
  <2>2. i + 1 \in 1..Len(s) /\ i + 1 \in 0..k /\ (i + 1) - 1 = i
    BY <1>1
  <2>3. f[i + 1] = HandOver(kept, f[i], s[i + 1])
    BY <1>2, <2>2 DEF Passes
  <2>4. HandingOver(kept, s, i + 1, HandOver(kept, f[i], s[i + 1]))
    BY <2>1, HandsNext
  <2> QED BY <2>2, <2>3, <2>4
<1>5. 0..k \subseteq S
  <2> HIDE DEF S, k
  <2> QED BY <1>1, <1>3, <1>4, BoundedInduction
<1>6. HandingOver(kept, s, k, f[k]) /\ k \in 0..Len(s) /\ ~(k < Len(s))
  BY <1>1, <1>5
<1> DEFINE h == f[k]
<1>7. HandingOver(kept, s, k, h) /\ Handoff(kept, s) = FlushPending(h).out
  BY <1>2, <1>6 DEF Ends
<1> HIDE DEF k, h
<1>8. Closed(s, FlushPending(h).out) /\ FlushPending(h) \in HandoverState
  BY <1>6, <1>7, FlushCloses
<1> QED BY <1>7, <1>8, StateFields

\* Each transcript is handed over with every call answered once and in its place.
THEOREM HandedOver == SafeSpec => []HandoffAnswered
<1>1. IInv /\ PlaceInv => HandoffAnswered
  <2> SUFFICES ASSUME IInv, PlaceInv, NEW kept \in SUBSET CallId
               PROVE  \A p \in DOMAIN Handoff(kept, messages) :
                        /\ Handoff(kept, messages)[p].role = "assistant"
                             => AnsweredAt(Handoff(kept, messages), p)
                        /\ Handoff(kept, messages)[p].role = "toolResult" /\ p > 1
                             => Handoff(kept, messages)[p - 1].role # "user"
    BY DEF HandoffAnswered
  <2> DEFINE out == Handoff(kept, messages)
  <2>1. messages \in Seq(Message) /\ InPlace(messages) /\ Numbered(messages)
    BY Sequences DEF PlaceInv
  <2>2. Closed(messages, out) /\ out \in Seq(OutMessage)
    BY <2>1, HandsAll
  <2> HIDE DEF out
  <2>3. DOMAIN out = 1..Len(out) /\ Len(out) \in Nat
    BY <2>2
  <2>4. ASSUME NEW c PROVE HasResult(messages, Len(messages), c) <=> c \in Resulted
    BY <2>1 DEF HasResult, Resulted, MessagesOf
  <2>5. ASSUME NEW p \in 1..Len(out), out[p].role = "assistant"
        PROVE  AnsweredAt(out, p)
    <3> DEFINE ids == out[p].ids
               n == Len(ids)
    <3>1. AnswersAt(messages, out, p, Len(out) + 1)
      BY <2>2, <2>3, <2>5 DEF Closed, FineTo
    <3>2. n \in Nat /\ DOMAIN ids = 1..n
      <4>1. out[p] \in OutMessage
        BY <2>2
      <4>2. ids \in Seq(Id)
        BY <2>5, <4>1 DEF OutMessage, UserMessage, UserOf
      <4> HIDE DEF ids
      <4> QED BY <4>2
    <3>3. /\ p + n < Len(out) + 1
          /\ \A k \in 1..n : Answer(messages, out[p + k], ids[k])
          /\ p + n + 1 < Len(out) + 1 => out[p + n + 1].role # "toolResult"
      BY <3>1 DEF AnswersAt
    <3> HIDE DEF ids, n
    <3>4. ASSUME NEW k \in DOMAIN ids
          PROVE  /\ p + k \in DOMAIN out /\ out[p + k].role = "toolResult"
                 /\ out[p + k].id = ids[k]
                 /\ out[p + k].synthetic <=> ids[k][1] \notin Resulted
      <4>1. k \in 1..n /\ p + k \in DOMAIN out
        BY <2>3, <3>2, <3>3
      <4>2. Answer(messages, out[p + k], ids[k])
        BY <3>3, <4>1
      <4>3. HasResult(messages, Len(messages), ids[k][1]) <=> ids[k][1] \in Resulted
        BY <2>4
      <4> QED BY <4>1, <4>2, <4>3 DEF Answer
    <3>5. p + n + 1 \in DOMAIN out => out[p + n + 1].role # "toolResult"
      <4>1. p + n + 1 \in DOMAIN out => p + n + 1 < Len(out) + 1
        BY <2>3, <3>2
      <4> QED BY <3>3, <4>1
    <3> QED BY <3>4, <3>5 DEF AnsweredAt, ids, n
  <2>6. ASSUME NEW p \in 1..Len(out), out[p].role = "toolResult", p > 1
        PROVE  out[p - 1].role # "user"
    BY <2>2, <2>6 DEF Closed, Gapless
  <2>7. \A p \in DOMAIN out :
          /\ out[p].role = "assistant" => AnsweredAt(out, p)
          /\ out[p].role = "toolResult" /\ p > 1 => out[p - 1].role # "user"
    BY <2>3, <2>5, <2>6
  <2> QED BY <2>7 DEF out
<1> QED BY <1>1, Inductive, PlaceKept, PTL
=============================================================================
