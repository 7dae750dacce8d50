---------------------------- MODULE StreamProofs ----------------------------
(***************************************************************************)
(* Theorems about EventStream, for every value of its constants: a stream  *)
(* keeps the promise of OneShot, fails only for a cause, and a proxied     *)
(* message is assembled as it was sent.                                    *)
(***************************************************************************)
EXTENDS EventStream, SequenceTheorems, TLAPS

(***************************************************************************)
(* The shape of the queue: while the reader iterates a closed stream the   *)
(* sentinel is its last item and its only one; an open stream has none.    *)
(***************************************************************************)
Events(q) == \A i \in 1..Len(q) : q[i] # Sentinel

QueueInv ==
  /\ ~closed => reader = "iterating" /\ Events(queue)
  /\ closed /\ reader = "iterating" =>
       queue # <<>> /\ queue[Len(queue)] = Sentinel /\ Events(Front(queue))
  /\ reader = "done" => closed /\ queue = <<>>

CountInv ==
  /\ sent <= MaxSent + 1
  /\ runner = "running" => sent <= MaxSent

ResultInv == result = Abandoned \/ result = Pending \/ (result.state = "set" /\ closed)

ContentInv == ~strayed => content = told

IInv == TypeOK /\ QueueInv /\ CountInv /\ ResultInv /\ ContentInv /\ FailureHasCause

\* Front leaves out the last item, and nothing else.
LEMMA Fronts ==
  ASSUME NEW S, NEW q \in Seq(S), NEW e \in S, NEW x \in S
  PROVE  /\ Front(Append(q, x)) = q
         /\ Append(q, x) # <<>> /\ Append(q, x)[Len(Append(q, x))] = x
         /\ Front(q \o <<e, x>>) = Append(q, e)
         /\ q \o <<e, x>> # <<>> /\ (q \o <<e, x>>)[Len(q \o <<e, x>>)] = x
         /\ q \o <<e, x>> \in Seq(S) /\ Append(q, e) \in Seq(S)
BY DEF Front

LEMMA Lasts ==
  ASSUME NEW S, NEW q \in Seq(S), NEW x \in S
  PROVE  /\ Front(Append(q, x)) = q
         /\ Append(q, x) # <<>> /\ Append(q, x)[Len(Append(q, x))] = x
BY DEF Front

\* What is left when the first item is taken.
LEMMA Tails ==
  ASSUME NEW S, NEW q \in Seq(S), q # <<>>
  PROVE  /\ Head(q) \in S /\ Tail(q) \in Seq(S) /\ Front(q) \in Seq(S)
         /\ Len(q) > 1 => /\ Tail(q) # <<>> /\ Tail(q)[Len(Tail(q))] = q[Len(q)]
                          /\ Front(Tail(q)) = Tail(Front(q))
                          /\ Front(q) # <<>> /\ Head(Front(q)) = Head(q)
         /\ Len(q) = 1 => Tail(q) = <<>> /\ Front(q) = <<>> /\ q[Len(q)] = Head(q)
<1>1. /\ Head(q) \in S /\ Tail(q) \in Seq(S) /\ Len(Tail(q)) = Len(q) - 1
      /\ \A i \in 1..Len(q) - 1 : Tail(q)[i] = q[i + 1]
  BY HeadTailProperties
<1>2. /\ Front(q) \in Seq(S) /\ Len(Front(q)) = Len(q) - 1
      /\ \A i \in 1..Len(q) - 1 : Front(q)[i] = q[i]
  <2> DEFINE n == Len(q) - 1
  <2>1. n \in Nat /\ \A i \in 1..n : q[i] \in S
    OBVIOUS
  <2>2. Front(q) = SubSeq(q, 1, n)
    BY DEF Front
  <2> HIDE DEF n
  <2>3. /\ Front(q) \in Seq(S) /\ Len(Front(q)) = IF 1 <= n THEN n - 1 + 1 ELSE 0
        /\ \A i \in 1..n - 1 + 1 : Front(q)[i] = q[1 + i - 1]
    BY <2>1, <2>2, SubSeqProperties
  <2>4. /\ Front(q) \in Seq(S) /\ Len(Front(q)) = n
        /\ \A i \in 1..n : Front(q)[i] = q[i]
    BY <2>1, <2>3
  <2> QED BY <2>4 DEF n
<1>3. ASSUME Len(q) > 1
      PROVE  /\ Tail(q) # <<>> /\ Tail(q)[Len(Tail(q))] = q[Len(q)]
             /\ Front(q) # <<>> /\ Head(Front(q)) = Head(q)
             /\ Front(Tail(q)) = Tail(Front(q))
  <2>1. /\ Tail(q) # <<>> /\ Front(q) # <<>>
        /\ Tail(q)[Len(Tail(q))] = q[Len(q)]
    <3>1. Len(Tail(q)) # 0 /\ Len(Front(q)) # 0
      BY <1>1, <1>2, <1>3
    <3>2. Len(Tail(q)) \in 1..Len(q) - 1 /\ Len(Tail(q)) + 1 = Len(q)
      BY <1>1, <1>3
    <3> QED BY <1>1, <1>2, <3>1, <3>2, EmptySeq
  <2>2. Head(Front(q)) = Head(q)
    BY <1>2, <1>3
  <2>3. /\ Tail(Front(q)) \in Seq(S) /\ Len(Tail(Front(q))) = Len(q) - 2
        /\ \A i \in 1..Len(q) - 2 : Tail(Front(q))[i] = q[i + 1]
    BY <1>2, <1>3, <2>1, HeadTailProperties
  <2>4. /\ Front(Tail(q)) \in Seq(S) /\ Len(Front(Tail(q))) = Len(q) - 2
        /\ \A i \in 1..Len(q) - 2 : Front(Tail(q))[i] = q[i + 1]
    <3>1. Len(Tail(q)) - 1 \in Int /\ \A i \in 1..Len(Tail(q)) - 1 : Tail(q)[i] \in S
      BY <1>1, <1>3
    <3> QED BY <1>1, <1>3, <3>1, SubSeqProperties DEF Front
  <2>5. Front(Tail(q)) = Tail(Front(q))
    BY <2>3, <2>4, SeqEqual
  <2> QED BY <2>1, <2>2, <2>5
<1>4. ASSUME Len(q) = 1
      PROVE  Tail(q) = <<>> /\ Front(q) = <<>> /\ q[Len(q)] = Head(q)
  <2>1. Len(Tail(q)) = 0 /\ Len(Front(q)) = 0
    BY <1>1, <1>2, <1>4
  <2>2. Tail(q) = <<>> /\ Front(q) = <<>>
    BY <1>1, <1>2, <2>1, EmptySeq
  <2> QED BY <1>4, <2>2
<1> QED BY <1>1, <1>2, <1>3, <1>4

\* What moves from the head of the rest to the end of what was taken.
LEMMA Moved ==
  ASSUME NEW S, NEW s \in Seq(S), NEW q \in Seq(S), q # <<>>
  PROVE  Append(s, Head(q)) \o Tail(q) = s \o q
OBVIOUS

LEMMA Grows ==
  ASSUME NEW S, NEW s \in Seq(S), NEW q \in Seq(S), NEW e \in S
  PROVE  s \o Append(q, e) = Append(s \o q, e)
OBVIOUS

-----------------------------------------------------------------------------
(***************************************************************************)
(* The calls of push and end: what they do to the stream, and that it is   *)
(* what OneShot promises.                                                  *)
(***************************************************************************)
StreamTypes ==
  /\ queue \in Seq(Event) /\ closed \in BOOLEAN
  /\ result \in [state : {"pending", "abandoned", "set"}, of : Nat]
  /\ runner \in {"running", "returned", "raised", "failed"}

LEMMA PushKeeps ==
  ASSUME IInv, NEW e \in Event, e.n # 0, Push(e), runner = "running",
         UNCHANGED <<class, reader>>
  PROVE  /\ StreamTypes' /\ QueueInv' /\ ResultInv'
         /\ runner' = "running" \/ (runner' = "failed" /\ result' = Abandoned)
<1>1. Sentinel \in Event /\ e # Sentinel /\ MaxSent \in Nat
  BY StreamAssumption DEF Event, Sentinel
<1>2. CASE Ignored
  BY <1>2 DEF Ignored, stream, IInv, TypeOK, StreamTypes, QueueInv, Events, ResultInv
<1>3. CASE ~closed
  <2>1. /\ reader = "iterating" /\ queue \in Seq(Event) /\ Events(queue)
        /\ result \in {Abandoned, Pending}
    BY <1>3 DEF IInv, TypeOK, QueueInv, ResultInv
  <2>2. CASE Queued(e)
    <3>1. queue' \in Seq(Event) /\ Events(queue)'
      BY <1>1, <2>1, <2>2, AppendProperties DEF Queued, Events
    <3> QED BY <1>3, <2>1, <2>2, <3>1
      DEF Queued, future, IInv, TypeOK, StreamTypes, QueueInv, ResultInv
  <2>3. CASE Final(e)
    <3>1. /\ queue' \in Seq(Event) /\ queue' # <<>> /\ queue'[Len(queue')] = Sentinel
          /\ Front(queue') = Append(queue, e) /\ Append(queue, e) \in Seq(Event)
      BY <1>1, <2>1, <2>3, Fronts DEF Final
    <3>2. Events(Append(queue, e))
      BY <1>1, <2>1, AppendProperties DEF Events
    <3>3. Events(Front(queue))'
      BY <3>1, <3>2 DEF Events
    <3>4. result' \in [state : {"pending", "abandoned", "set"}, of : Nat]
          /\ result'.state = "set"
      BY <1>1, <2>3 DEF Final, SetBy, Event
    <3> QED BY <2>1, <2>3, <3>1, <3>3, <3>4
      DEF Final, IInv, TypeOK, StreamTypes, QueueInv, ResultInv
  <2>4. CASE Rejected(e)
    <3>1. queue' \in Seq(Event) /\ Events(queue)'
      BY <1>1, <2>1, <2>4, AppendProperties DEF Rejected, Events
    <3> QED BY <1>3, <2>1, <2>4, <3>1
      DEF Rejected, future, IInv, TypeOK, StreamTypes, QueueInv, ResultInv
  <2> QED BY <1>3, <2>2, <2>3, <2>4 DEF Push, Ignored
<1> QED BY <1>2, <1>3 DEF Push, Queued, Final, Rejected

LEMMA PushPromises ==
  ASSUME IInv, NEW e \in Event, e.n # 0, Push(e), UNCHANGED <<class, seen, reader>>
  PROVE  [Promise!Next]_(Promise!vars)
<1> USE DEF IInv, TypeOK, QueueInv
<1>1. CASE Ignored
  BY <1>1 DEF Ignored, stream, Promise!vars, Waiting
<1>2. CASE Queued(e)
  <2>1. Waiting' = Append(Waiting, e) /\ Waiting = queue
    BY <1>2 DEF Queued, future, Waiting
  <2>2. seen' \o Waiting' = Append(seen \o Waiting, e)
    BY <2>1, Grows
  <2>3. Promise!Accept(e)
    BY <1>2, <2>2 DEF Queued, future, Promise!Accept
  <2> QED BY <2>3 DEF Promise!Next
<1>3. CASE Final(e)
  <2>1. Waiting' = Append(Waiting, e) /\ Waiting = queue
    <3>1. Sentinel \in Event
      BY StreamAssumption DEF Event, Sentinel
    <3> QED BY <1>3, <3>1, Fronts DEF Final, Waiting
  <2>2. seen' \o Waiting' = Append(seen \o Waiting, e)
    BY <2>1, Grows
  <2>3. Promise!Complete(e)
    BY <1>3, <2>2 DEF Final, Promise!Complete, Pending, SetBy,
      Promise!Pending, Promise!SetBy
  <2> QED BY <2>3 DEF Promise!Next
<1>4. CASE Rejected(e) /\ class = "assistant"
  BY <1>4 DEF Rejected, future, Promise!vars, Waiting
<1>5. CASE Rejected(e) /\ class # "assistant"
  <2>1. Waiting' = Append(Waiting, e) /\ Waiting = queue
    BY <1>5 DEF Rejected, future, Waiting
  <2>2. seen' \o Waiting' = Append(seen \o Waiting, e)
    BY <2>1, Grows
  <2>3. result = Abandoned
    BY <1>5 DEF Rejected, Pending, Abandoned, ResultInv
  <2>4. Promise!Spoil(e)
    BY <1>5, <2>2, <2>3 DEF Rejected, future, Promise!Spoil, Promise!Abandoned, Abandoned
  <2> QED BY <2>4 DEF Promise!Next
<1> QED BY <1>1, <1>2, <1>3, <1>4, <1>5 DEF Push

-----------------------------------------------------------------------------
(***************************************************************************)
(* The message of a proxied stream: payloads keep its types, and as long   *)
(* as the proxy keeps its protocol it is what the proxy sent, so that each *)
(* payload finds the block it is about.                                    *)
(***************************************************************************)
Blocks == [kind : Kinds \cup {"text"}, pieces : Seq(Nat), ended : BOOLEAN]
ToldBlocks == [kind : Kinds, pieces : Seq(Nat), ended : BOOLEAN]

LEMMA ReplaceBlock ==
  ASSUME NEW S, NEW s \in Seq(S), NEW i \in 1..Len(s), NEW b \in S
  PROVE  [s EXCEPT ![i] = b] \in Seq(S)
BY ExceptSeq

LEMMA StartedTypes ==
  ASSUME IInv, NEW p \in BlockPayload
  PROVE  Started(p) \in Seq(Blocks)
<1>1. content \in Seq(Blocks)
  BY DEF IInv, TypeOK, Blocks
<1>2. p.index \in Nat /\ p.kind \in Kinds
  BY StreamAssumption DEF BlockPayload
<1>3. Block(p.kind) \in Blocks /\ Block("text") \in Blocks
  BY <1>2 DEF Block, Blocks
<1>4. CASE p.index < Len(content)
  <2>1. p.index + 1 \in 1..Len(content)
    BY <1>1, <1>2, <1>4
  <2> QED BY <1>1, <1>3, <1>4, <2>1, ReplaceBlock DEF Started
<1>5. CASE ~(p.index < Len(content))
  <2>1. p.index - Len(content) \in Nat
    BY <1>1, <1>2, <1>5
  <2>2. Padding(p.index) \in Seq(Blocks)
    BY <1>3, <2>1, SeqDef DEF Padding
  <2>3. content \o Padding(p.index) \in Seq(Blocks)
    BY <1>1, <2>2, ConcatProperties
  <2> QED BY <1>3, <1>5, <2>3 DEF Started
<1> QED BY <1>4, <1>5

LEMMA ProcessedTypes ==
  ASSUME IInv, NEW p \in Payload, ~Raises(p), sent' = sent + 1
  PROVE  Processed(p) \in Seq(Blocks)
<1>1. content \in Seq(Blocks) /\ sent' \in Nat
  BY DEF IInv, TypeOK, Blocks
<1>2. CASE p.type = "start"
  <2>1. p \in BlockPayload
    BY <1>2 DEF Payload, Closing, Other
  <2> QED BY <1>2, <2>1, StartedTypes DEF Processed
<1>3. ASSUME p \in BlockPayload, Matches(p)
      PROVE  /\ p.index + 1 \in 1..Len(content) /\ p.kind \in Kinds
             /\ content[p.index + 1] \in Blocks
  <2>1. p.index \in Nat
    BY <1>3, StreamAssumption DEF BlockPayload
  <2> QED BY <1>1, <1>3, <2>1 DEF Matches, BlockPayload
<1>4. CASE p.type = "delta"
  <2>1. p \in BlockPayload /\ Matches(p)
    BY <1>4 DEF Payload, Closing, Other, Raises
  <2> DEFINE block == content[p.index + 1]
             parsed == IF p.kind = "tool" /\ block.ended THEN <<>> ELSE block.pieces
             grown == [kind |-> p.kind, pieces |-> Append(parsed, sent'),
                       ended |-> block.ended /\ p.kind # "tool"]
  <2>2. parsed \in Seq(Nat) /\ block \in Blocks
    BY <1>3, <2>1 DEF Blocks
  <2>3. Append(parsed, sent') \in Seq(Nat)
    BY <1>1, <2>2
  <2> HIDE DEF parsed
  <2>4. grown \in Blocks
    BY <1>3, <2>1, <2>2, <2>3 DEF Blocks
  <2>5. Processed(p) = [content EXCEPT ![p.index + 1] = grown]
    BY <1>4 DEF Processed, Grown, parsed
  <2> HIDE DEF grown
  <2> QED BY <1>1, <1>3, <2>1, <2>4, <2>5, ReplaceBlock
<1>5. CASE p.type = "end" /\ Matches(p)
  <2>1. p \in BlockPayload
    BY <1>5 DEF Payload, Closing, Other
  <2> DEFINE b == [content[p.index + 1] EXCEPT !.ended = TRUE]
  <2>2. b \in Blocks
    BY <1>3, <1>5, <2>1 DEF Blocks
  <2>3. Processed(p) = [content EXCEPT ![p.index + 1] = b]
    BY <1>5 DEF Processed
  <2> HIDE DEF b
  <2> QED BY <1>1, <1>3, <1>5, <2>1, <2>2, <2>3, ReplaceBlock
<1>6. CASE ~(p.type \in {"start", "delta"} \/ (p.type = "end" /\ Matches(p)))
  BY <1>1, <1>6 DEF Processed
<1> QED BY <1>2, <1>4, <1>5, <1>6

\* By the protocol, a payload is about a block that is there.
LEMMA ProtocolMatches ==
  ASSUME IInv, ~strayed, NEW p \in Payload, FromProxy(p)
  PROVE  /\ ~Raises(p)
         /\ p.type \in {"delta", "end"} => Matches(p) /\ ~content[p.index + 1].ended
BY DEF IInv, ContentInv, FromProxy, Open, Raises, Matches

LEMMA ToldTypes ==
  ASSUME IInv, NEW p \in Payload, FromProxy(p), sent' = sent + 1
  PROVE  Told(p) \in Seq(ToldBlocks)
<1>1. told \in Seq(ToldBlocks) /\ sent' \in Nat
  BY DEF IInv, TypeOK, ToldBlocks
<1>2. CASE p.type = "start"
  <2>1. p.kind \in Kinds
    BY <1>2 DEF Payload, Closing, Other, BlockPayload
  <2>2. Block(p.kind) \in ToldBlocks
    BY <2>1 DEF Block, ToldBlocks
  <2> QED BY <1>1, <1>2, <2>2 DEF Told
<1>3. CASE p.type \in {"delta", "end"}
  <2>1. p.index + 1 \in 1..Len(told) /\ told[p.index + 1] \in ToldBlocks
    <3>1. p.index \in Nat
      BY <1>3, StreamAssumption DEF Payload, Closing, Other, BlockPayload
    <3> QED BY <1>1, <1>3, <3>1 DEF FromProxy, Open
  <2> DEFINE b == [told[p.index + 1] EXCEPT !.ended = TRUE]
             d == [told[p.index + 1] EXCEPT !.pieces = Append(@, sent')]
  <2>2. b \in ToldBlocks /\ d \in ToldBlocks
    <3>1. Append(told[p.index + 1].pieces, sent') \in Seq(Nat)
      BY <1>1, <2>1, AppendProperties DEF ToldBlocks
    <3> QED BY <2>1, <3>1 DEF ToldBlocks
  <2>3. /\ p.type = "end" => Told(p) = [told EXCEPT ![p.index + 1] = b]
        /\ p.type = "delta" => Told(p) = [told EXCEPT ![p.index + 1] = d]
    BY DEF Told
  <2> HIDE DEF b, d
  <2> QED BY <1>1, <1>3, <2>1, <2>2, <2>3, ReplaceBlock
<1>4. CASE p.type \notin {"start", "delta", "end"}
  BY <1>1, <1>4 DEF Told
<1> QED BY <1>2, <1>3, <1>4

LEMMA ProcessedIsTold ==
  ASSUME IInv, ~strayed, NEW p \in Payload, FromProxy(p), sent' = sent + 1
  PROVE  Processed(p) = Told(p)
<1>1. content = told /\ told \in Seq(ToldBlocks) /\ content \in Seq(Blocks)
  BY DEF IInv, TypeOK, ContentInv, ToldBlocks, Blocks
<1>2. CASE p.type = "start"
  <2>1. p.index = Len(content) /\ p.index \in Nat /\ Block(p.kind) \in Blocks
    BY <1>1, <1>2 DEF FromProxy, Payload, BlockPayload, Closing, Other, Block, Blocks
  <2>2. Padding(p.index) = <<>>
    BY <1>1, <2>1 DEF Padding
  <2>3. Started(p) = content \o <<Block(p.kind)>>
    BY <1>1, <2>1, <2>2, ConcatEmptySeq DEF Started
  <2>4. content \o <<Block(p.kind)>> = Append(content, Block(p.kind))
    BY <1>1, <2>1, AppendIsConcat
  <2> QED BY <1>1, <1>2, <2>3, <2>4 DEF Processed, Told
<1>3. CASE p.type = "delta"
  <2>1. Matches(p) /\ ~content[p.index + 1].ended
    BY <1>3, ProtocolMatches
  <2>2. p.index + 1 \in 1..Len(content) /\ content[p.index + 1] \in Blocks
    <3>1. p.index \in Nat
      BY <1>3, StreamAssumption DEF Payload, Closing, Other, BlockPayload
    <3> QED BY <1>1, <2>1, <3>1 DEF Matches
  <2> DEFINE block == content[p.index + 1]
  <2>3. [kind |-> p.kind, pieces |-> Append(block.pieces, sent'),
         ended |-> block.ended /\ p.kind # "tool"]
          = [block EXCEPT !.pieces = Append(@, sent')]
    <3>1. (block.ended /\ p.kind # "tool") = block.ended /\ p.kind = block.kind
      BY <2>1, <2>2 DEF Blocks, Matches
    <3>2. ASSUME NEW b \in Blocks, NEW s
          PROVE  [kind |-> b.kind, pieces |-> s, ended |-> b.ended]
                   = [b EXCEPT !.pieces = s]
      BY DEF Blocks
    <3> QED BY <2>2, <3>1, <3>2
  <2> QED BY <1>1, <1>3, <2>1, <2>3 DEF Processed, Told, Grown
<1>4. CASE p.type = "end"
  <2>1. Matches(p)
    BY <1>4, ProtocolMatches
  <2> QED BY <1>1, <1>4, <2>1 DEF Processed, Told
<1>5. CASE p.type \notin {"start", "delta", "end"}
  BY <1>1, <1>5 DEF Processed, Told
<1> QED BY <1>2, <1>3, <1>4, <1>5

-----------------------------------------------------------------------------
(***************************************************************************)
(* The actions keep IInv.                                                  *)
(***************************************************************************)
LEMMA SentinelTypes == Sentinel \in Event /\ MaxSent \in Nat
BY StreamAssumption DEF Event, Sentinel

LEMMA EndKeeps ==
  ASSUME IInv, NEW given, runner = "running", End(given), UNCHANGED <<class, reader>>
  PROVE  StreamTypes' /\ QueueInv' /\ ResultInv' /\ runner' = "returned"
<1>1. CASE closed
  BY <1>1 DEF End, IInv, TypeOK, StreamTypes, QueueInv, ResultInv
<1>2. CASE ~closed
  <2>1. /\ reader = "iterating" /\ queue \in Seq(Event) /\ Events(queue)
        /\ result \in {Abandoned, Pending}
    BY <1>2 DEF IInv, TypeOK, QueueInv, ResultInv
  <2>2. queue' = Append(queue, Sentinel)
    BY <1>2 DEF End
  <2>3. /\ queue' \in Seq(Event) /\ queue' # <<>> /\ queue'[Len(queue')] = Sentinel
        /\ Front(queue') = queue
    <3>1. Sentinel \in Event
      BY SentinelTypes
    <3>2. ASSUME NEW x \in Event
          PROVE  /\ Append(queue, x) \in Seq(Event) /\ Append(queue, x) # <<>>
                 /\ Append(queue, x)[Len(Append(queue, x))] = x
                 /\ Front(Append(queue, x)) = queue
      BY <2>1, Lasts, AppendProperties
    <3> QED BY <2>2, <3>1, <3>2
  <2>4. Events(Front(queue))'
    BY <2>1, <2>3 DEF Events
  <2>5. /\ closed' = TRUE /\ runner' = "returned"
        /\ result' = SetBy(0) \/ result' = result
    BY DEF End
  <2>6. /\ result' \in [state : {"pending", "abandoned", "set"}, of : Nat]
        /\ result' = Abandoned \/ result' = Pending \/ result'.state = "set"
    BY <2>1, <2>5 DEF SetBy, IInv, TypeOK
  <2> QED BY <2>1, <2>3, <2>4, <2>5, <2>6 DEF StreamTypes, QueueInv, ResultInv
<1> QED BY <1>1, <1>2 DEF IInv, TypeOK

LEMMA HandleKeeps ==
  ASSUME IInv, Handle
  PROVE  /\ sent' = sent + 1 /\ sent' \in 1..MaxSent /\ runner = "running"
         /\ UNCHANGED <<class, seen, reader, waiter>>
         /\ runner' \in {"running", "returned", "raised", "failed"} => CountInv'
BY SentinelTypes DEF IInv, TypeOK, Handle, CountInv

LEMMA AgentEmitsKeeps == IInv /\ AgentEmits => IInv'
<1> SUFFICES ASSUME IInv, AgentEmits PROVE IInv'
  OBVIOUS
<1> DEFINE e == [final |-> FALSE, n |-> sent']
<1>1. e \in Event /\ e.n # 0
  BY HandleKeeps, SentinelTypes DEF AgentEmits, Event
<1>0. Push(e)
  BY DEF AgentEmits
<1> HIDE DEF e
<1>2. /\ StreamTypes' /\ QueueInv' /\ ResultInv'
      /\ runner' = "running" \/ (runner' = "failed" /\ result' = Abandoned)
  BY <1>0, <1>1, HandleKeeps, PushKeeps DEF AgentEmits
<1>3. UNCHANGED partial /\ Handle
  BY DEF AgentEmits
<1> QED BY <1>2, <1>3, HandleKeeps
     DEF IInv, TypeOK, StreamTypes, ContentInv, FailureHasCause, partial

LEMMA AgentEndsKeeps == IInv /\ AgentEnds => IInv'
<1> SUFFICES ASSUME IInv, AgentEnds PROVE IInv'
  OBVIOUS
<1> DEFINE e == [final |-> TRUE, n |-> sent + 1]
<1>1. /\ sent + 1 \in 1..MaxSent + 1 /\ runner = "running"
      /\ sent' = sent + 1 /\ UNCHANGED <<class, seen, reader, waiter, partial>>
  BY SentinelTypes DEF IInv, TypeOK, CountInv, AgentEnds
<1>2. e \in Event /\ e.n # 0
  BY <1>1 DEF Event
<1>3. CASE Rejected(e)
  <2>1. Push(e)
    BY <1>3 DEF Push
  <2> HIDE DEF e
  <2>2. StreamTypes' /\ QueueInv' /\ ResultInv' /\ runner' = "failed" /\ result' = Abandoned
    BY <1>1, <1>2, <1>3, <2>1, PushKeeps DEF Rejected
  <2> QED BY <1>1, <2>2
       DEF IInv, TypeOK, StreamTypes, ContentInv, FailureHasCause, partial, CountInv
<1>4. CASE ~Rejected(e)
  <2>1. /\ ~closed /\ closed' = TRUE /\ runner' = "returned" /\ result' = SetBy(e.n)
        /\ queue' = queue \o <<e, Sentinel>>
    BY <1>4 DEF AgentEnds
  <2>2. reader = "iterating" /\ queue \in Seq(Event) /\ Events(queue)
    BY <2>1 DEF IInv, TypeOK, QueueInv
  <2>3. /\ queue' \in Seq(Event) /\ queue' # <<>> /\ queue'[Len(queue')] = Sentinel
        /\ Front(queue') = Append(queue, e)
    <3> HIDE DEF e
    <3> QED BY <1>2, <2>1, <2>2, SentinelTypes, Fronts
  <2>4. Events(Append(queue, e))
    <3>1. e # Sentinel
      BY <1>2 DEF Sentinel
    <3> HIDE DEF e
    <3> QED BY <1>2, <2>2, <3>1, AppendProperties DEF Events
  <2>5. Events(Front(queue))'
    BY <2>3, <2>4 DEF Events
  <2>6. /\ result' \in [state : {"pending", "abandoned", "set"}, of : Nat]
        /\ result'.state = "set"
    BY <1>1, <2>1 DEF SetBy
  <2> HIDE DEF e
  <2> QED BY <1>1, <2>1, <2>2, <2>3, <2>5, <2>6
       DEF IInv, TypeOK, ContentInv, FailureHasCause, partial, CountInv, QueueInv, ResultInv
<1> QED BY <1>3, <1>4

LEMMA UserPushesKeeps ==
  ASSUME IInv, NEW final \in BOOLEAN, UserPushes(final)
  PROVE  IInv'
<1> DEFINE e == [final |-> final, n |-> sent']
<1>1. e \in Event /\ e.n # 0
  BY HandleKeeps, SentinelTypes DEF UserPushes, Event
<1>0. Push(e)
  BY DEF UserPushes
<1> HIDE DEF e
<1>2. /\ StreamTypes' /\ QueueInv' /\ ResultInv'
      /\ runner' = "running" \/ (runner' = "failed" /\ result' = Abandoned)
  BY <1>0, <1>1, HandleKeeps, PushKeeps DEF UserPushes
<1>3. UNCHANGED partial /\ Handle
  BY DEF UserPushes
<1> QED BY <1>2, <1>3, HandleKeeps
     DEF IInv, TypeOK, StreamTypes, ContentInv, FailureHasCause, partial

LEMMA ProxySendsKeeps ==
  ASSUME IInv, NEW p \in Payload, ProxySends(p)
  PROVE  IInv'
<1> DEFINE e == [final |-> p \in Closing, n |-> sent']
<1>1. /\ Handle
      /\ strayed' = (strayed \/ ~FromProxy(p))
      /\ told' = IF FromProxy(p) THEN Told(p) ELSE told
  BY DEF ProxySends
<1>2. /\ sent' = sent + 1 /\ sent' \in 1..MaxSent /\ runner = "running"
      /\ UNCHANGED <<class, seen, reader, waiter>>
      /\ runner' \in {"running", "returned", "raised", "failed"} => CountInv'
  BY <1>1, HandleKeeps
<1>3. told' \in Seq(ToldBlocks) /\ strayed' \in BOOLEAN
  BY <1>1, <1>2, ToldTypes DEF IInv, TypeOK, ToldBlocks
<1>4. CASE Raises(p)
  <2>1. runner' = "failed" /\ UNCHANGED <<stream, content>>
    BY <1>4 DEF ProxySends
  <2>2. strayed'
    BY <1>1, <1>4, ProtocolMatches
  <2> QED BY <1>2, <1>3, <2>1, <2>2
       DEF IInv, TypeOK, ToldBlocks, stream, QueueInv, ResultInv, ContentInv, FailureHasCause
<1>5. CASE ~Raises(p)
  <2>1. content' = Processed(p) /\ content' \in Seq(Blocks)
    BY <1>2, <1>5, ProcessedTypes DEF ProxySends
  <2>2. ContentInv'
    BY <1>1, <1>2, <2>1, ProcessedIsTold DEF ContentInv
  <2>3. CASE Silent(p)
    <3>1. UNCHANGED <<runner, stream>>
      BY <1>5, <2>3 DEF ProxySends
    <3> QED BY <1>2, <1>3, <2>1, <2>2, <3>1
         DEF IInv, TypeOK, ToldBlocks, Blocks, stream, QueueInv, ResultInv, FailureHasCause
  <2>4. CASE ~Silent(p)
    <3>1. Push(e)
      BY <1>5, <2>4 DEF ProxySends
    <3>2. e \in Event /\ e.n # 0
      BY <1>2, SentinelTypes DEF Event
    <3> HIDE DEF e
    <3>3. /\ StreamTypes' /\ QueueInv' /\ ResultInv'
          /\ runner' = "running" \/ (runner' = "failed" /\ result' = Abandoned)
      BY <1>2, <3>1, <3>2, PushKeeps
    <3> QED BY <1>2, <1>3, <2>1, <2>2, <3>3
         DEF IInv, TypeOK, StreamTypes, ToldBlocks, Blocks, FailureHasCause
  <2> QED BY <2>3, <2>4
<1> QED BY <1>4, <1>5

LEMMA EndsKeeps ==
  ASSUME IInv, ProxyEnds \/ (\E given \in BOOLEAN : UserEnds(given)) \/ SourceRaises
  PROVE  IInv'
<1>1. CASE SourceRaises
  BY <1>1 DEF SourceRaises, IInv, TypeOK, QueueInv, CountInv, ResultInv, ContentInv,
    FailureHasCause, stream, partial
<1>2. CASE ~SourceRaises
  <2>1. PICK given : End(given)
    BY <1>2 DEF ProxyEnds, UserEnds
  <2>2. runner = "running" /\ UNCHANGED <<class, sent, seen, reader, waiter, partial>>
    BY <1>2 DEF ProxyEnds, UserEnds
  <2>3. StreamTypes' /\ QueueInv' /\ ResultInv' /\ runner' = "returned"
    BY <2>1, <2>2, EndKeeps
  <2> QED BY <2>2, <2>3
       DEF IInv, TypeOK, StreamTypes, CountInv, ContentInv, FailureHasCause, partial
<1> QED BY <1>1, <1>2

LEMMA ReadKeeps == IInv /\ Read => IInv'
<1> SUFFICES ASSUME IInv, Read PROVE IInv'
  OBVIOUS
<1>1. /\ queue \in Seq(Event) /\ queue # <<>> /\ seen \in Seq(Event)
      /\ reader = "iterating" /\ queue' = Tail(queue)
      /\ UNCHANGED <<class, runner, sent, closed, result, waiter, content, told, strayed>>
  BY DEF IInv, TypeOK, Read, future, partial
<1>2. /\ Head(queue) \in Event /\ queue' \in Seq(Event)
      /\ Len(queue) \in Nat \ {0} /\ Head(queue) = queue[1]
      /\ Len(queue') = Len(queue) - 1
      /\ \A i \in 1..Len(queue') : queue'[i] = queue[i + 1]
  BY <1>1, HeadTailProperties
<1>3. CASE Head(queue) = Sentinel
  <2>1. reader' = "done" /\ seen' = seen
    BY <1>3 DEF Read
  <2>2. closed /\ Len(queue) = 1
    <3>1. closed
      BY <1>1, <1>2, <1>3 DEF IInv, QueueInv, Events
    <3>2. ASSUME Len(queue) > 1
          PROVE  FALSE
      BY SMTT(30), <1>1, <1>2, <1>3, <3>1, <3>2, Tails DEF IInv, QueueInv, Events
    <3> QED BY <1>2, <3>1, <3>2
  <2>3. queue' = <<>>
    BY <1>2, <2>2, EmptySeq
  <2> QED BY <1>1, <1>2, <2>1, <2>2, <2>3
       DEF IInv, TypeOK, QueueInv, CountInv, ResultInv, ContentInv, FailureHasCause
<1>4. CASE Head(queue) # Sentinel
  <2>1. reader' = "iterating" /\ seen' \in Seq(Event)
    BY <1>1, <1>2, <1>4, AppendProperties DEF Read
  <2>2. QueueInv'
    <3>1. CASE ~closed
      BY <1>1, <1>2, <2>1, <3>1 DEF IInv, QueueInv, Events
    <3>2. CASE closed
      <4>1. queue[Len(queue)] = Sentinel /\ Events(Front(queue))
        BY <1>1, <3>2 DEF IInv, QueueInv
      <4>2. Len(queue) > 1
        BY <1>2, <1>4, <4>1
      <4>3. /\ queue' # <<>> /\ queue'[Len(queue')] = Sentinel
            /\ Front(queue') = Tail(Front(queue))
            /\ Front(queue) # <<>> /\ Front(queue) \in Seq(Event)
        BY <1>1, <4>1, <4>2, Tails
      <4>4. Events(Front(queue'))
        BY <4>1, <4>3, HeadTailProperties DEF Events
      <4>5. Events(Front(queue))'
        BY <4>4 DEF Events
      <4> QED BY <1>1, <2>1, <3>2, <4>3, <4>5 DEF QueueInv
    <3> QED BY <3>1, <3>2 DEF IInv, TypeOK
  <2> QED BY <1>1, <1>2, <2>1, <2>2
       DEF IInv, TypeOK, CountInv, ResultInv, ContentInv, FailureHasCause
<1> QED BY <1>3, <1>4

LEMMA WaiterKeeps ==
  ASSUME IInv, NEW w \in Waiters, Await(w) \/ Return(w) \/ CancelWaiter(w)
  PROVE  IInv'
<1>1. CASE Await(w) \/ Return(w)
  <2>1. /\ UNCHANGED <<class, runner, sent, queue, closed, result, seen, reader,
                       content, told, strayed>>
        /\ waiter' \in [Waiters -> {"out", "waiting", "back"}]
    BY <1>1 DEF Await, Return, IInv, TypeOK, stream, partial
  <2> QED BY <2>1 DEF IInv, TypeOK, QueueInv, CountInv, ResultInv, ContentInv,
        FailureHasCause
<1>2. CASE CancelWaiter(w)
  BY <1>2 DEF CancelWaiter, IInv, TypeOK, QueueInv, CountInv, ResultInv, ContentInv,
    FailureHasCause, partial, Abandoned, Pending
<1> QED BY <1>1, <1>2

\* The inductive invariant holds whatever is scheduled.
THEOREM Inductive == SafeSpec => []IInv
<1>1. Init => IInv
  <2> SUFFICES ASSUME Init PROVE IInv
    OBVIOUS
  <2>1. /\ class \in {"agent", "assistant", "proxy"}
        /\ result \in [state : {"pending", "abandoned", "set"}, of : Nat]
    BY StreamAssumption DEF Init, Pending
  <2>2. /\ queue \in Seq(Event) /\ seen \in Seq(Event)
        /\ content \in Seq([kind : Kinds \cup {"text"}, pieces : Seq(Nat), ended : BOOLEAN])
        /\ told \in Seq([kind : Kinds, pieces : Seq(Nat), ended : BOOLEAN])
    BY EmptySeq DEF Init
  <2>3. waiter \in [Waiters -> {"out", "waiting", "back"}]
    BY DEF Init
  <2>4. TypeOK
    BY <2>1, <2>2, <2>3 DEF Init, TypeOK
  <2> QED BY <2>4, SentinelTypes
       DEF Init, IInv, QueueInv, CountInv, ResultInv, ContentInv, FailureHasCause, Events
<1>2. IInv /\ [Next]_vars => IInv'
  <2> SUFFICES ASSUME IInv, [Next]_vars PROVE IInv'
    OBVIOUS
  <2>1. CASE Next
    BY <2>1, AgentEmitsKeeps, AgentEndsKeeps, UserPushesKeeps, ProxySendsKeeps,
      EndsKeeps, ReadKeeps, WaiterKeeps DEF Next, Runner
  <2>2. CASE UNCHANGED vars
    BY <2>2 DEF vars, IInv, TypeOK, QueueInv, CountInv, ResultInv, ContentInv,
      FailureHasCause
  <2> QED BY <2>1, <2>2
<1> QED BY <1>1, <1>2, PTL DEF SafeSpec

\* Types are right in every state, the blocks of a message a proxy muddles too.
THEOREM TypeCorrect == SafeSpec => []TypeOK
<1>1. IInv => TypeOK
  BY DEF IInv
<1> QED BY <1>1, Inductive, PTL

\* A stream fails only if its proxy left the protocol or a waiter was cancelled.
THEOREM Failures == SafeSpec => []FailureHasCause
<1>1. IInv => FailureHasCause
  BY DEF IInv
<1> QED BY <1>1, Inductive, PTL

\* A proxied stream resolves to the message its proxy sent.
THEOREM AssembledAsSent == SafeSpec => []Assembled
<1>1. IInv => Assembled
  BY DEF IInv, ContentInv, Assembled
<1> QED BY <1>1, Inductive, PTL

-----------------------------------------------------------------------------
(***************************************************************************)
(* Every step is a step OneShot allows, or none.                           *)
(***************************************************************************)
LEMMA EndPromises ==
  ASSUME IInv, NEW given, End(given), UNCHANGED <<seen, reader>>
  PROVE  [Promise!Next]_(Promise!vars)
<1>1. CASE closed
  BY <1>1 DEF End, Promise!vars, Waiting, IInv, TypeOK
<1>2. CASE ~closed
  <2>1. reader = "iterating" /\ queue \in Seq(Event) /\ Waiting = queue
    BY <1>2 DEF IInv, TypeOK, QueueInv, Waiting
  <2>2. queue' = Append(queue, Sentinel) /\ closed' = TRUE
    BY <1>2 DEF End
  <2>3. Waiting' = queue
    <3>1. \A x \in Event : Front(Append(queue, x)) = queue
      BY <2>1, Lasts
    <3> QED BY <2>1, <2>2, <3>1, SentinelTypes DEF Waiting
  <2>4. (result' = SetBy(0) /\ result = Pending) \/ result' = result
    BY DEF End
  <2>5. Promise!Close
    BY <1>2, <2>1, <2>2, <2>3, <2>4
      DEF Promise!Close, Promise!Pending, Promise!SetBy, Pending, SetBy
  <2> QED BY <2>5 DEF Promise!Next
<1> QED BY <1>1, <1>2 DEF IInv, TypeOK

LEMMA ReadPromises == IInv /\ Read => [Promise!Next]_(Promise!vars)
<1> SUFFICES ASSUME IInv, Read PROVE [Promise!Next]_(Promise!vars)
  OBVIOUS
<1>1. /\ queue \in Seq(Event) /\ queue # <<>> /\ seen \in Seq(Event)
      /\ reader = "iterating" /\ queue' = Tail(queue)
      /\ UNCHANGED <<closed, result>>
  BY DEF IInv, TypeOK, Read, future
<1>2. CASE Head(queue) = Sentinel
  <2>1. reader' = "done" /\ seen' = seen
    BY <1>2 DEF Read
  <2>2. closed /\ queue' = <<>>
    BY <1>1, <2>1, ReadKeeps DEF IInv, QueueInv
  <2>3. Len(queue) = 1
    <3>1. Len(queue) \in Nat \ {0} /\ Len(Tail(queue)) = Len(queue) - 1
      BY <1>1, HeadTailProperties, EmptySeq
    <3>2. Tail(queue) = <<>>
      BY <1>1, <2>2
    <3>3. Len(Tail(queue)) = 0
      BY <1>1, <3>2, HeadTailProperties, EmptySeq
    <3> QED BY <3>1, <3>3
  <2>4. Waiting = <<>> /\ Waiting' = <<>>
    BY <1>1, <2>1, <2>2, <2>3, Tails DEF Waiting
  <2>5. Promise!Over
    <3>1. seen \o <<>> = seen
      BY <1>1, ConcatEmptySeq
    <3> QED BY <1>1, <2>1, <2>2, <2>4, <3>1 DEF Promise!Over
  <2> QED BY <2>5 DEF Promise!Next
<1>3. CASE Head(queue) # Sentinel
  <2>1. reader' = reader /\ seen' = Append(seen, Head(queue))
    BY <1>3 DEF Read
  <2>2. /\ Waiting # <<>> /\ Waiting \in Seq(Event)
        /\ Head(Waiting) = Head(queue) /\ Waiting' = Tail(Waiting)
    <3>1. CASE ~closed
      BY <1>1, <2>1, <3>1 DEF Waiting
    <3>2. CASE closed
      <4>1. queue[Len(queue)] = Sentinel
        BY <1>1, <3>2 DEF IInv, QueueInv
      <4>2. Len(queue) > 1
        BY <1>1, <1>3, <4>1
      <4> QED BY <1>1, <2>1, <3>2, <4>2, Tails DEF Waiting
    <3> QED BY <3>1, <3>2 DEF IInv, TypeOK
  <2>3. seen' \o Waiting' = seen \o Waiting
    BY <1>1, <2>1, <2>2, Moved
  <2>4. Len(seen') = Len(seen) + 1 /\ Len(seen) < Len(seen \o Waiting)
    <3>1. Len(Waiting) \in Nat \ {0} /\ Head(queue) \in Event
      BY <1>1, <2>2, EmptySeq, HeadTailProperties
    <3> QED BY <1>1, <2>1, <2>2, <3>1, ConcatProperties, AppendProperties
  <2>5. Promise!Take
    BY <1>1, <2>1, <2>3, <2>4 DEF Promise!Take
  <2> QED BY <2>5 DEF Promise!Next
<1> QED BY <1>2, <1>3

LEMMA WaiterPromises ==
  ASSUME IInv, NEW w \in Waiters, Await(w) \/ Return(w) \/ CancelWaiter(w)
  PROVE  [Promise!Next]_(Promise!vars)
<1>1. CASE Await(w) \/ Return(w) \/ (CancelWaiter(w) /\ result # Pending)
  BY <1>1 DEF Await, Return, CancelWaiter, stream, Promise!vars, Waiting
<1>2. CASE CancelWaiter(w) /\ result = Pending
  <2>1. Promise!Abandon
    BY <1>2 DEF CancelWaiter, Promise!Abandon, Promise!Pending, Promise!Abandoned,
      Pending, Abandoned, Waiting
  <2> QED BY <2>1 DEF Promise!Next
<1> QED BY <1>1, <1>2

LEMMA AgentEndsPromises ==
  ASSUME IInv, AgentEnds
  PROVE  [Promise!Next]_(Promise!vars)
<1> DEFINE e == [final |-> TRUE, n |-> sent + 1]
<1>1. e \in Event /\ e.n # 0 /\ e.final
  BY SentinelTypes DEF IInv, TypeOK, CountInv, AgentEnds, Event
<1>2. UNCHANGED <<class, seen, reader>>
  BY DEF AgentEnds
<1>3. CASE Rejected(e)
  <2> HIDE DEF e
  <2> QED BY <1>1, <1>2, <1>3, PushPromises DEF Push
<1>4. CASE ~Rejected(e)
  <2>1. /\ ~closed /\ closed' = TRUE /\ result = Pending /\ result' = SetBy(e.n)
        /\ queue' = queue \o <<e, Sentinel>>
    BY <1>4 DEF AgentEnds
  <2>2. reader = "iterating" /\ queue \in Seq(Event) /\ Waiting = queue
    BY <2>1 DEF IInv, TypeOK, QueueInv, Waiting
  <2> HIDE DEF e
  <2>3. Waiting' = Append(Waiting, e)
    BY <1>1, <1>2, <2>1, <2>2, SentinelTypes, Fronts DEF Waiting
  <2>4. seen' \o Waiting' = Append(seen \o Waiting, e)
    BY <1>1, <1>2, <2>2, <2>3, Grows DEF IInv, TypeOK
  <2>5. Promise!Complete(e)
    BY <1>1, <1>2, <2>1, <2>4 DEF Promise!Complete, Pending, SetBy,
      Promise!Pending, Promise!SetBy
  <2> QED BY <1>1, <2>5 DEF Promise!Next
<1> QED BY <1>3, <1>4

LEMMA PushersPromise ==
  ASSUME IInv, Handle,
         NEW e, e = [final |-> e.final, n |-> sent'], e.final \in BOOLEAN, Push(e)
  PROVE  [Promise!Next]_(Promise!vars)
<1>1. e \in Event /\ e.n # 0
  BY HandleKeeps, SentinelTypes DEF Event
<1> QED BY <1>1, HandleKeeps, PushPromises

\* Each stream implements OneShot: the safety part of its promise.
THEOREM Promised == SafeSpec => PromiseKept
<1>1. Init => Promise!Init
  BY DEF Init, Promise!Init, Waiting, Pending, Promise!Pending
<1>2. IInv /\ [Next]_vars => [Promise!Next]_(Promise!vars)
  <2> SUFFICES ASSUME IInv, [Next]_vars PROVE [Promise!Next]_(Promise!vars)
    OBVIOUS
  <2>1. CASE AgentEmits
    <3> DEFINE e == [final |-> FALSE, n |-> sent']
    <3>1. Handle /\ Push(e) /\ e = [final |-> e.final, n |-> sent'] /\ e.final \in BOOLEAN
      BY <2>1 DEF AgentEmits
    <3> HIDE DEF e
    <3> QED BY <3>1, PushersPromise
  <2>2. CASE \E final \in BOOLEAN : UserPushes(final)
    <3>1. PICK final \in BOOLEAN : UserPushes(final)
      BY <2>2
    <3> DEFINE e == [final |-> final, n |-> sent']
    <3>2. Handle /\ Push(e) /\ e = [final |-> e.final, n |-> sent'] /\ e.final \in BOOLEAN
      BY <3>1 DEF UserPushes
    <3> HIDE DEF e
    <3> QED BY <3>2, PushersPromise
  <2>3. CASE \E p \in Payload : ProxySends(p)
    <3>1. PICK p \in Payload : ProxySends(p)
      BY <2>3
    <3>2. CASE UNCHANGED stream
      BY <3>1, <3>2 DEF ProxySends, Handle, stream, Promise!vars, Waiting
    <3>3. CASE ~UNCHANGED stream
      <4> DEFINE e == [final |-> p \in Closing, n |-> sent']
      <4>1. Handle /\ Push(e) /\ e = [final |-> e.final, n |-> sent'] /\ e.final \in BOOLEAN
        BY <3>1, <3>3 DEF ProxySends
      <4> HIDE DEF e
      <4> QED BY <4>1, PushersPromise
    <3> QED BY <3>2, <3>3
  <2>4. CASE AgentEnds
    BY <2>4, AgentEndsPromises
  <2>5. CASE ProxyEnds \/ \E given \in BOOLEAN : UserEnds(given)
    <3>1. PICK given : End(given)
      BY <2>5 DEF ProxyEnds, UserEnds
    <3>2. UNCHANGED <<seen, reader>>
      BY <2>5 DEF ProxyEnds, UserEnds
    <3> QED BY <3>1, <3>2, EndPromises
  <2>6. CASE SourceRaises \/ UNCHANGED vars
    BY <2>6 DEF SourceRaises, stream, vars, Promise!vars, Waiting
  <2>7. CASE Read
    BY <2>7, ReadPromises
  <2>8. CASE \E w \in Waiters : Await(w) \/ Return(w) \/ CancelWaiter(w)
    BY <2>8, WaiterPromises
  <2> QED BY <2>1, <2>2, <2>3, <2>4, <2>5, <2>6, <2>7, <2>8 DEF Next, Runner
<1> QED BY <1>1, <1>2, Inductive, PTL DEF SafeSpec, PromiseKept, Promise!Spec
=============================================================================
