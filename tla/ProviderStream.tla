--------------------------- MODULE ProviderStream ---------------------------
(***************************************************************************)
(* One reply of a provider, from the payloads of its server to the message *)
(* the agent gets: _parse_event of openai.py and anthropic.py, which keep  *)
(* the partial tool calls by index and yield a snapshot of a call each     *)
(* time it grows, and AgenticResponder (integration.py), which keeps the   *)
(* last snapshot of every id and makes the message when the payloads end.  *)
(*                                                                         *)
(* A step is one payload, through both.  A payload of several parts is     *)
(* handled as several of one part, in the order of the code.  Text and     *)
(* arguments come in pieces, numbered as the server sends them.            *)
(***************************************************************************)
EXTENDS Naturals, Sequences, SequencesExt

CONSTANTS Providers,    \* "openai", "anthropic"
          MaxIndex,     \* bound: the index of a call, or of a content block
          MaxSent,      \* bound: pieces of one reply
          Disruptions   \* "break": the transport, or the JSON of a payload
                        \* "cut": the payloads end before the reply does
                        \* "late": a call gets its id after its first piece
                        \* "blank": later pieces of a call have an empty id

ASSUME ProviderAssumption ==
  /\ Providers \subseteq {"openai", "anthropic"}
  /\ MaxIndex \in Nat /\ MaxSent \in Nat

VARIABLES
  provider, tools,      \* whose stream; has the agent tools?
  sent, told, named,    \* the server: pieces sent, blocks, ids in order given
  said, reason, over,   \* the server: its text, why it stops, has it finished?
  partial,              \* partial_tool_calls, by index
  textParts, calls, stopReason,  \* _AssistantBuildState; calls in dict order
  message               \* what _stream_fn returns

server == <<sent, told, named, said, reason, over>>
state == <<textParts, calls, stopReason>>
vars == <<provider, tools, server, partial, state, message>>

Indexes == 0..MaxIndex
IdOf(i) == i + 1
Blank == 0

Call(id) == [id |-> id, pieces |-> <<>>, whole |-> FALSE]
NoBlock == [kind |-> "none", pieces |-> <<>>, whole |-> FALSE, blanked |-> FALSE, ended |-> FALSE]
NoMessage == [state |-> "none", text |-> <<>>, calls |-> <<>>, stop |-> "stop"]

Init ==
  /\ provider \in Providers /\ tools \in BOOLEAN
  /\ sent = 0 /\ told = [i \in Indexes |-> NoBlock] /\ named = <<>>
  /\ said = <<>> /\ reason = "none" /\ over = FALSE
  /\ partial = [i \in Indexes |-> Call(Blank)]
  /\ textParts = <<>> /\ calls = <<>> /\ stopReason = "stop"
  /\ message = NoMessage

-----------------------------------------------------------------------------
(***************************************************************************)
(* The consumer of the events.                                             *)
(***************************************************************************)
\* Mutant: the calls are a list.
PutAppends(call) == Append(calls, call)

\* Mutant: what is kept is the last piece and not the snapshot.
PutLast(call) ==
  LET last == [call EXCEPT !.pieces = IF @ = <<>> THEN @ ELSE <<Last(@)>>] IN
  IF \E k \in 1..Len(calls) : calls[k].id = call.id
  THEN [k \in 1..Len(calls) |-> IF calls[k].id = call.id THEN last ELSE calls[k]]
  ELSE Append(calls, last)

\* state.tool_calls[id] = snapshot: a dict keeps the order of first insertion.
Put(call) ==
  IF \E k \in 1..Len(calls) : calls[k].id = call.id
  THEN [k \in 1..Len(calls) |-> IF calls[k].id = call.id THEN call ELSE calls[k]]
  ELSE Append(calls, call)

\* Mutant: a snapshot without an id is kept too.
SnapshotUnnamed(call) ==
  /\ calls' = Put(call)
  /\ UNCHANGED <<textParts, stopReason>>

\* _consume_delta_tool_calls: a snapshot without an id is left aside.
Snapshot(call) ==
  /\ calls' = IF call.id = Blank THEN calls ELSE Put(call)
  /\ UNCHANGED <<textParts, stopReason>>

Text ==
  /\ textParts' = Append(textParts, sent')
  /\ UNCHANGED <<partial, calls, stopReason>>

Finish(word) ==
  /\ stopReason' = IF word \in {"tool_use", "tool_calls"} THEN "toolUse" ELSE word
  /\ UNCHANGED <<partial, textParts, calls>>

-----------------------------------------------------------------------------
(***************************************************************************)
(* The server: it gives each call its id at once, and says why it stops    *)
(* when every block is complete or the reply has become too long.          *)
(***************************************************************************)
Fresh(i) == told[i].kind = "none" /\ \A j \in Indexes : j < i => told[j].kind # "none"
Growing(i) == told[i].kind = "call" /\ ~told[i].whole /\ ~told[i].ended
Complete(i) == told[i].kind = "call" => told[i].whole
Called == \E i \in Indexes : told[i].kind = "call"

Receiving == message = NoMessage /\ ~over

Piece ==
  /\ Receiving /\ reason = "none"
  /\ sent < MaxSent
  /\ sent' = sent + 1
  /\ UNCHANGED <<provider, tools, reason, over, message>>

Stops(r) ==
  /\ Receiving /\ reason = "none"
  /\ r # "length" => (\A i \in Indexes : Complete(i)) /\ (r = "tool" <=> Called)
  /\ reason' = r
  /\ UNCHANGED <<provider, tools, sent, told, named, said, message>>

-----------------------------------------------------------------------------
(***************************************************************************)
(* openai.py.  Several calls may grow at a time.                           *)
(***************************************************************************)
Content ==
  /\ provider = "openai" /\ Piece
  /\ said' = Append(said, sent')
  /\ Text
  /\ UNCHANGED <<told, named>>

\* The id of a piece of a call is "given", "blank" or "absent".
Sent(i, id) ==
  /\ Fresh(i) \/ Growing(i)
  /\ id = "blank" => "blank" \in Disruptions /\ IdOf(i) \in ToSet(named)
  /\ id = "absent" => "late" \in Disruptions \/ Growing(i)
  /\ named' = IF id = "given" /\ IdOf(i) \notin ToSet(named)
              THEN Append(named, IdOf(i)) ELSE named

ToolCallPiece(i, id, last) ==
  /\ provider = "openai" /\ Piece
  /\ Sent(i, id)
  /\ told' = [told EXCEPT ![i] =
       [kind |-> "call", pieces |-> Append(@.pieces, sent'), whole |-> last,
        blanked |-> id = "blank" \/ (id = "absent" /\ @.blanked), ended |-> FALSE]]
  /\ LET call == [id |-> CASE id = "given" -> IdOf(i)
                           [] id = "blank" -> Blank
                           [] OTHER -> partial[i].id,
                  pieces |-> Append(partial[i].pieces, sent'),
                  whole |-> last]
     IN  /\ partial' = [partial EXCEPT ![i] = call]
         /\ Snapshot(call)
  /\ UNCHANGED said

FinishReason(r) ==
  /\ provider = "openai" /\ Stops(r)
  /\ over' = TRUE
  /\ Finish(CASE r = "tool" -> "tool_calls" [] OTHER -> r)

-----------------------------------------------------------------------------
(***************************************************************************)
(* anthropic.py.  One block is sent after the other; a tool_use block has  *)
(* its id from the start, and its end repairs and parses its arguments.    *)
(***************************************************************************)
ContentBlockStart(i, kind) ==
  /\ provider = "anthropic" /\ Receiving /\ reason = "none"
  /\ Fresh(i) /\ \A j \in Indexes : j < i => told[j].ended /\ Complete(j)
  /\ told' = [told EXCEPT ![i].kind = kind]
  /\ IF kind = "call"
     THEN /\ named' = Append(named, IdOf(i))
          /\ partial' = [partial EXCEPT ![i] = Call(IdOf(i))]
          /\ Snapshot(Call(IdOf(i)))
     ELSE UNCHANGED <<named, partial, state>>
  /\ UNCHANGED <<provider, tools, sent, said, reason, over, message>>

\* The input may come with the start of the block: it is whole, and no more follows.
ContentBlockGiven(i) ==
  /\ provider = "anthropic" /\ Piece
  /\ Fresh(i) /\ \A j \in Indexes : j < i => told[j].ended /\ Complete(j)
  /\ told' = [told EXCEPT ![i].kind = "call", ![i].pieces = <<sent'>>, ![i].whole = TRUE]
  /\ named' = Append(named, IdOf(i))
  /\ LET call == [Call(IdOf(i)) EXCEPT !.pieces = <<sent'>>, !.whole = TRUE]
     IN  /\ partial' = [partial EXCEPT ![i] = call]
         /\ Snapshot(call)
  /\ UNCHANGED said

TextDelta(i) ==
  /\ provider = "anthropic" /\ Piece
  /\ told[i].kind = "text" /\ ~told[i].ended
  /\ said' = Append(said, sent')
  /\ Text
  /\ UNCHANGED <<told, named>>

InputJsonDelta(i, last) ==
  /\ provider = "anthropic" /\ Piece
  /\ Growing(i)
  /\ told' = [told EXCEPT ![i].pieces = Append(@, sent'), ![i].whole = last]
  /\ LET call == [partial[i] EXCEPT !.pieces = Append(@, sent'), !.whole = last]
     IN  /\ partial' = [partial EXCEPT ![i] = call]
         /\ Snapshot(call)
  /\ UNCHANGED <<named, said>>

ContentBlockStop(i) ==
  /\ provider = "anthropic" /\ Receiving /\ reason = "none"
  /\ told[i].kind # "none" /\ ~told[i].ended
  /\ told' = [told EXCEPT ![i].ended = TRUE]
  /\ IF partial[i] = Call(Blank)
     THEN UNCHANGED <<partial, state>>
     ELSE LET call == [partial[i] EXCEPT !.whole = TRUE]
          IN  /\ partial' = [partial EXCEPT ![i] = call]
              /\ Snapshot(call)
  /\ UNCHANGED <<provider, tools, sent, named, said, reason, over, message>>

MessageDelta(r) ==
  /\ provider = "anthropic" /\ Stops(r)
  /\ \A i \in Indexes : told[i].kind = "none" \/ told[i].ended
  /\ Finish(CASE r = "tool" -> "tool_use" [] r = "length" -> "max_tokens"
              [] OTHER -> "end_turn")
  /\ UNCHANGED over

MessageStop ==
  /\ provider = "anthropic" /\ Receiving /\ reason # "none"
  /\ over' = TRUE
  /\ Finish("stop")
  /\ UNCHANGED <<provider, tools, sent, told, named, said, reason, message>>

-----------------------------------------------------------------------------
(***************************************************************************)
(* _stream_fn: the payloads end, the message is made, and an agent without *)
(* tools gets no calls; an exception makes a message that has failed.      *)
(***************************************************************************)
Parsed(call) == [id |-> call.id, pieces |-> IF call.whole THEN call.pieces ELSE <<>>]

ToAgentStopReason ==
  IF stopReason \in {"stop", "length", "toolUse", "error", "aborted"}
  THEN stopReason ELSE "stop"

Materialize ==
  /\ message = NoMessage
  /\ over \/ "cut" \in Disruptions
  /\ message' = [state |-> "done", text |-> textParts,
       calls |-> IF tools THEN [k \in 1..Len(calls) |-> Parsed(calls[k])] ELSE <<>>,
       stop |-> IF ToAgentStopReason = "toolUse" /\ ~tools
                THEN "stop" ELSE ToAgentStopReason]
  /\ UNCHANGED <<provider, tools, server, partial, state>>

Fail ==
  /\ message = NoMessage
  /\ "break" \in Disruptions
  /\ message' = [state |-> "failed", text |-> <<>>, calls |-> <<>>, stop |-> "error"]
  /\ UNCHANGED <<provider, tools, server, partial, state>>

Next ==
  \/ Content
  \/ \E i \in Indexes, id \in {"given", "blank", "absent"}, last \in BOOLEAN :
       ToolCallPiece(i, id, last)
  \/ \E r \in {"stop", "length", "tool"} : FinishReason(r) \/ MessageDelta(r)
  \/ \E i \in Indexes, kind \in {"text", "call"} : ContentBlockStart(i, kind)
  \/ \E i \in Indexes : ContentBlockGiven(i) \/ TextDelta(i) \/ ContentBlockStop(i)
  \/ \E i \in Indexes, last \in BOOLEAN : InputJsonDelta(i, last)
  \/ MessageStop \/ Materialize \/ Fail

Spec == Init /\ [][Next]_vars

-----------------------------------------------------------------------------
Held(ids) == [id : ids, pieces : Seq(Nat), whole : BOOLEAN]
Argued(ids) == [id : ids, pieces : Seq(Nat)]
Ids == {IdOf(i) : i \in Indexes}
StopReasons == {"stop", "length", "toolUse", "error", "aborted"}

TypeOK ==
  /\ provider \in {"openai", "anthropic"} /\ tools \in BOOLEAN
  /\ sent \in Nat /\ over \in BOOLEAN
  /\ told \in [Indexes -> [kind : {"none", "text", "call"}, pieces : Seq(Nat),
                           whole : BOOLEAN, blanked : BOOLEAN, ended : BOOLEAN]]
  /\ named \in Seq(Ids) /\ said \in Seq(Nat)
  /\ reason \in {"none", "stop", "length", "tool"}
  /\ partial \in [Indexes -> Held(Ids \cup {Blank})]
  /\ textParts \in Seq(Nat) /\ calls \in Seq(Held(Ids))
  /\ stopReason \in {"stop", "length", "toolUse", "max_tokens", "end_turn"}
  /\ message \in [state : {"none", "done", "failed"}, text : Seq(Nat),
                  calls : Seq(Argued(Ids)), stop : StopReasons]

(***************************************************************************)
(* The message has the text and the calls the server sent, however their   *)
(* pieces interleave and whenever the ids come: every call with an id      *)
(* once, in the order of the ids, with all its pieces.  Arguments cut      *)
(* short are dropped, unless the end of their block has repaired them.  A  *)
(* call whose id was blanked may lack what came later.                     *)
(***************************************************************************)
Arguments(id) ==
  LET block == told[id - 1] IN
  IF block.whole \/ block.ended THEN block.pieces ELSE <<>>

MessageAsSent ==
  message.state = "done" =>
    /\ message.text = said
    /\ Len(message.calls) = IF tools THEN Len(named) ELSE 0
    /\ \A k \in 1..Len(message.calls) :
         /\ message.calls[k].id = named[k]
         /\ told[named[k] - 1].blanked
              \/ message.calls[k].pieces = Arguments(named[k])

(***************************************************************************)
(* The last finish reason reported for a reply that stops for tool use is  *)
(* toolUse.                                                                *)
(***************************************************************************)
ToolUseReported ==
  message.state = "done" /\ reason = "tool" => stopReason = "toolUse"

(***************************************************************************)
(* A snapshot never takes back what an earlier one of the same call had,   *)
(* also when a server blanks or repeats its ids.                           *)
(***************************************************************************)
SnapshotsGrow ==
  [][\A k \in 1..Len(calls) :
       /\ k <= Len(calls') /\ calls'[k].id = calls[k].id
       /\ IsPrefix(calls[k].pieces, calls'[k].pieces)]_vars

(***************************************************************************)
(* The inductive invariant the safety properties follow from.  Each call   *)
(* that has been named has its snapshot, in the order of the names, and    *)
(* only a blanked one may lag behind what the adapter holds; what it holds *)
(* of a block is what it was told.                                         *)
(***************************************************************************)
TextInv == textParts = said

NamesInv ==
  /\ Len(calls) = Len(named)
  /\ \A k \in 1..Len(named) : calls[k].id = named[k]
  /\ \A j, k \in 1..Len(named) : named[j] = named[k] => j = k

Behind(k, i) ==
  /\ Len(calls[k].pieces) <= Len(told[i].pieces)
  /\ \A n \in 1..Len(calls[k].pieces) : calls[k].pieces[n] = told[i].pieces[n]

HeldInv ==
  \A i \in Indexes :
    /\ partial[i].pieces = told[i].pieces
    /\ told[i].kind = "call" => (partial[i].whole <=> told[i].whole \/ told[i].ended)
    /\ told[i].kind # "call" => partial[i] = Call(Blank)
    /\ told[i].kind = "none" => told[i] = NoBlock
    /\ partial[i].id # Blank => partial[i].id = IdOf(i)
    /\ provider = "openai" => ~told[i].ended
    /\ provider = "anthropic" /\ told[i].kind = "call" =>
         partial[i].id = IdOf(i) /\ ~told[i].blanked
    /\ partial[i].id # Blank => \E k \in 1..Len(named) : named[k] = IdOf(i)
    /\ \A k \in 1..Len(named) : named[k] = IdOf(i) =>
         /\ told[i].kind = "call"
         /\ Behind(k, i)
         /\ ~told[i].blanked => calls[k] = partial[i]

IInv == TypeOK /\ TextInv /\ NamesInv /\ HeldInv /\ MessageAsSent
=============================================================================
