---------------------------- MODULE AgentHandoff ----------------------------
(***************************************************************************)
(* The transcript of an agent handed to another model:                     *)
(* transform_messages_for_handoff (llm_providers/communication.py), which  *)
(* leaves failed replies out, gives calls the ids every provider accepts   *)
(* and answers those calls that have no result, applied to each transcript *)
(* that Agent reaches, however its runs were disturbed.                    *)
(*                                                                         *)
(* The function takes the messages of communication.py, which have the     *)
(* roles, calls, ids and stop reasons of those of py_agent/types.py; text, *)
(* thinking and images are left out.                                       *)
(***************************************************************************)
EXTENDS Agent

(***************************************************************************)
(* normalize_tool_call_id: an id stays as it is if its message is of the   *)
(* target model or it already has the shape; kept is the set of these.     *)
(* Distinct calls are taken to have distinct ids, as they were and after.  *)
(***************************************************************************)
Original(c) == <<c, "original">>
Normalized(kept, c) == IF c \in kept THEN Original(c) ELSE <<c, "normalized">>

\* The locals of the transformation: calls is tool_call_id_map's domain.
NothingYet == [out |-> <<>>, calls |-> {}, pending |-> <<>>, answered |-> {}]

NoResultProvided(id) == [role |-> "toolResult", id |-> id, synthetic |-> TRUE]

\* As FlushPending, for calls that have a result too.
FlushAllPending(h) ==
  [h EXCEPT !.out = @ \o [i \in DOMAIN h.pending |-> NoResultProvided(h.pending[i])],
            !.pending = <<>>, !.answered = {}]

\* The pending calls that have no result get one.  Without pending calls it
\* returns at once: what is answered stays so.
FlushPending(h) ==
  LET out[n \in 0 .. Len(h.pending)] ==
        IF n = 0 THEN h.out
        ELSE IF h.pending[n] \in h.answered THEN out[n - 1]
        ELSE Append(out[n - 1], NoResultProvided(h.pending[n]))
  IN  IF h.pending = <<>> THEN h
      ELSE [h EXCEPT !.out = out[Len(h.pending)], !.pending = <<>>, !.answered = {}]

HandOverUser(h, m) ==
  [FlushPending(h) EXCEPT !.out = Append(@, m)]

HandOverResult(kept, h, m) ==
  LET c  == <<m.batch, m.call>>
      id == IF c \in h.calls THEN Normalized(kept, c) ELSE Original(c)
  IN  [h EXCEPT !.answered = @ \cup {id},
                !.out = Append(@, [role |-> "toolResult", id |-> id, synthetic |-> FALSE])]

HandOverReply(kept, h, m) ==
  LET ids == [i \in 1..m.calls |-> Normalized(kept, <<m.batch, i>>)]
      f   == FlushPending(h)
  IN  [f EXCEPT !.calls = @ \cup ({m.batch} \X (1..m.calls)),
                !.pending = @ \o ids,
                !.out = Append(@, [role |-> "assistant", ids |-> ids])]

HandOver(kept, h, m) ==
  CASE m.role = "user" -> HandOverUser(h, m)
    [] m.role = "toolResult" -> HandOverResult(kept, h, m)
    [] m.role = "assistant" /\ m.stop \in {"error", "aborted"} -> h
    [] OTHER -> HandOverReply(kept, h, m)

Handoff(kept, history) ==
  LET after[n \in 0 .. Len(history)] ==
        IF n = 0 THEN NothingYet ELSE HandOver(kept, after[n - 1], history[n])
  IN  FlushPending(after[Len(history)]).out

-----------------------------------------------------------------------------
(***************************************************************************)
(* Whatever ended or disturbed the runs that made a transcript, it can be  *)
(* handed over: each call of a reply is answered exactly once, in its      *)
(* place and before anything else is said, with a made-up result only if   *)
(* the transcript has none; and no result stands without its call, but for *)
(* those at the front whose reply a reset has cut off.                     *)
(***************************************************************************)
Resulted == {<<m.batch, m.call>> : m \in {n \in MessagesOf(messages) : n.role = "toolResult"}}

AnsweredAt(out, p) ==
  LET ids == out[p].ids IN
  /\ \A k \in DOMAIN ids :
       /\ p + k \in DOMAIN out
       /\ out[p + k].role = "toolResult" /\ out[p + k].id = ids[k]
       /\ out[p + k].synthetic <=> ids[k][1] \notin Resulted
  /\ p + Len(ids) + 1 \in DOMAIN out => out[p + Len(ids) + 1].role # "toolResult"

HandoffAnswered ==
  \A kept \in SUBSET CallId :
    LET out == Handoff(kept, messages) IN
    \A p \in DOMAIN out :
      /\ out[p].role = "assistant" => AnsweredAt(out, p)
      /\ out[p].role = "toolResult" /\ p > 1 => out[p - 1].role # "user"
=============================================================================
