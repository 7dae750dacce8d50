------------------------------ MODULE ToolCall ------------------------------
(***************************************************************************)
(* One tool call from its announcement to its end (py_agent/agent_loop.py: *)
(* _prepare_tool_call, _execute_prepared_tool_call, _finalize_tool_call),  *)
(* with the tasks its on_update callback starts and the listeners of Agent *)
(* (agent.py), who are awaited one after the other for every event.        *)
(*                                                                         *)
(* The call is one coroutine: the loop's own, or, in a parallel batch, a   *)
(* task from the moment its tool is executed.  Each update is a task of    *)
(* its own.  A step is the code between two suspensions of one of them; a  *)
(* listener is called at the start of a step and awaited at its end.       *)
(***************************************************************************)
EXTENDS Naturals, FiniteSets

CONSTANTS
  MaxUpdates,    \* bound: progress reports of the tool
  MaxListener,   \* the listeners, in the order of their subscription
  Disruptions    \* a subset of AllDisruptions

AllDisruptions ==
  {"raise",    \* a listener raises
   "fail",     \* the tool, or the after_tool_call hook, raises
   "cancel",   \* the task awaiting the run is cancelled
   "leave",    \* in a parallel batch: a sibling's failure ends the run
   "late"}     \* the tool calls on_update after it has returned or raised

ASSUME ToolCallAssumption ==
  /\ MaxUpdates \in Nat
  /\ MaxListener \in Nat \ {0}
  /\ Disruptions \subseteq AllDisruptions

Updates == 1..MaxUpdates
Listeners == 1..MaxListener

\* What a listener may hear of the call: its start, updates, its end.
Start == 0
End == MaxUpdates + 1
Events == 0..(MaxUpdates + 1)

VARIABLES
  parallel,   \* is the call executed in a task of its own?
  pc,         \* where the call is
  teller,     \* the listener awaited for the start or the end, if any
  tool,       \* what the tool has come to
  gathered,   \* the update tasks asyncio.gather waits for
  verdict,    \* what the end event will say, and why
  update,     \* the task of each update
  at,         \* the listener each of these tasks has called last
  heard,      \* the events each listener was called with
  run         \* the active run of the agent: the call's, none, a later one

vars ==
  <<parallel, pc, teller, tool, gathered, verdict, update, at, heard, run>>

Points == {"new", "announcing", "preparing", "executing", "gathering",
           "finalizing", "ending", "ended", "failed", "cancelled"}
Final == {"ended", "failed", "cancelled"}

\* An update is not yet reported, a task that has not run, one that awaits a
\* listener, or one that is over in one of four ways.
Over == {"told", "raised", "dropped", "stopped"}
UpdateStates == {"none", "made", "telling"} \cup Over

Verdicts == {"none", "value", "refused", "raised", "unheard", "hook"}

TypeOK ==
  /\ parallel \in BOOLEAN
  /\ pc \in Points
  /\ teller \in 0..MaxListener
  /\ tool \in {"unused", "running", "returned", "raised"}
  /\ gathered \subseteq Updates
  /\ verdict \in Verdicts
  /\ update \in [Updates -> UpdateStates]
  /\ at \in [Updates -> 0..MaxListener]
  /\ heard \in [Listeners -> SUBSET Events]
  /\ run \in {"own", "none", "later"}

Init ==
  /\ parallel \in BOOLEAN
  /\ pc = "new" /\ teller = 0 /\ tool = "unused"
  /\ gathered = {} /\ verdict = "none"
  /\ update = [i \in Updates |-> "none"]
  /\ at = [i \in Updates |-> 0]
  /\ heard = [l \in Listeners |-> {}]
  /\ run = "own"

Hear(l, e) == heard' = [heard EXCEPT ![l] = @ \cup {e}]

-----------------------------------------------------------------------------
(***************************************************************************)
(* _process_event: without an active run nobody is told; otherwise the     *)
(* listeners are called one by one, each awaited before the next.          *)
(***************************************************************************)
\* The start and the end are told by the call itself.
Telling == pc \in {"announcing", "ending"}
Event == IF pc = "announcing" THEN Start ELSE End

BeginTelling(point, e) ==
  /\ pc' = point
  /\ IF run = "none" THEN teller' = 0 /\ UNCHANGED heard
     ELSE teller' = 1 /\ Hear(1, e)

TellNext ==
  /\ Telling /\ teller \in 1..(MaxListener - 1)
  /\ teller' = teller + 1
  /\ Hear(teller + 1, Event)
  /\ UNCHANGED <<parallel, pc, tool, gathered, verdict, update, at, run>>

\* All were told, or there was nobody to tell.
Told == Telling /\ teller \in {0, MaxListener}

\* A listener raises: the call is given up, in a task as in the loop.
TellRaises ==
  /\ "raise" \in Disruptions
  /\ Telling /\ teller # 0
  /\ pc' = "failed" /\ teller' = 0
  /\ UNCHANGED <<parallel, tool, gathered, verdict, update, at, heard, run>>

Announce ==
  /\ pc = "new"
  /\ BeginTelling("announcing", Start)
  /\ UNCHANGED <<parallel, tool, gathered, verdict, update, at, run>>

Prepare ==
  /\ pc = "announcing" /\ Told
  /\ pc' = "preparing" /\ teller' = 0
  /\ UNCHANGED <<parallel, tool, gathered, verdict, update, at, heard, run>>

\* No such tool, bad arguments, or before_tool_call blocks it or raises.
Refuse ==
  /\ pc = "preparing"
  /\ verdict' = "refused"
  /\ BeginTelling("ending", End)
  /\ UNCHANGED <<parallel, tool, gathered, update, at, run>>

Execute ==
  /\ pc = "preparing"
  /\ pc' = "executing"
  /\ tool' = "running"
  /\ UNCHANGED <<parallel, teller, gathered, verdict, update, at, heard, run>>

-----------------------------------------------------------------------------
(***************************************************************************)
(* on_update starts a task for the update.  gather takes those started by  *)
(* the time the tool has returned; no one takes those of a tool that       *)
(* raises, and those started later.                                        *)
(***************************************************************************)
Made == {i \in Updates : update[i] # "none"}
Unmade == Updates \ Made

MakeUpdate ==
  /\ \E i \in Unmade :
       /\ \A j \in Unmade : i <= j
       /\ update' = [update EXCEPT ![i] = "made"]
  /\ UNCHANGED <<parallel, pc, teller, tool, gathered, verdict, at, heard, run>>

Report == tool = "running" /\ pc = "executing" /\ MakeUpdate

ReportLate ==
  /\ "late" \in Disruptions
  /\ tool \in {"returned", "raised"}
  /\ MakeUpdate

\* As ToolReturns, the update tasks left to themselves.
ToolReturnsAtOnce ==
  /\ pc = "executing" /\ tool = "running"
  /\ tool' = "returned"
  /\ gathered' = Made
  /\ pc' = "finalizing" /\ verdict' = "value"
  /\ UNCHANGED <<parallel, teller, update, at, heard, run>>

ToolReturns ==
  /\ pc = "executing" /\ tool = "running"
  /\ tool' = "returned"
  /\ gathered' = Made
  /\ IF Made = {} THEN pc' = "finalizing" /\ verdict' = "value"
     ELSE pc' = "gathering" /\ UNCHANGED verdict
  /\ UNCHANGED <<parallel, teller, update, at, heard, run>>

ToolRaises ==
  /\ "fail" \in Disruptions
  /\ pc = "executing" /\ tool = "running"
  /\ tool' = "raised"
  /\ pc' = "finalizing" /\ verdict' = "raised"
  /\ UNCHANGED <<parallel, teller, gathered, update, at, heard, run>>

\* As Gathered, the exceptions of the updates taken for results.
GatheredAnyway ==
  /\ pc = "gathering"
  /\ \A i \in gathered : update[i] \in Over
  /\ pc' = "finalizing" /\ verdict' = "value"
  /\ UNCHANGED <<parallel, teller, tool, gathered, update, at, heard, run>>

Gathered ==
  /\ pc = "gathering"
  /\ \A i \in gathered : update[i] \in Over \ {"raised"}
  /\ pc' = "finalizing" /\ verdict' = "value"
  /\ UNCHANGED <<parallel, teller, tool, gathered, update, at, heard, run>>

\* The first exception ends the wait; the other updates go on.
GatherRaises ==
  /\ pc = "gathering"
  /\ \E i \in gathered : update[i] = "raised"
  /\ pc' = "finalizing" /\ verdict' = "unheard"
  /\ UNCHANGED <<parallel, teller, tool, gathered, update, at, heard, run>>

\* The after_tool_call hook leaves the verdict, changes it, or raises.
Finalize ==
  /\ pc = "finalizing"
  /\ verdict' \in {verdict, "hook"} \cup
                  IF "fail" \in Disruptions THEN {"raised"} ELSE {}
  /\ BeginTelling("ending", End)
  /\ UNCHANGED <<parallel, tool, gathered, update, at, run>>

Finish ==
  /\ pc = "ending" /\ Told
  /\ pc' = "ended" /\ teller' = 0
  /\ UNCHANGED <<parallel, tool, gathered, verdict, update, at, heard, run>>

-----------------------------------------------------------------------------
(***************************************************************************)
(* An update task.  asyncio starts tasks in the order of their creation.   *)
(***************************************************************************)
Tell(i, l) ==
  /\ update' = [update EXCEPT ![i] = "telling"]
  /\ at' = [at EXCEPT ![i] = l]
  /\ Hear(l, i)

Begin(i) ==
  /\ update[i] = "made"
  /\ IF run = "none"
     THEN update' = [update EXCEPT ![i] = "dropped"] /\ UNCHANGED <<at, heard>>
     ELSE Tell(i, 1)
  /\ UNCHANGED <<parallel, pc, teller, tool, gathered, verdict, run>>

UpdateStarts(i) ==
  /\ \A j \in 1..(i - 1) : update[j] # "made"
  /\ Begin(i)

\* As UpdateGoesOn, the last listener never let go.
UpdateHangs(i) ==
  /\ update[i] = "telling" /\ at[i] < MaxListener
  /\ Tell(i, at[i] + 1)
  /\ UNCHANGED <<parallel, pc, teller, tool, gathered, verdict, run>>

UpdateGoesOn(i) ==
  /\ update[i] = "telling"
  /\ IF at[i] < MaxListener THEN Tell(i, at[i] + 1)
     ELSE update' = [update EXCEPT ![i] = "told"] /\ UNCHANGED <<at, heard>>
  /\ UNCHANGED <<parallel, pc, teller, tool, gathered, verdict, run>>

UpdateRaises(i) ==
  /\ "raise" \in Disruptions
  /\ update[i] = "telling"
  /\ update' = [update EXCEPT ![i] = "raised"]
  /\ UNCHANGED <<parallel, pc, teller, tool, gathered, verdict, at, heard, run>>

-----------------------------------------------------------------------------
(***************************************************************************)
(* The run of the call ends: in its time, because of the call, or under    *)
(* it.  A task of a parallel batch goes on without the run, and so do the  *)
(* updates; only gather passes a cancellation on.                          *)
(***************************************************************************)
InTask == parallel /\ tool # "unused" /\ pc \notin Final

RunEnds ==
  /\ run = "own"
  /\ \/ pc \in Final
     \/ "leave" \in Disruptions /\ InTask
  /\ run' = "none"
  /\ UNCHANGED <<parallel, pc, teller, tool, gathered, verdict, update, at, heard>>

NextRun ==
  /\ run = "none"
  /\ run' = "later"
  /\ UNCHANGED <<parallel, pc, teller, tool, gathered, verdict, update, at, heard>>

\* As Cancel, not passed on to the updates.
CancelCallOnly ==
  /\ "cancel" \in Disruptions
  /\ run = "own" /\ pc \notin Final
  /\ run' = "none"
  /\ IF InTask THEN UNCHANGED <<pc, teller>>
     ELSE pc' = "cancelled" /\ teller' = 0
  /\ UNCHANGED <<parallel, tool, gathered, verdict, update, at, heard>>

Cancel ==
  /\ "cancel" \in Disruptions
  /\ run = "own" /\ pc \notin Final
  /\ run' = "none"
  /\ IF InTask THEN UNCHANGED <<pc, teller, update>>
     ELSE /\ pc' = "cancelled" /\ teller' = 0
          /\ update' = [i \in Updates |->
               IF pc = "gathering" /\ i \in gathered /\ update[i] \notin Over
               THEN "stopped" ELSE update[i]]
  /\ UNCHANGED <<parallel, tool, gathered, verdict, at, heard>>

-----------------------------------------------------------------------------
CallStep ==
  \/ Announce \/ TellNext \/ Prepare \/ Refuse \/ Execute
  \/ ToolReturns \/ ToolRaises \/ Gathered \/ GatherRaises
  \/ Finalize \/ Finish

UpdateStep(i) == UpdateStarts(i) \/ UpdateGoesOn(i)

Next ==
  \/ CallStep \/ TellRaises
  \/ Report \/ ReportLate
  \/ \E i \in Updates : UpdateStep(i) \/ UpdateRaises(i)
  \/ RunEnds \/ NextRun \/ Cancel

(***************************************************************************)
(* asyncio resumes every coroutine that is ready; listeners and tools are  *)
(* assumed to return.                                                      *)
(***************************************************************************)
Spec ==
  /\ Init /\ [][Next]_vars
  /\ WF_vars(CallStep)
  /\ \A i \in Updates : WF_vars(UpdateStep(i))

-----------------------------------------------------------------------------
\* The update tasks that the end of the call does not wait for.
Loose(i) ==
  i \notin gathered \/ \E j \in gathered : update[j] = "raised"

(***************************************************************************)
(* No listener that has been told of the end is told of an update, and a   *)
(* sequential call tells of none in a later run, unless the tool raised,   *)
(* or reported it when it had returned, or a listener of an update raised. *)
(* A call that is left, given up or cancelled is no exception.             *)
(***************************************************************************)
UpdatesInside ==
  [][ \A l \in Listeners, i \in Updates :
        i \in heard'[l] \ heard[l] =>
          /\ Start \in heard[l]
          /\ Loose(i) \/ (End \notin heard[l] /\ (parallel \/ run = "own")) ]_vars

(***************************************************************************)
(* An end that reports the value of the tool is true: the tool returned,   *)
(* and every listener was called with all updates it reported before that, *)
(* unless the run was left while they were under way.                      *)
(***************************************************************************)
HonestEnd ==
  verdict = "value" =>
    /\ tool = "returned"
    /\ \A i \in gathered, l \in Listeners :
         i \in heard[l] \/ (update[i] = "dropped" /\ run # "own")

(***************************************************************************)
(* The inductive invariant these follow from.                              *)
(***************************************************************************)
\* Who has been told what: the start before anything else, the end last.
HeardInv ==
  /\ pc \in {"new", "announcing", "preparing"} => run = "own" /\ tool = "unused"
  /\ pc = "announcing" =>
       teller # 0 /\ \A l \in Listeners : l <= teller => Start \in heard[l]
  /\ pc = "preparing" \/ tool # "unused" =>
       \A l \in Listeners : Start \in heard[l]
  /\ \A l \in Listeners : End \in heard[l] => pc \in {"ending"} \cup Final
  /\ \A i \in Updates, l \in Listeners :
       /\ i \in heard[l] => update[i] \notin {"none", "made"}
       /\ update[i] = "told" \/ (update[i] = "telling" /\ l <= at[i])
            => i \in heard[l]

\* The tasks: begun in order, and those gather waits for are the oldest.
UpdateInv ==
  /\ \A i, j \in Updates : i < j =>
       /\ update[j] # "none" => update[i] # "none"
       /\ update[j] \notin {"none", "made"} => update[i] # "made"
       /\ j \in gathered => i \in gathered
  /\ \A i \in Updates :
       /\ update[i] # "none" => tool # "unused"
       /\ update[i] = "telling" => at[i] # 0
       /\ update[i] = "dropped" => run # "own"
       /\ i \in gathered => update[i] # "none"

\* Where the call is, and what the verdict rests on.
Settled ==
  \/ \A i \in gathered : update[i] \in Over
  \/ \E i \in gathered : update[i] = "raised"

CallInv ==
  /\ pc \in {"new", "announcing", "preparing", "executing"} => verdict = "none"
  /\ pc = "executing" => tool = "running"
  /\ pc = "gathering" => tool = "returned" /\ verdict = "none"
  /\ pc = "finalizing" => tool \in {"returned", "raised"}
  /\ tool # "returned" => gathered = {}
  /\ tool = "returned" /\ pc # "gathering" => Settled
  /\ ~parallel /\ run # "own" => pc \in Final
  /\ \A i \in Updates : update[i] = "stopped" => pc = "cancelled"
  /\ verdict = "value" =>
       /\ tool = "returned" /\ pc \notin {"executing", "gathering"}
       /\ \A i \in gathered : update[i] \in {"told", "dropped"}

IInv == TypeOK /\ HeardInv /\ UpdateInv /\ CallInv

(***************************************************************************)
(* Whatever fails or is cancelled, the call comes to an end, and no update *)
(* task stays behind for ever.                                             *)
(***************************************************************************)
CallEnds ==
  /\ <>(pc \in Final)
  /\ \A i \in Updates : update[i] = "made" ~> update[i] \in Over
=============================================================================
