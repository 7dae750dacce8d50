------------------------------ MODULE Session ------------------------------
(***************************************************************************)
(* The prompt cycle of CodingAgentApp (py_coding_agent/cli.py) over a      *)
(* session file: answer, announce, store, compact, with the recovery from  *)
(* a context overflow.  An app is one process; several may share a file,   *)
(* on one branch or on branches of their own, each a sequential program,   *)
(* so that they interleave between two accesses to the file.  An app that  *)
(* has died is started again on the same file.                             *)
(***************************************************************************)
EXTENDS SessionLog

CONSTANTS
  Apps,         \* the processes
  Branches,     \* the branches they may be started on
  MaxAsked,     \* bound: prompts and tool requests ever made
  Sizes,        \* the sizes of an interaction
  Disruptions   \* a subset of AllDisruptions

AllDisruptions ==
  {"overflow",   \* the responder raises ContextOverflowError
   "cancel",     \* a session_before_compact hook cancels
   "override",   \* a hook chooses another first_kept_id
   "die",        \* the process ends: killed, or a listener or hook raised
   "tear"}       \* the process ends in the middle of a write

ASSUME SessionAssumption ==
  /\ MaxAsked \in Nat
  /\ Sizes \subseteq Nat
  /\ Disruptions \subseteq AllDisruptions

VARIABLES
  file,         \* the lines of the session file
  tail,         \* is the last line whole, but for its newline, or a part?
  branch,       \* the branch of each app
  pc, attempts, recovering,
  prompt,       \* the number of the prompt an app is at, also its record's id
  plan,         \* the compaction an app is about to append
  asked,        \* prompts so far
  acked,        \* ids of the records whose append returned
  tears         \* torn writes so far

fileVars == <<file, tail, acked, tears>>
locals == <<attempts, recovering, prompt, plan>>
vars == <<fileVars, branch, pc, locals, asked>>

Points == {"idle", "responding", "answered", "planning", "hook",
           "summarizing", "appending", "compacted"}
PromptId == 1..MaxAsked
MaxRecoveries == 1   \* MAX_OVERFLOW_RECOVERY_RETRIES

Line ==
  [type : {"interaction"}, id : PromptId, branch : Branches, size : Sizes] \cup
  [type : {"compaction"}, branch : Branches, kept : 0..MaxAsked,
   covers : SUBSET PromptId] \cup
  {Garbage}

\* planned is the record the plan keeps first, kept the one a hook prefers.
Plan == [planned : 0..MaxAsked, kept : 0..MaxAsked, covers : SUBSET PromptId]
NoPlan == [planned |-> 0, kept |-> 0, covers |-> {}]

TypeOK ==
  /\ file \in Seq(Line)
  /\ tail \in {"clean", "whole", "part"}
  /\ branch \in [Apps -> Branches]
  /\ pc \in [Apps -> Points]
  /\ attempts \in [Apps -> 0..MaxRecoveries]
  /\ recovering \in [Apps -> BOOLEAN]
  /\ prompt \in [Apps -> 0..MaxAsked]
  /\ plan \in [Apps -> Plan]
  /\ asked \in 0..MaxAsked
  /\ acked \subseteq PromptId
  /\ tears \in Nat

Init ==
  /\ file = <<>> /\ tail = "clean"
  /\ branch \in [Apps -> Branches]
  /\ pc = [p \in Apps |-> "idle"]
  /\ attempts = [p \in Apps |-> 0]
  /\ recovering = [p \in Apps |-> FALSE]
  /\ prompt = [p \in Apps |-> 0]
  /\ plan = [p \in Apps |-> NoPlan]
  /\ asked = 0 /\ acked = {} /\ tears = 0

Loaded(p) == Load(file, branch[p])

\* The cycle goes on at another point, with its locals as they are,
Goto(p, point) ==
  /\ pc' = [pc EXCEPT ![p] = point]
  /\ UNCHANGED <<branch, locals, asked>>

\* or it is over.
Over(p) ==
  /\ pc' = [pc EXCEPT ![p] = "idle"]
  /\ attempts' = [attempts EXCEPT ![p] = 0]
  /\ recovering' = [recovering EXCEPT ![p] = FALSE]
  /\ prompt' = [prompt EXCEPT ![p] = 0]
  /\ plan' = [plan EXCEPT ![p] = NoPlan]
  /\ UNCHANGED <<branch, asked>>

GotoWith(p, point, newPlan) ==
  /\ pc' = [pc EXCEPT ![p] = point]
  /\ plan' = [plan EXCEPT ![p] = newPlan]
  /\ UNCHANGED <<branch, attempts, recovering, prompt, asked>>

\* The append mode of open: a line goes where the last one ended, and merges
\* with it into one that does not parse if that one has no newline.
WithLine(line) ==
  IF tail = "clean" THEN Append(file, line)
  ELSE [file EXCEPT ![Len(file)] = Garbage]

AppendJson(line) ==
  /\ file' = WithLine(line)
  /\ tail' = "clean"
  /\ UNCHANGED tears

-----------------------------------------------------------------------------
(***************************************************************************)
(* A prompt, answered; or a tool request of the rpc mode, which needs no   *)
(* context.  The response is written before anything is stored.            *)
(***************************************************************************)
Request(p, point) ==
  /\ pc[p] = "idle" /\ asked < MaxAsked
  /\ pc' = [pc EXCEPT ![p] = point]
  /\ asked' = asked + 1
  /\ prompt' = [prompt EXCEPT ![p] = asked + 1]
  /\ UNCHANGED <<fileVars, branch, attempts, recovering, plan>>

Ask(p) == Request(p, "responding")
RpcTool(p) == Request(p, "answered")

\* As Respond, the recovery still on.
RespondRecovering(p) ==
  /\ pc[p] = "responding"
  /\ Goto(p, "answered")
  /\ UNCHANGED fileVars

Respond(p) ==
  /\ pc[p] = "responding"
  /\ pc' = [pc EXCEPT ![p] = "answered"]
  /\ recovering' = [recovering EXCEPT ![p] = FALSE]
  /\ UNCHANGED <<fileVars, branch, attempts, prompt, plan, asked>>

(***************************************************************************)
(* _respond_with_overflow_recovery: one compaction and one retry, then the *)
(* overflow is reported to the user.                                       *)
(***************************************************************************)
Overflow(p) ==
  /\ "overflow" \in Disruptions
  /\ pc[p] = "responding"
  /\ IF attempts[p] < MaxRecoveries
     THEN /\ pc' = [pc EXCEPT ![p] = "planning"]
          /\ recovering' = [recovering EXCEPT ![p] = TRUE]
          /\ UNCHANGED <<branch, attempts, prompt, plan, asked>>
     ELSE Over(p)
  /\ UNCHANGED fileVars

Record(p, n) == Interaction(prompt[p], branch[p], n)

\* As Store, the record written once more after a torn line.
StoreTwice(p) ==
  /\ pc[p] = "answered"
  /\ Goto(p, "planning")
  /\ \E n \in Sizes : file' = WithLine(Record(p, n)) \o <<Record(p, n)>>
  /\ tail' = "clean"
  /\ acked' = acked \cup {prompt[p]}
  /\ UNCHANGED tears

\* _persist_interaction: the listeners are told, then the record is stored.
Store(p) ==
  /\ pc[p] = "answered"
  /\ Goto(p, "planning")
  /\ \E n \in Sizes : AppendJson(Record(p, n))
  /\ acked' = acked \cup {prompt[p]}

-----------------------------------------------------------------------------
(***************************************************************************)
(* _compact_with_extensions.  The file is read for the plan and once more  *)
(* for the summary; hooks run in between.  Without a compaction the cycle  *)
(* is over, for the recovery too: the overflow is reported to the user.    *)
(***************************************************************************)
Planned(records) ==
  LET first == Cut(file, records) IN
  [planned |-> file[first].id, kept |-> file[first].id,
   covers |-> Ids(file, Before(records, first))]

\* As PlanCompaction, the recovery retrying without a compaction.
PlanOrRetry(p) ==
  /\ pc[p] = "planning"
  /\ IF Compactable(file, Loaded(p)) THEN GotoWith(p, "hook", Planned(Loaded(p)))
     ELSE IF recovering[p] THEN Goto(p, "responding")
     ELSE Over(p)
  /\ UNCHANGED fileVars

PlanCompaction(p) ==
  /\ pc[p] = "planning"
  /\ IF Compactable(file, Loaded(p)) THEN GotoWith(p, "hook", Planned(Loaded(p)))
     ELSE Over(p)
  /\ UNCHANGED fileVars

\* run_session_before_compact: what the hooks make of the plan.  What a summary
\* of their own says is data: it counts as one of the records the plan leaves
\* out.  Where hooks override plans, no property asks what a summary covers.
RunHooks(p) ==
  /\ pc[p] = "hook"
  /\ \/ Goto(p, "summarizing")
     \/ "cancel" \in Disruptions /\ Over(p)
     \/ /\ "override" \in Disruptions
        /\ \E id \in 0..asked :
             GotoWith(p, "summarizing", [plan[p] EXCEPT !.kept = id])
  /\ UNCHANGED fileVars

\* The planned summary, or a generated one of what the file holds by now.
Summarize(p) ==
  /\ pc[p] = "summarizing"
  /\ \/ Goto(p, "appending")
     \/ \E first \in Loaded(p) :
          /\ first # Min(Loaded(p))
          /\ file[first].id = plan[p].planned
          /\ GotoWith(p, "appending",
               [plan[p] EXCEPT !.covers = Ids(file, Before(Loaded(p), first))])
  /\ UNCHANGED fileVars

Boundary(p) == Compaction(branch[p], plan[p].kept, plan[p].covers)

AppendCompaction(p) ==
  /\ pc[p] = "appending"
  /\ GotoWith(p, "compacted", NoPlan)
  /\ AppendJson(Boundary(p))
  /\ UNCHANGED acked

\* session_compacted is announced; the recovery asks the responder again.
Compacted(p) ==
  /\ pc[p] = "compacted"
  /\ IF recovering[p]
     THEN /\ pc' = [pc EXCEPT ![p] = "responding"]
          /\ attempts' = [attempts EXCEPT ![p] = attempts[p] + 1]
          /\ UNCHANGED <<branch, recovering, prompt, plan, asked>>
     ELSE Over(p)
  /\ UNCHANGED fileVars

-----------------------------------------------------------------------------
\* A process that is gone leaves its file; the next one starts from there.
Die(p) ==
  /\ "die" \in Disruptions
  /\ pc[p] # "idle"
  /\ Over(p)
  /\ UNCHANGED fileVars

\* The write of a line is cut short: before its newline, or earlier.
Tear(p) ==
  /\ "tear" \in Disruptions
  /\ pc[p] \in {"answered", "appending"}
  /\ Over(p)
  /\ \E line \in IF pc[p] = "appending" THEN {Boundary(p)}
                 ELSE {Record(p, n) : n \in Sizes} :
       \/ file' = WithLine(line)
          /\ tail' = IF tail = "clean" THEN "whole" ELSE "part"
       \/ file' = WithLine(Garbage) /\ tail' = "part"
  /\ tears' = tears + 1
  /\ UNCHANGED acked

Work(p) ==
  \/ Respond(p) \/ Overflow(p) \/ Store(p)
  \/ PlanCompaction(p) \/ RunHooks(p) \/ Summarize(p)
  \/ AppendCompaction(p) \/ Compacted(p)

Next == \E p \in Apps : Ask(p) \/ RpcTool(p) \/ Work(p) \/ Die(p) \/ Tear(p)

SafeSpec == Init /\ [][Next]_vars

\* A process that lives goes on; the responder and the hooks return.
Spec == SafeSpec /\ \A p \in Apps : WF_vars(Work(p))

-----------------------------------------------------------------------------
StoredIds(b) == Ids(file, Interactions(file, b))
LoadedIds(b) == Ids(file, Load(file, b))
Covered(b) == UNION {file[i].covers : i \in Compactions(file, b)}
Alone(b) == \A p, q \in Apps : branch[p] = b /\ branch[q] = b => p = q

(***************************************************************************)
(* However the reads, plans and appends of apps on one branch interleave,  *)
(* a stored interaction is loaded, or a summary in the file was made from  *)
(* it.                                                                     *)
(***************************************************************************)
NothingForgotten ==
  \A b \in Branches : StoredIds(b) \subseteq LoadedIds(b) \cup Covered(b)

(***************************************************************************)
(* On a branch of its own, what an app has once compacted away does not    *)
(* come back into the context, whatever the apps of other branches append. *)
(***************************************************************************)
BoundaryKept ==
  [][ \A b \in Branches : Alone(b) =>
        (StoredIds(b) \ LoadedIds(b)) \cap LoadedIds(b)' = {} ]_vars

(***************************************************************************)
(* A compaction drops a record only if keep_recent_tokens of newer ones    *)
(* stay; the oldest record is the exception, it always goes.               *)
(***************************************************************************)
RecentKept ==
  [][ \A b \in Branches : Alone(b) =>
        LET old == Load(file, b) IN
        \A i \in old :
          i # Min(old) /\ file[i].id \notin LoadedIds(b)'
            => Tokens(file, From(old, i + 1)) >= Keep ]_vars

(***************************************************************************)
(* What is loaded on a branch changes only by what an app of that branch   *)
(* does.                                                                   *)
(***************************************************************************)
BranchIsolated ==
  [][ \A b \in Branches :
        LoadedIds(b)' # LoadedIds(b) =>
          \E p \in Apps : branch[p] = b /\ pc'[p] # pc[p] ]_vars

(***************************************************************************)
(* When an app alone on its branch compacts, the context it would load     *)
(* next fits the window less the reserve, if the settings leave room for   *)
(* one record more than is kept; a single record stays whatever its size.  *)
(* It holds of the file at the append, however many steps, deaths and      *)
(* prompts of other branches lie between the plan and it.                  *)
(***************************************************************************)
CompactionFits ==
  [][ \A b \in Branches :
        /\ Alone(b)
        /\ \A n \in Sizes : Keep + n - 1 <= Window - Reserve
        /\ Compactions(file, b)' # Compactions(file, b)
        => \/ Cardinality(Load(file, b)') < 2
           \/ Tokens(file, Load(file, b))' <= Window - Reserve ]_vars

Records == {i \in DOMAIN file : file[i].type = "interaction"}
Lost == acked \ Ids(file, Records)

(***************************************************************************)
(* A record whose append returned is in the file once, retries or not, and *)
(* a torn write costs at most one of them: the one that is appended to it. *)
(***************************************************************************)
StoredOnce ==
  /\ \A i, j \in Records : file[i].id = file[j].id => i = j
  /\ Cardinality(Lost) <= tears

(***************************************************************************)
(* A prompt is answered or refused in the end, overflows or not.           *)
(***************************************************************************)
PromptEnds == \A p \in Apps : pc[p] = "responding" ~> pc[p] = "idle"

-----------------------------------------------------------------------------
\* The prompt of p is not in the file: it has no answer yet, or a new one.
Unstored(p) == pc[p] \in {"responding", "answered"} \/ recovering[p]

CycleInv ==
  \A p \in Apps :
    /\ pc[p] # "idle" => prompt[p] \in 1..asked
    /\ pc[p] \in {"idle", "answered"} => ~recovering[p]
    /\ recovering[p] /\ pc[p] # "responding" => attempts[p] < MaxRecoveries
    /\ \A q \in Apps :
         p # q /\ pc[p] # "idle" /\ pc[q] # "idle" => prompt[p] # prompt[q]

FileInv ==
  /\ acked \cup Ids(file, Records) \subseteq 1..asked
  /\ \A p \in Apps :
       Unstored(p) => prompt[p] \notin acked \cup Ids(file, Records)
  /\ \A i, j \in Records : file[i].id = file[j].id => i = j

\* A line that may still be lost is not one of those whose append returned.
TornInv ==
  /\ tail # "clean" =>
       /\ file # <<>>
       /\ Len(file) \in Records => file[Len(file)].id \notin acked
  /\ Cardinality(Lost)
       + (IF tail = "clean" THEN 0 ELSE 1) <= tears

(***************************************************************************)
(* The inductive invariant StoredOnce follows from: a prompt has a number  *)
(* of its own, its record is new when it is stored, and each loss is paid  *)
(* for by a torn write that came before it.                                *)
(***************************************************************************)
IInv == TypeOK /\ CycleInv /\ FileInv /\ TornInv

Planning == {"hook", "summarizing", "appending"}

\* A record p keeps first: it is stored, and all before it is in a summary;
\* if p is alone on its branch, it is still loaded.
KeptFrom(p, i) ==
  /\ file[i].id = plan[p].kept /\ plan[p].planned = plan[p].kept
  /\ Ids(file, Before(Interactions(file, branch[p]), i))
       \subseteq plan[p].covers \cup Covered(branch[p])
  /\ Alone(branch[p]) => i \in Loaded(p)

(***************************************************************************)
(* Without torn writes and overrides, the inductive invariant from which   *)
(* NothingForgotten and BoundaryKept follow, together with IInv: what a    *)
(* plan leaves out is summarized by it or was before it, also when others  *)
(* have appended since.                                                    *)
(***************************************************************************)
PlanInv ==
  /\ tail = "clean"
  /\ \A b \in Branches : \A i \in Compactions(file, b) : file[i].kept \in StoredIds(b)
  /\ \A p \in Apps : pc[p] \in Planning =>
       \E i \in Interactions(file, branch[p]) : KeptFrom(p, i)
  /\ NothingForgotten

(***************************************************************************)
(* What RecentKept and CompactionFits need in addition: the plan of an app *)
(* that is alone on its branch cuts what is loaded where a new plan would. *)
(***************************************************************************)
CutInv ==
  \A p \in Apps : pc[p] \in Planning /\ Alone(branch[p]) =>
    /\ Cardinality(Loaded(p)) >= 2
    /\ file[Cut(file, Loaded(p))].id = plan[p].kept
=============================================================================
