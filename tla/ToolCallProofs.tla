--------------------------- MODULE ToolCallProofs ---------------------------
(***************************************************************************)
(* Theorems about ToolCall, for any number of updates and listeners and    *)
(* every set of disruptions: the invariant is inductive, a reported value  *)
(* is true, and updates come before the end.                               *)
(***************************************************************************)
EXTENDS ToolCall, TLAPS

\* A listener is told of an update: what changes, component by component.
Changed(i, l) ==
  /\ update' \in [Updates -> UpdateStates]
  /\ at' \in [Updates -> 0..MaxListener]
  /\ heard' \in [Listeners -> SUBSET Events]
  /\ \A j \in Updates :
       /\ update'[j] = IF j = i THEN "telling" ELSE update[j]
       /\ at'[j] = IF j = i THEN l ELSE at[j]
  /\ \A k \in Listeners, e \in Events :
       e \in heard'[k] <=> (e \in heard[k] \/ (k = l /\ e = i))

LEMMA Telling1 ==
  ASSUME TypeOK, NEW i \in Updates, NEW l \in Listeners, Tell(i, l)
  PROVE  Changed(i, l)
<1>1. i \in Events /\ l \in 0..MaxListener
  BY ToolCallAssumption DEF Updates, Events, Listeners
<1>2. /\ update' \in [Updates -> UpdateStates]
      /\ at' \in [Updates -> 0..MaxListener]
      /\ \A j \in Updates :
           /\ update'[j] = IF j = i THEN "telling" ELSE update[j]
           /\ at'[j] = IF j = i THEN l ELSE at[j]
  BY <1>1 DEF Tell, TypeOK, UpdateStates
<1>3. heard[l] \cup {i} \in SUBSET Events
  BY <1>1 DEF TypeOK
<1>4. heard' \in [Listeners -> SUBSET Events]
  BY <1>3 DEF Tell, Hear, TypeOK
<1>5. \A k \in Listeners :
        heard'[k] = IF k = l THEN heard[k] \cup {i} ELSE heard[k]
  BY DEF Tell, Hear, TypeOK
<1> QED BY <1>2, <1>4, <1>5 DEF Changed

LEMMA TypeStep ==
  ASSUME TypeOK, [Next]_vars
  PROVE  TypeOK'
<1> USE ToolCallAssumption DEF Updates, Listeners, Start, End, Final, Over
<1>1. CASE Announce
  BY <1>1 DEF Announce, BeginTelling, Hear, TypeOK, Points, Verdicts, UpdateStates, Events
<1>2. CASE TellNext
  BY <1>2 DEF TellNext, Telling, Event, Hear, TypeOK, Points, Verdicts, UpdateStates, Events
<1>3. CASE Prepare
  BY <1>3 DEF Prepare, Telling, Told, TypeOK, Points, Verdicts, UpdateStates, Events
<1>4. CASE Refuse
  BY <1>4 DEF Refuse, BeginTelling, Hear, TypeOK, Points, Verdicts, UpdateStates, Events
<1>5. CASE Execute
  BY <1>5 DEF Execute, TypeOK, Points, Verdicts, UpdateStates, Events
<1>6. CASE ToolReturns
  BY <1>6 DEF ToolReturns, Made, TypeOK, Points, Verdicts, UpdateStates, Events
<1>7. CASE ToolRaises
  BY <1>7 DEF ToolRaises, TypeOK, Points, Verdicts, UpdateStates, Events
<1>8. CASE Gathered
  BY <1>8 DEF Gathered, TypeOK, Points, Verdicts, UpdateStates, Events
<1>9. CASE GatherRaises
  BY <1>9 DEF GatherRaises, TypeOK, Points, Verdicts, UpdateStates, Events
<1>10. CASE Finalize
  BY <1>10 DEF Finalize, BeginTelling, Hear, TypeOK, Points, Verdicts, UpdateStates, Events
<1>11. CASE Finish
  BY <1>11 DEF Finish, Told, Telling, TypeOK, Points, Verdicts, UpdateStates, Events
<1>12. CASE TellRaises
  BY <1>12 DEF TellRaises, Telling, TypeOK, Points, Verdicts, UpdateStates, Events
<1>13. CASE Report
  BY <1>13 DEF Report, MakeUpdate, Unmade, Made, TypeOK, Points, Verdicts, UpdateStates, Events
<1>14. CASE ReportLate
  BY <1>14 DEF ReportLate, MakeUpdate, Unmade, Made, TypeOK, Points, Verdicts, UpdateStates, Events
<1>15. ASSUME NEW i \in Updates, UpdateStarts(i) PROVE TypeOK'
  <2>1. CASE run = "none"
    BY <1>15, <2>1 DEF UpdateStarts, Begin, TypeOK, Points, Verdicts, UpdateStates, Events
  <2>2. CASE run # "none"
    <3>1. Tell(i, 1) /\ 1 \in Listeners
      BY <1>15, <2>2 DEF UpdateStarts, Begin
    <3>2. Changed(i, 1)
      BY <3>1, Telling1 DEF IInv
    <3> QED BY <1>15, <2>2, <3>1, <3>2 DEF Changed, UpdateStarts, Begin, TypeOK, Points, Verdicts, UpdateStates, Events
  <2> QED BY <2>1, <2>2
<1>16. ASSUME NEW i \in Updates, UpdateGoesOn(i) PROVE TypeOK'
  <2>1. CASE at[i] >= MaxListener
    BY <1>16, <2>1 DEF UpdateGoesOn, TypeOK, Points, Verdicts, UpdateStates, Events
  <2>2. CASE at[i] < MaxListener
    <3>1. Tell(i, at[i] + 1) /\ at[i] + 1 \in Listeners
      BY <1>16, <2>2 DEF UpdateGoesOn, IInv, TypeOK
    <3>2. Changed(i, at[i] + 1)
      BY <3>1, Telling1 DEF IInv
    <3> QED BY <1>16, <2>2, <3>1, <3>2 DEF Changed, UpdateGoesOn, TypeOK, Points, Verdicts, UpdateStates, Events
  <2> QED BY <1>16, <2>1, <2>2 DEF IInv, TypeOK
<1>17. ASSUME NEW i \in Updates, UpdateRaises(i) PROVE TypeOK'
  BY <1>17 DEF UpdateRaises, TypeOK, Points, Verdicts, UpdateStates, Events
<1>18. CASE RunEnds
  BY <1>18 DEF RunEnds, InTask, TypeOK, Points, Verdicts, UpdateStates, Events
<1>19. CASE NextRun
  BY <1>19 DEF NextRun, TypeOK, Points, Verdicts, UpdateStates, Events
<1>20. CASE Cancel
  BY <1>20 DEF Cancel, InTask, TypeOK, Points, Verdicts, UpdateStates, Events
<1>21. CASE UNCHANGED vars
  BY <1>21 DEF vars, TypeOK, Points, Verdicts, UpdateStates, Events
<1> QED BY <1>1, <1>2, <1>3, <1>4, <1>5, <1>6, <1>7, <1>8, <1>9, <1>10, <1>11, <1>12, <1>13, <1>14, <1>15, <1>16, <1>17, <1>18, <1>19, <1>20, <1>21 DEF Next, CallStep, UpdateStep

LEMMA HeardStep ==
  ASSUME IInv, [Next]_vars
  PROVE  HeardInv'
<1> USE ToolCallAssumption DEF Updates, Listeners, Start, End, Final, Over
<1>1. CASE Announce
  BY <1>1 DEF Announce, BeginTelling, Hear, IInv, CallInv, UpdateInv, HeardInv, TypeOK, Points, Verdicts, UpdateStates, Events
<1>2. CASE TellNext
  BY <1>2 DEF TellNext, Telling, Event, Hear, IInv, CallInv, UpdateInv, HeardInv, TypeOK, Points, Verdicts, UpdateStates, Events
<1>3. CASE Prepare
  BY <1>3 DEF Prepare, Telling, Told, IInv, CallInv, UpdateInv, HeardInv, TypeOK, Points, Verdicts, UpdateStates, Events
<1>4. CASE Refuse
  BY <1>4 DEF Refuse, BeginTelling, Hear, IInv, CallInv, UpdateInv, HeardInv, TypeOK, Points, Verdicts, UpdateStates, Events
<1>5. CASE Execute
  BY <1>5 DEF Execute, IInv, CallInv, UpdateInv, HeardInv, TypeOK, Points, Verdicts, UpdateStates, Events
<1>6. CASE ToolReturns
  BY <1>6 DEF ToolReturns, Made, IInv, CallInv, UpdateInv, HeardInv, TypeOK, Points, Verdicts, UpdateStates, Events
<1>7. CASE ToolRaises
  BY <1>7 DEF ToolRaises, IInv, CallInv, UpdateInv, HeardInv, TypeOK, Points, Verdicts, UpdateStates, Events
<1>8. CASE Gathered
  BY <1>8 DEF Gathered, IInv, CallInv, UpdateInv, HeardInv, TypeOK, Points, Verdicts, UpdateStates, Events
<1>9. CASE GatherRaises
  BY <1>9 DEF GatherRaises, IInv, CallInv, UpdateInv, HeardInv, TypeOK, Points, Verdicts, UpdateStates, Events
<1>10. CASE Finalize
  BY SMTT(30), <1>10 DEF Finalize, BeginTelling, Hear, IInv, CallInv, UpdateInv, HeardInv, TypeOK, Points, Verdicts, UpdateStates, Events
<1>11. CASE Finish
  BY <1>11 DEF Finish, Told, Telling, IInv, CallInv, UpdateInv, HeardInv, TypeOK, Points, Verdicts, UpdateStates, Events
<1>12. CASE TellRaises
  BY <1>12 DEF TellRaises, Telling, IInv, CallInv, UpdateInv, HeardInv, TypeOK, Points, Verdicts, UpdateStates, Events
<1>13. CASE Report
  BY <1>13 DEF Report, MakeUpdate, Unmade, Made, IInv, CallInv, UpdateInv, HeardInv, TypeOK, Points, Verdicts, UpdateStates, Events
<1>14. CASE ReportLate
  BY <1>14 DEF ReportLate, MakeUpdate, Unmade, Made, IInv, CallInv, UpdateInv, HeardInv, TypeOK, Points, Verdicts, UpdateStates, Events
<1>15. ASSUME NEW i \in Updates, UpdateStarts(i) PROVE HeardInv'
  <2>1. CASE run = "none"
    BY <1>15, <2>1 DEF UpdateStarts, Begin, IInv, CallInv, UpdateInv, HeardInv, TypeOK, Points, Verdicts, UpdateStates, Events
  <2>2. CASE run # "none"
    <3>1. Tell(i, 1) /\ 1 \in Listeners
      BY <1>15, <2>2 DEF UpdateStarts, Begin
    <3>2. Changed(i, 1)
      BY <3>1, Telling1 DEF IInv
    <3> QED BY SMTT(30), <1>15, <2>2, <3>1, <3>2 DEF Changed, UpdateStarts, Begin, IInv, CallInv, UpdateInv, HeardInv, TypeOK, Points, Verdicts, UpdateStates, Events
  <2> QED BY <2>1, <2>2
<1>16. ASSUME NEW i \in Updates, UpdateGoesOn(i) PROVE HeardInv'
  <2>1. CASE at[i] >= MaxListener
    BY <1>16, <2>1 DEF UpdateGoesOn, IInv, CallInv, UpdateInv, HeardInv, TypeOK, Points, Verdicts, UpdateStates, Events
  <2>2. CASE at[i] < MaxListener
    <3>1. Tell(i, at[i] + 1) /\ at[i] + 1 \in Listeners
      BY <1>16, <2>2 DEF UpdateGoesOn, IInv, TypeOK
    <3>2. Changed(i, at[i] + 1)
      BY <3>1, Telling1 DEF IInv
    <3> QED BY SMTT(30), <1>16, <2>2, <3>1, <3>2 DEF Changed, UpdateGoesOn, IInv, CallInv, UpdateInv, HeardInv, TypeOK, Points, Verdicts, UpdateStates, Events
  <2> QED BY <1>16, <2>1, <2>2 DEF IInv, TypeOK
<1>17. ASSUME NEW i \in Updates, UpdateRaises(i) PROVE HeardInv'
  BY <1>17 DEF UpdateRaises, IInv, CallInv, UpdateInv, HeardInv, TypeOK, Points, Verdicts, UpdateStates, Events
<1>18. CASE RunEnds
  BY <1>18 DEF RunEnds, InTask, IInv, CallInv, UpdateInv, HeardInv, TypeOK, Points, Verdicts, UpdateStates, Events
<1>19. CASE NextRun
  BY <1>19 DEF NextRun, IInv, CallInv, UpdateInv, HeardInv, TypeOK, Points, Verdicts, UpdateStates, Events
<1>20. CASE Cancel
  BY <1>20 DEF Cancel, InTask, IInv, CallInv, UpdateInv, HeardInv, TypeOK, Points, Verdicts, UpdateStates, Events
<1>21. CASE UNCHANGED vars
  BY <1>21 DEF vars, IInv, CallInv, UpdateInv, HeardInv, TypeOK, Points, Verdicts, UpdateStates, Events
<1> QED BY <1>1, <1>2, <1>3, <1>4, <1>5, <1>6, <1>7, <1>8, <1>9, <1>10, <1>11, <1>12, <1>13, <1>14, <1>15, <1>16, <1>17, <1>18, <1>19, <1>20, <1>21 DEF Next, CallStep, UpdateStep

\* What UpdateInv says of the tasks it takes two at a time, and one by one.
Pairs ==
  \A i, j \in Updates : i < j =>
    /\ update[j] # "none" => update[i] # "none"
    /\ update[j] \notin {"none", "made"} => update[i] # "made"
    /\ j \in gathered => i \in gathered

Singles ==
  \A i \in Updates :
    /\ update[i] # "none" => tool # "unused"
    /\ update[i] = "telling" => at[i] # 0
    /\ update[i] = "dropped" => run # "own"
    /\ i \in gathered => update[i] # "none"

LEMMA UpdateParts == UpdateInv <=> Pairs /\ Singles
BY DEF UpdateInv, Pairs, Singles

LEMMA UpdatePartsNext == UpdateInv' <=> Pairs' /\ Singles'
BY UpdateParts, PTL

\* The tool does not return to be unused, nor the run to be the call's own.
Onward == (tool # "unused" => tool' # "unused") /\ (run # "own" => run' # "own")

\* Most steps leave the tasks alone, and
LEMMA TasksAlone ==
  ASSUME UpdateInv, Onward, UNCHANGED <<update, at, gathered>>
  PROVE  UpdateInv'
BY DEF UpdateInv, Onward

\* a task that stays under way, or is over, disturbs no other.
LEMMA TaskGoesOn ==
  ASSUME UpdateInv, Onward, UNCHANGED gathered, NEW i \in Updates,
         update[i] = "telling"
           \/ (update[i] = "made" /\ \A j \in Updates : j < i => update[j] # "made"),
         \A j \in Updates : j # i => update'[j] = update[j] /\ at'[j] = at[j],
         update'[i] \notin {"none", "made"},
         update'[i] = "telling" => at'[i] # 0,
         update'[i] = "dropped" => run' # "own"
  PROVE  UpdateInv'
<1>1. Pairs /\ Singles
  BY UpdateParts
<1>2. update[i] # "none"
  OBVIOUS
<1>3. Pairs'
  <2> SUFFICES ASSUME NEW j \in Updates, NEW k \in Updates, j < k
               PROVE  /\ update'[k] # "none" => update'[j] # "none"
                      /\ update'[k] \notin {"none", "made"} => update'[j] # "made"
                      /\ k \in gathered => j \in gathered
    BY DEF Pairs
  <2>1. CASE j = i
    BY <1>1, <2>1 DEF Pairs
  <2>2. CASE k = i /\ j # i
    BY <1>1, <1>2, <2>2 DEF Pairs
  <2>3. CASE j # i /\ k # i
    BY <1>1, <2>3 DEF Pairs
  <2> QED BY <2>1, <2>2, <2>3
<1>4. Singles'
  <2> SUFFICES ASSUME NEW j \in Updates
               PROVE  /\ update'[j] # "none" => tool' # "unused"
                      /\ update'[j] = "telling" => at'[j] # 0
                      /\ update'[j] = "dropped" => run' # "own"
                      /\ j \in gathered => update'[j] # "none"
    BY DEF Singles
  <2> QED BY <1>1, <1>2 DEF Singles, Onward
<1> QED BY <1>3, <1>4, UpdatePartsNext

LEMMA UpdatesStep ==
  ASSUME IInv, [Next]_vars
  PROVE  UpdateInv'
<1> USE ToolCallAssumption DEF Updates, Listeners
<1>0. UpdateInv /\ TypeOK
  BY DEF IInv
<1>1. CASE Announce \/ TellNext \/ Prepare \/ Refuse \/ Execute \/ ToolRaises
           \/ Gathered \/ GatherRaises \/ Finalize \/ Finish \/ TellRaises
  BY <1>0, <1>1, TasksAlone
     DEF Announce, TellNext, Prepare, Refuse, Execute, ToolRaises, Gathered,
         GatherRaises, Finalize, Finish, TellRaises, Onward
<1>2. CASE ToolReturns
  <2>1. /\ UNCHANGED <<update, at, run>> /\ tool' # "unused"
        /\ gathered' = {i \in Updates : update[i] # "none"}
    BY <1>2 DEF ToolReturns, Made
  <2>2. Pairs' /\ Singles'
    BY <1>0, <2>1, UpdateParts DEF Pairs, Singles
  <2> QED BY <2>2, UpdatePartsNext
<1>3. CASE Report \/ ReportLate
  <2>1. PICK i \in Updates :
          /\ update[i] = "none" /\ \A j \in Updates : update[j] = "none" => i <= j
          /\ update' = [update EXCEPT ![i] = "made"]
    BY <1>3 DEF Report, ReportLate, MakeUpdate, Unmade, Made
  <2>2. UNCHANGED <<tool, at, gathered, run>> /\ tool # "unused"
    BY <1>3 DEF Report, ReportLate, MakeUpdate
  <2>3. \A j \in Updates : update'[j] = IF j = i THEN "made" ELSE update[j]
    BY <1>0, <2>1 DEF TypeOK
  <2>4. Pairs /\ Singles
    BY <1>0, UpdateParts
  <2>5. Pairs'
    BY <2>1, <2>2, <2>3, <2>4 DEF Pairs
  <2>6. Singles'
    BY <2>1, <2>2, <2>3, <2>4 DEF Singles
  <2> QED BY <2>5, <2>6, UpdatePartsNext
<1>4. ASSUME NEW i \in Updates, UpdateStarts(i) PROVE UpdateInv'
  <2>1. /\ update[i] = "made" /\ \A j \in Updates : j < i => update[j] # "made"
        /\ UNCHANGED gathered /\ Onward
    BY <1>4 DEF UpdateStarts, Begin, Onward
  <2>2. CASE run = "none"
    <3>1. /\ run' # "own" /\ UNCHANGED at
          /\ \A j \in Updates : update'[j] = IF j = i THEN "dropped" ELSE update[j]
      BY <1>0, <1>4, <2>2 DEF UpdateStarts, Begin, TypeOK
    <3> QED BY <1>0, <2>1, <3>1, TaskGoesOn
  <2>3. CASE run # "none"
    <3>1. Tell(i, 1) /\ 1 \in Listeners
      BY <1>4, <2>3 DEF UpdateStarts, Begin
    <3>2. Changed(i, 1)
      BY <1>0, <3>1, Telling1
    <3> QED BY <1>0, <2>1, <3>2, TaskGoesOn DEF Changed
  <2> QED BY <2>2, <2>3
<1>5. ASSUME NEW i \in Updates, UpdateGoesOn(i) PROVE UpdateInv'
  <2>1. update[i] = "telling" /\ UNCHANGED gathered /\ Onward
    BY <1>5 DEF UpdateGoesOn, Onward
  <2>2. CASE at[i] >= MaxListener
    <3>1. UNCHANGED at
          /\ \A j \in Updates : update'[j] = IF j = i THEN "told" ELSE update[j]
      BY <1>0, <1>5, <2>2 DEF UpdateGoesOn, TypeOK
    <3> QED BY <1>0, <2>1, <3>1, TaskGoesOn
  <2>3. CASE at[i] < MaxListener
    <3>1. Tell(i, at[i] + 1) /\ at[i] + 1 \in Listeners
      BY <1>0, <1>5, <2>3 DEF UpdateGoesOn, TypeOK
    <3>2. Changed(i, at[i] + 1) /\ at[i] + 1 # 0
      BY <1>0, <3>1, Telling1
    <3> QED BY <1>0, <2>1, <3>2, TaskGoesOn DEF Changed
  <2> QED BY <1>0, <2>2, <2>3 DEF TypeOK
<1>6. ASSUME NEW i \in Updates, UpdateRaises(i) PROVE UpdateInv'
  <2>1. /\ update[i] = "telling" /\ UNCHANGED <<gathered, at>> /\ Onward
        /\ \A j \in Updates : update'[j] = IF j = i THEN "raised" ELSE update[j]
    BY <1>0, <1>6 DEF UpdateRaises, Onward, TypeOK
  <2> QED BY <1>0, <2>1, TaskGoesOn
<1>7. CASE RunEnds \/ NextRun
  BY <1>0, <1>7, TasksAlone DEF RunEnds, NextRun, Onward
<1>8. CASE Cancel
  <2>1. CASE InTask
    BY <1>0, <1>8, <2>1, TasksAlone DEF Cancel, Onward
  <2>2. CASE ~InTask
    <3>1. /\ UNCHANGED <<tool, at, gathered>> /\ run' # "own"
          /\ \A j \in Updates :
               update'[j] = update[j]
                 \/ (update[j] \notin {"none", "made"} /\ update'[j] = "stopped")
                 \/ (j \in gathered /\ pc = "gathering" /\ update'[j] = "stopped")
          /\ \A j \in gathered : pc = "gathering" => update'[j] # "made"
      BY <1>0, <1>8, <2>2 DEF Cancel, TypeOK, Over
    <3>2. Pairs /\ Singles
      BY <1>0, UpdateParts
    <3>3. Pairs'
      BY <3>1, <3>2 DEF Pairs, Singles
    <3>4. Singles'
      BY <3>1, <3>2 DEF Singles
    <3> QED BY <3>3, <3>4, UpdatePartsNext
  <2> QED BY <2>1, <2>2
<1>9. CASE UNCHANGED vars
  BY <1>0, <1>9, TasksAlone DEF vars, Onward
<1> QED BY <1>1, <1>2, <1>3, <1>4, <1>5, <1>6, <1>7, <1>8, <1>9
     DEF Next, CallStep, UpdateStep

LEMMA CallsStep ==
  ASSUME IInv, [Next]_vars
  PROVE  CallInv'
<1> USE ToolCallAssumption DEF Updates, Listeners, Start, End, Final, Over
<1>1. CASE Announce
  BY <1>1 DEF Announce, BeginTelling, Hear, IInv, CallInv, Settled, HeardInv, UpdateInv, TypeOK, Points, Verdicts, UpdateStates, Events
<1>2. CASE TellNext
  BY <1>2 DEF TellNext, Telling, Event, Hear, IInv, CallInv, Settled, HeardInv, UpdateInv, TypeOK, Points, Verdicts, UpdateStates, Events
<1>3. CASE Prepare
  BY <1>3 DEF Prepare, Telling, Told, IInv, CallInv, Settled, HeardInv, UpdateInv, TypeOK, Points, Verdicts, UpdateStates, Events
<1>4. CASE Refuse
  BY <1>4 DEF Refuse, BeginTelling, Hear, IInv, CallInv, Settled, HeardInv, UpdateInv, TypeOK, Points, Verdicts, UpdateStates, Events
<1>5. CASE Execute
  BY <1>5 DEF Execute, IInv, CallInv, Settled, HeardInv, UpdateInv, TypeOK, Points, Verdicts, UpdateStates, Events
<1>6. CASE ToolReturns
  <2>1. CASE Made = {}
    <3>1. /\ pc' = "finalizing" /\ tool' = "returned" /\ gathered' = {}
          /\ UNCHANGED <<parallel, run, update>> /\ pc = "executing"
      BY <1>6, <2>1 DEF ToolReturns
    <3> QED BY <3>1 DEF IInv, CallInv, Settled
  <2>2. CASE Made # {}
    BY <1>6, <2>2 DEF ToolReturns, IInv, CallInv, Settled
  <2> QED BY <2>1, <2>2
<1>7. CASE ToolRaises
  BY <1>7 DEF ToolRaises, IInv, CallInv, Settled, HeardInv, UpdateInv, TypeOK, Points, Verdicts, UpdateStates, Events
<1>8. CASE Gathered
  <2>1. \A i \in gathered : update[i] \in {"told", "dropped"}
    BY <1>8 DEF Gathered, IInv, CallInv, TypeOK
  <2> QED BY <1>8, <2>1 DEF Gathered, IInv, CallInv, Settled, HeardInv, UpdateInv, TypeOK, Points, Verdicts, UpdateStates, Events
<1>9. CASE GatherRaises
  BY <1>9 DEF GatherRaises, IInv, CallInv, Settled, HeardInv, UpdateInv, TypeOK, Points, Verdicts, UpdateStates, Events
<1>10. CASE Finalize
  BY <1>10 DEF Finalize, BeginTelling, Hear, IInv, CallInv, Settled, HeardInv, UpdateInv, TypeOK, Points, Verdicts, UpdateStates, Events
<1>11. CASE Finish
  BY <1>11 DEF Finish, Told, Telling, IInv, CallInv, Settled, HeardInv, UpdateInv, TypeOK, Points, Verdicts, UpdateStates, Events
<1>12. CASE TellRaises
  BY <1>12 DEF TellRaises, Telling, IInv, CallInv, Settled, HeardInv, UpdateInv, TypeOK, Points, Verdicts, UpdateStates, Events
<1>13. CASE Report
  BY <1>13 DEF Report, MakeUpdate, Unmade, Made, IInv, CallInv, Settled, HeardInv, UpdateInv, TypeOK, Points, Verdicts, UpdateStates, Events
<1>14. CASE ReportLate
  BY <1>14 DEF ReportLate, MakeUpdate, Unmade, Made, IInv, CallInv, Settled, HeardInv, UpdateInv, TypeOK, Points, Verdicts, UpdateStates, Events
<1>15. ASSUME NEW i \in Updates, UpdateStarts(i) PROVE CallInv'
  <2>1. CASE run = "none"
    BY SMTT(30), <1>15, <2>1 DEF UpdateStarts, Begin, IInv, CallInv, Settled, HeardInv, UpdateInv, TypeOK, Points, Verdicts, UpdateStates, Events
  <2>2. CASE run # "none"
    <3>1. Tell(i, 1) /\ 1 \in Listeners
      BY <1>15, <2>2 DEF UpdateStarts, Begin
    <3>2. Changed(i, 1)
      BY <3>1, Telling1 DEF IInv
    <3> QED BY SMTT(30), <1>15, <2>2, <3>1, <3>2 DEF Changed, UpdateStarts, Begin, IInv, CallInv, Settled, HeardInv, UpdateInv, TypeOK, Points, Verdicts, UpdateStates, Events
  <2> QED BY <2>1, <2>2
<1>16. ASSUME NEW i \in Updates, UpdateGoesOn(i) PROVE CallInv'
  <2>1. CASE at[i] >= MaxListener
    BY SMTT(30), <1>16, <2>1 DEF UpdateGoesOn, IInv, CallInv, Settled, HeardInv, UpdateInv, TypeOK, Points, Verdicts, UpdateStates, Events
  <2>2. CASE at[i] < MaxListener
    <3>1. Tell(i, at[i] + 1) /\ at[i] + 1 \in Listeners
      BY <1>16, <2>2 DEF UpdateGoesOn, IInv, TypeOK
    <3>2. Changed(i, at[i] + 1)
      BY <3>1, Telling1 DEF IInv
    <3> QED BY <1>16, <2>2, <3>1, <3>2 DEF Changed, UpdateGoesOn, IInv, CallInv, Settled, HeardInv, UpdateInv, TypeOK, Points, Verdicts, UpdateStates, Events
  <2> QED BY <1>16, <2>1, <2>2 DEF IInv, TypeOK
<1>17. ASSUME NEW i \in Updates, UpdateRaises(i) PROVE CallInv'
  BY <1>17 DEF UpdateRaises, IInv, CallInv, Settled, HeardInv, UpdateInv, TypeOK, Points, Verdicts, UpdateStates, Events
<1>18. CASE RunEnds
  BY <1>18 DEF RunEnds, InTask, IInv, CallInv, Settled, HeardInv, UpdateInv, TypeOK, Points, Verdicts, UpdateStates, Events
<1>19. CASE NextRun
  BY <1>19 DEF NextRun, IInv, CallInv, Settled, HeardInv, UpdateInv, TypeOK, Points, Verdicts, UpdateStates, Events
<1>20. CASE Cancel
  BY <1>20 DEF Cancel, InTask, IInv, CallInv, Settled, HeardInv, UpdateInv, TypeOK, Points, Verdicts, UpdateStates, Events
<1>21. CASE UNCHANGED vars
  BY <1>21 DEF vars, IInv, CallInv, Settled, HeardInv, UpdateInv, TypeOK, Points, Verdicts, UpdateStates, Events
<1> QED BY <1>1, <1>2, <1>3, <1>4, <1>5, <1>6, <1>7, <1>8, <1>9, <1>10, <1>11, <1>12, <1>13, <1>14, <1>15, <1>16, <1>17, <1>18, <1>19, <1>20, <1>21 DEF Next, CallStep, UpdateStep

LEMMA InitInv == Init => IInv
BY ToolCallAssumption DEF Init, IInv, TypeOK, HeardInv, UpdateInv, CallInv, Settled,
   Points, Verdicts, UpdateStates, Events, Updates, Listeners, Start, End, Final, Over

LEMMA InvStep ==
  ASSUME IInv, [Next]_vars
  PROVE  IInv'
BY TypeStep, HeardStep, UpdatesStep, CallsStep DEF IInv

(***************************************************************************)
(* The strengthened invariant holds of every reachable state.              *)
(***************************************************************************)
THEOREM Inductive == Spec => []IInv
<1>1. IInv /\ [Next]_vars => IInv'
  BY InvStep
<1> QED BY InitInv, <1>1, PTL DEF Spec

(***************************************************************************)
(* An end that reports the value of the tool is true: see HonestEnd.       *)
(***************************************************************************)
THEOREM Honest == Spec => []HonestEnd
<1>1. IInv => HonestEnd
  BY DEF IInv, TypeOK, HeardInv, UpdateInv, CallInv, HonestEnd
<1> QED BY Inductive, <1>1, PTL

(***************************************************************************)
(* Who is told of an update in a step: a listener, by the task of it.      *)
(***************************************************************************)
LEMMA NewlyHeard ==
  ASSUME IInv, [Next]_vars, NEW l \in Listeners, NEW i \in Updates,
         i \in heard'[l] \ heard[l]
  PROVE  \/ UpdateStarts(i) /\ l = 1 /\ run # "none"
         \/ UpdateGoesOn(i) /\ l = at[i] + 1
<1> USE ToolCallAssumption DEF IInv, TypeOK, Listeners, Updates
<1>1. i # Start /\ i # End /\ UNCHANGED heard => FALSE
  BY DEF Start, End
<1>2. ASSUME BeginTelling("announcing", Start) \/ BeginTelling("ending", End)
      PROVE  FALSE
  BY <1>2 DEF BeginTelling, Hear, Start, End
<1>3. ASSUME TellNext PROVE FALSE
  BY <1>3 DEF TellNext, Event, Hear, Start, End
<1>4. ASSUME NEW j \in Updates, UpdateStarts(j)
      PROVE  UpdateStarts(i) /\ l = 1 /\ run # "none"
  BY <1>4 DEF UpdateStarts, Begin, Tell, Hear
<1>5. ASSUME NEW j \in Updates, UpdateGoesOn(j)
      PROVE  UpdateGoesOn(i) /\ l = at[i] + 1
  <2>1. CASE at[j] < MaxListener
    <3>1. Hear(at[j] + 1, j) /\ at[j] + 1 \in Listeners
      BY <1>5, <2>1 DEF UpdateGoesOn, Tell
    <3>2. l = at[j] + 1 /\ i = j
      BY <3>1 DEF Hear
    <3> QED BY <1>5, <3>2
  <2>2. CASE ~(at[j] < MaxListener)
    BY <1>5, <2>2 DEF UpdateGoesOn
  <2> QED BY <2>1, <2>2
<1>6. ASSUME UNCHANGED heard PROVE FALSE
  BY <1>6
<1>7. CASE CallStep
  BY <1>2, <1>3, <1>6, <1>7
     DEF CallStep, Announce, Prepare, Refuse, Execute, ToolReturns, ToolRaises,
         Gathered, GatherRaises, Finalize, Finish
<1>8. CASE TellRaises \/ Report \/ ReportLate \/ RunEnds \/ NextRun \/ Cancel
  BY <1>6, <1>8 DEF TellRaises, Report, ReportLate, MakeUpdate, RunEnds, NextRun, Cancel
<1>9. ASSUME NEW j \in Updates, UpdateStep(j) \/ UpdateRaises(j)
      PROVE  \/ UpdateStarts(i) /\ l = 1 /\ run # "none"
             \/ UpdateGoesOn(i) /\ l = at[i] + 1
  BY <1>4, <1>5, <1>6, <1>9 DEF UpdateStep, UpdateRaises
<1>10. CASE UNCHANGED vars
  BY <1>6, <1>10 DEF vars
<1> QED BY <1>7, <1>8, <1>9, <1>10 DEF Next

(***************************************************************************)
(* Updates come before the end, and in the run of a sequential call, but   *)
(* for those the code lets loose: see UpdatesInside.                       *)
(***************************************************************************)
THEOREM Inside == Spec => UpdatesInside
<1>1. ASSUME IInv, [Next]_vars, NEW l \in Listeners, NEW i \in Updates,
             i \in heard'[l] \ heard[l]
      PROVE  /\ Start \in heard[l]
             /\ Loose(i) \/ (End \notin heard[l] /\ (parallel \/ run = "own"))
  <2>1. update[i] \in {"made", "telling"}
    BY <1>1, NewlyHeard DEF UpdateStarts, Begin, UpdateGoesOn
  <2>2. tool # "unused" /\ Start \in heard[l]
    BY <1>1, <2>1 DEF IInv, HeardInv, UpdateInv
  <2>3. ASSUME ~Loose(i)
        PROVE  End \notin heard[l] /\ (parallel \/ run = "own")
    <3>1. i \in gathered /\ ~Settled
      BY <2>1, <2>3 DEF Loose, Settled, Over
    <3>2. pc = "gathering"
      BY <1>1, <3>1 DEF IInv, TypeOK, CallInv
    <3> QED BY <1>1, <3>2 DEF IInv, HeardInv, CallInv, Final
  <2> QED BY <2>2, <2>3
<1>2. IInv /\ [Next]_vars =>
        [ \A l \in Listeners, i \in Updates :
            i \in heard'[l] \ heard[l] =>
              /\ Start \in heard[l]
              /\ Loose(i) \/ (End \notin heard[l] /\ (parallel \/ run = "own")) ]_vars
  BY <1>1
<1> QED BY Inductive, <1>2, PTL DEF Spec, UpdatesInside
=============================================================================
