--------------------------- MODULE SessionProofs ---------------------------
(***************************************************************************)
(* Proofs about Session, for any processes, branches, prompts and sizes.   *)
(* IInv is inductive and gives TypeOK and StoredOnce for every set of      *)
(* disruptions.  Without torn writes and overrides PlanInv is inductive on *)
(* top of it: the file grows at its end only, so that a line once read     *)
(* stays where it was, and what a plan says of a prefix of the file stays  *)
(* true while others append; CutInv says in addition that the plan of an   *)
(* app alone on its branch is the one it would make again.                 *)
(***************************************************************************)
EXTENDS Session, FiniteSetTheorems, WellFoundedInduction, Induction, TLAPS

-----------------------------------------------------------------------------
(***************************************************************************)
(* The first and the last line of a set of lines.                          *)
(***************************************************************************)

\* A set of natural numbers has a least element.
LEMMA LeastExists ==
  ASSUME NEW S \in SUBSET Nat, S # {}
  PROVE  \E m \in S : \A k \in S : m <= k
<1> DEFINE R == {x \in Nat \X Nat : x[1] < x[2]}
<1>1. IsWellFoundedOn(R, Nat)
  BY NatLessThanWellFounded DEF OpToRel
<1>2. \A k, m \in S : <<k, m>> \notin R => m <= k
  OBVIOUS
<1> HIDE DEF R
<1>3. \E m \in S : \A k \in S : <<k, m>> \notin R
  BY <1>1, WFMin
<1> QED BY <1>2, <1>3, Zenon

\* Min of lines is the first of them.
LEMMA MinIn ==
  ASSUME NEW S \in SUBSET Nat, S # {}
  PROVE  Min(S) \in S /\ \A k \in S : Min(S) <= k
BY LeastExists DEF Min

\* Max of lines is the last of them.
LEMMA MaxIn ==
  ASSUME NEW n \in Nat, NEW S \in SUBSET (0..n), S # {}
  PROVE  Max(S) \in S /\ \A k \in S : Max(S) >= k
<1> DEFINE T == {m \in Nat : n - m \in S}
<1>1. T \in SUBSET Nat
  OBVIOUS
<1>2. \A k \in S : n - k \in T
  OBVIOUS
<1>3. T # {}
  BY <1>2
<1>4. PICK m \in T : \A k \in T : m <= k
  BY <1>1, <1>3, LeastExists
<1>5. n - m \in S /\ \A k \in S : n - m >= k
  <2>1. \A k \in S : m <= n - k
    BY <1>2, <1>4
  <2> QED BY <1>4, <2>1
<1> QED BY <1>5 DEF Max

\* The lines of the file are finitely many.
LEMMA LinesFinite ==
  ASSUME NEW n \in Nat, NEW S \in SUBSET (1..n)
  PROVE  IsFiniteSet(S) /\ S \in SUBSET Nat /\ S \in SUBSET (0..n)
<1>1. IsFiniteSet(1..n)
  BY FS_Interval
<1>2. IsFiniteSet(S)
  BY <1>1, FS_Subset
<1> QED BY <1>2

\* Where there are two records or more, the split keeps one of them first.
LEMMA CutIn ==
  ASSUME NEW n \in Nat, NEW S \in SUBSET (1..n), Cardinality(S) >= 2, NEW f
  PROVE  Cut(f, S) \in S
<1>1. Keepable(S) # {}
  <2>1. SUFFICES ASSUME S \ {Min(S)} = {} PROVE FALSE
    BY DEF Keepable
  <2>2. S = {} \/ S = {Min(S)}
    BY <2>1
  <2>3. Cardinality(S) \in {0, 1}
    BY <2>2, FS_EmptySet, FS_Singleton
  <2> QED BY <2>3
<1>2. Keepable(S) \in SUBSET Nat /\ Keepable(S) \subseteq S
  BY LinesFinite DEF Keepable
<1>3. Min(Keepable(S)) \in S
  BY <1>1, <1>2, MinIn
<1>4. Enough(f, S) \subseteq S /\ Enough(f, S) \in SUBSET (0..n)
  BY <1>2 DEF Enough
<1>5. Enough(f, S) # {} => Max(Enough(f, S)) \in S
  BY <1>4, MaxIn
<1> QED BY <1>3, <1>5 DEF Cut

-----------------------------------------------------------------------------
(***************************************************************************)
(* What the file is made of.                                               *)
(***************************************************************************)

\* A line that is an interaction has the fields of one; and a compaction.
LEMMA LineFields ==
  ASSUME NEW l \in Line
  PROVE  /\ l.type = "interaction" => l.id \in PromptId /\ l.branch \in Branches
                                      /\ l.size \in Nat
         /\ l.type = "compaction" => /\ l.branch \in Branches
                                     /\ l.kept \in 0..MaxAsked
                                     /\ l.covers \subseteq PromptId
<1>1. l.type = "interaction" => l.size \in Sizes
  BY DEF Line, Garbage
<1>2. l.type = "interaction" => l.size \in Nat
  BY <1>1, SessionAssumption
<1> QED BY <1>2 DEF Line, Garbage

\* What is loaded are interactions of the branch.
LEMMA LoadedLines ==
  ASSUME NEW f, NEW b
  PROVE  Load(f, b) \subseteq Interactions(f, b)
BY DEF Load, From

\* Interactions of a branch are lines with prompts.
LEMMA RecordIds ==
  ASSUME NEW f \in Seq(Line), NEW b
  PROVE  /\ Interactions(f, b) \in SUBSET (1..Len(f))
         /\ Load(f, b) \in SUBSET (1..Len(f))
         /\ \A S \in SUBSET Interactions(f, b) : Ids(f, S) \subseteq PromptId
<1>1. Interactions(f, b) \in SUBSET (1..Len(f))
  BY DEF Interactions
<1>2. \A i \in Interactions(f, b) : f[i].id \in PromptId
  BY LineFields DEF Interactions
<1> QED BY <1>1, <1>2, LoadedLines DEF Ids

\* The lines that are written are lines.
LEMMA WrittenLines ==
  ASSUME TypeOK, NEW p \in Apps
  PROVE  /\ Garbage \in Line
         /\ Boundary(p) \in Line
         /\ \A n \in Sizes : prompt[p] # 0 => Record(p, n) \in Line
<1>1. plan[p] \in Plan /\ branch[p] \in Branches /\ prompt[p] \in 0..MaxAsked
  BY DEF TypeOK
<1>2. plan[p].kept \in 0..MaxAsked /\ plan[p].covers \in SUBSET PromptId
  BY <1>1 DEF Plan
<1>3. Garbage \in Line
  BY DEF Line
<1>4. Boundary(p) \in Line
  BY <1>1, <1>2 DEF Line, Boundary, Compaction
<1>5. ASSUME NEW n \in Sizes, prompt[p] # 0 PROVE Record(p, n) \in Line
  <2>1. prompt[p] \in PromptId
    BY <1>1, <1>5, SessionAssumption DEF PromptId
  <2> QED BY <1>1, <2>1 DEF Line, Record, Interaction
<1> QED BY <1>3, <1>4, <1>5

\* A line is appended, or merged with the last one.
LEMMA WithLineType ==
  ASSUME file \in Seq(Line), NEW l \in Line
  PROVE  WithLine(l) \in Seq(Line)
<1>1. Garbage \in Line
  BY DEF Line
<1>2. [file EXCEPT ![Len(file)] = Garbage] \in Seq(Line)
  <2>1. Len(file) \in Nat /\ file \in [1..Len(file) -> Line]
    OBVIOUS
  <2>2. [file EXCEPT ![Len(file)] = Garbage] \in [1..Len(file) -> Line]
    BY <1>1, <2>1
  <2> QED BY <2>1, <2>2
<1> QED BY <1>2 DEF WithLine

-----------------------------------------------------------------------------
(***************************************************************************)
(* Types, and the cycle of a prompt.                                       *)
(***************************************************************************)

\* A plan, or a summary, of records of the file is well typed.
LEMMA PlanTypes ==
  ASSUME TypeOK, NEW p \in Apps
  PROVE  /\ NoPlan \in Plan
         /\ Compactable(file, Loaded(p)) => Planned(Loaded(p)) \in Plan
         /\ \A i : Ids(file, Before(Loaded(p), i)) \subseteq PromptId
<1>1. file \in Seq(Line)
  BY DEF TypeOK
<1>2. /\ Loaded(p) \in SUBSET (1..Len(file))
      /\ Loaded(p) \subseteq Interactions(file, branch[p])
  BY <1>1, RecordIds, LoadedLines DEF Loaded
<1>3. \A i : Before(Loaded(p), i) \in SUBSET Interactions(file, branch[p])
  BY <1>2 DEF Before
<1>4. \A i : Ids(file, Before(Loaded(p), i)) \subseteq PromptId
  BY <1>1, <1>3, RecordIds
<1>5. ASSUME Compactable(file, Loaded(p))
      PROVE  Planned(Loaded(p)) \in Plan
  <2>1. Len(file) \in Nat /\ Cardinality(Loaded(p)) >= 2
    BY <1>1, <1>5 DEF Compactable
  <2>2. Cut(file, Loaded(p)) \in Loaded(p)
    BY <1>2, <2>1, CutIn
  <2>3. file[Cut(file, Loaded(p))].id \in PromptId
    BY <1>1, <1>2, <2>2, LineFields DEF Interactions
  <2> QED BY <1>4, <2>3, SessionAssumption DEF Planned, Plan, PromptId
<1>6. NoPlan \in Plan
  BY SessionAssumption DEF NoPlan, Plan
<1> QED BY <1>4, <1>5, <1>6

\* What ends a cycle keeps the types and the invariant of cycles.
LEMMA OverCycle ==
  ASSUME TypeOK, CycleInv, NEW p \in Apps, Over(p), UNCHANGED fileVars
  PROVE  TypeOK' /\ CycleInv'
<1>1. NoPlan \in Plan
  BY PlanTypes
<1>2. TypeOK'
  BY <1>1, SessionAssumption DEF TypeOK, Over, fileVars, Points, MaxRecoveries
<1>3. CycleInv'
  BY DEF TypeOK, CycleInv, Over, fileVars, MaxRecoveries
<1> QED BY <1>2, <1>3

\* The steps that leave the file alone keep them.
LEMMA LocalCycle ==
  ASSUME TypeOK, CycleInv, NEW p \in Apps,
         \/ Ask(p) \/ RpcTool(p) \/ Respond(p) \/ Overflow(p)
         \/ PlanCompaction(p) \/ RunHooks(p) \/ Summarize(p)
         \/ Compacted(p) \/ Die(p)
  PROVE  TypeOK' /\ CycleInv'
<1>1. ASSUME NEW point \in {"responding", "answered"}, Request(p, point)
      PROVE  TypeOK' /\ CycleInv'
  <2>1. /\ pc[p] = "idle" /\ ~recovering[p]
        /\ asked \in Nat /\ asked + 1 \in 1..MaxAsked
    BY <1>1, SessionAssumption DEF Request, TypeOK, CycleInv
  <2>2. TypeOK'
    <3>1. /\ pc' \in [Apps -> Points] /\ prompt' \in [Apps -> 0..MaxAsked]
          /\ asked' \in 0..MaxAsked
      BY <1>1, <2>1 DEF Request, TypeOK, Points
    <3> QED BY <1>1, <3>1 DEF Request, TypeOK, fileVars
  <2>3. ASSUME NEW q \in Apps, pc[q] # "idle"
        PROVE  prompt[q] \in 1..asked /\ prompt[q] # asked + 1
    BY <2>1, <2>3 DEF CycleInv
  <2>4. /\ pc' = [pc EXCEPT ![p] = point] /\ prompt' = [prompt EXCEPT ![p] = asked + 1]
        /\ asked' = asked + 1 /\ UNCHANGED <<recovering, attempts>>
        /\ pc \in [Apps -> Points] /\ prompt \in [Apps -> 0..MaxAsked]
    BY <1>1 DEF Request, TypeOK
  <2>5. CycleInv'
    BY <2>1, <2>3, <2>4 DEF CycleInv
  <2> QED BY <2>2, <2>5
<1>2. CASE Respond(p)
  <2>1. TypeOK'
    BY <1>2 DEF Respond, TypeOK, fileVars, Points
  <2>2. CycleInv'
    BY <1>2 DEF Respond, TypeOK, CycleInv, fileVars, MaxRecoveries
  <2> QED BY <2>1, <2>2
<1>3. CASE Overflow(p)
  <2>1. CASE attempts[p] < MaxRecoveries
    <3>1. TypeOK'
      BY <1>3, <2>1 DEF Overflow, TypeOK, fileVars, Points
    <3>2. CycleInv'
      BY <1>3, <2>1 DEF Overflow, TypeOK, CycleInv, fileVars, MaxRecoveries
    <3> QED BY <3>1, <3>2
  <2>2. CASE ~(attempts[p] < MaxRecoveries)
    BY <1>3, <2>2, OverCycle DEF Overflow
  <2> QED BY <2>1, <2>2
<1>4. ASSUME NEW point \in Points \ {"idle", "answered", "responding"},
             NEW new \in Plan, GotoWith(p, point, new), UNCHANGED fileVars,
             pc[p] # "idle", pc[p] # "responding"
      PROVE  TypeOK' /\ CycleInv'
  <2>1. TypeOK'
    BY <1>4 DEF GotoWith, TypeOK, fileVars
  <2>2. CycleInv'
    BY <1>4 DEF GotoWith, TypeOK, CycleInv, fileVars
  <2> QED BY <2>1, <2>2
<1>5. \A point : Goto(p, point) => GotoWith(p, point, plan[p])
  BY DEF Goto, GotoWith, locals, TypeOK
<1>6. CASE PlanCompaction(p)
  <2>1. CASE Compactable(file, Loaded(p))
    BY <1>4, <1>6, <2>1, PlanTypes DEF PlanCompaction, Points
  <2>2. CASE ~Compactable(file, Loaded(p))
    BY <1>6, <2>2, OverCycle DEF PlanCompaction
  <2> QED BY <2>1, <2>2
<1>7. CASE RunHooks(p)
  <2>1. CASE Over(p)
    BY <1>7, <2>1, OverCycle DEF RunHooks
  <2>2. plan[p] \in Plan /\ \A id \in 0..asked : id \in 0..MaxAsked
    BY SessionAssumption DEF TypeOK
  <2>3. \A id \in 0..asked : [plan[p] EXCEPT !.kept = id] \in Plan
    BY <2>2 DEF Plan
  <2> QED BY <1>4, <1>5, <1>7, <2>1, <2>2, <2>3 DEF RunHooks, Points
<1>8. CASE Summarize(p)
  <2>1. plan[p] \in Plan
    BY DEF TypeOK
  <2>2. \A i : [plan[p] EXCEPT !.covers = Ids(file, Before(Loaded(p), i))] \in Plan
    BY <2>1, PlanTypes DEF Plan
  <2> QED BY <1>4, <1>5, <1>8, <2>1, <2>2 DEF Summarize, Points
<1>9. CASE Compacted(p)
  <2>1. CASE recovering[p]
    <3>1. attempts[p] < MaxRecoveries
      BY <1>9, <2>1 DEF Compacted, CycleInv
    <3>2. TypeOK'
      <4>1. attempts[p] + 1 \in 0..MaxRecoveries
        BY <3>1 DEF TypeOK, MaxRecoveries
      <4> QED BY <1>9, <2>1, <4>1 DEF Compacted, TypeOK, fileVars, Points
    <3>3. CycleInv'
      BY <1>9, <2>1, <3>1 DEF Compacted, TypeOK, CycleInv, fileVars
    <3> QED BY <3>2, <3>3
  <2>2. CASE ~recovering[p]
    BY <1>9, <2>2, OverCycle DEF Compacted
  <2> QED BY <2>1, <2>2
<1>10. CASE Die(p)
  BY <1>10, OverCycle DEF Die
<1> QED BY <1>1, <1>2, <1>3, <1>6, <1>7, <1>8, <1>9, <1>10 DEF Ask, RpcTool

\* The steps that write to the file keep them.
LEMMA WriteCycle ==
  ASSUME TypeOK, CycleInv, NEW p \in Apps,
         Store(p) \/ AppendCompaction(p) \/ Tear(p)
  PROVE  TypeOK' /\ CycleInv'
<1>1. /\ file \in Seq(Line) /\ Garbage \in Line /\ Boundary(p) \in Line
      /\ \A n \in Sizes : pc[p] # "idle" => Record(p, n) \in Line
  BY WrittenLines DEF TypeOK, CycleInv
<1>2. \A l \in Line : WithLine(l) \in Seq(Line)
  BY <1>1, WithLineType
<1>3. CASE Store(p)
  <2>1. file' \in Seq(Line) /\ acked' \subseteq PromptId
    <3>1. prompt[p] \in PromptId
      BY <1>3, SessionAssumption DEF Store, TypeOK, CycleInv, PromptId
    <3> QED BY <1>1, <1>2, <1>3, <3>1 DEF Store, AppendJson, TypeOK
  <2>2. TypeOK'
    BY <1>3, <2>1 DEF Store, Goto, AppendJson, TypeOK, locals, Points
  <2>3. CycleInv'
    BY <1>3 DEF Store, Goto, TypeOK, CycleInv, locals
  <2> QED BY <2>2, <2>3
<1>4. CASE AppendCompaction(p)
  <2>1. file' \in Seq(Line) /\ NoPlan \in Plan
    BY <1>1, <1>2, <1>4, PlanTypes DEF AppendCompaction, AppendJson
  <2>2. TypeOK'
    BY <1>4, <2>1 DEF AppendCompaction, GotoWith, AppendJson, TypeOK, Points
  <2>3. CycleInv'
    BY <1>4 DEF AppendCompaction, GotoWith, TypeOK, CycleInv
  <2> QED BY <2>2, <2>3
<1>5. CASE Tear(p)
  <2>1. file' \in Seq(Line) /\ tail' \in {"clean", "whole", "part"}
    <3>1. \A n \in Sizes : Record(p, n) \in Line
      BY <1>1, <1>5 DEF Tear
    <3> QED BY <1>1, <1>2, <1>5, <3>1 DEF Tear
  <2>2. NoPlan \in Plan
    BY PlanTypes
  <2>3. TypeOK'
    BY <1>5, <2>1, <2>2, SessionAssumption
       DEF Tear, Over, TypeOK, Points, MaxRecoveries
  <2>4. CycleInv'
    BY <1>5 DEF Tear, Over, TypeOK, CycleInv, MaxRecoveries
  <2> QED BY <2>3, <2>4
<1> QED BY <1>3, <1>4, <1>5

-----------------------------------------------------------------------------
(***************************************************************************)
(* The records in the file, and those that were lost.                      *)
(***************************************************************************)

\* A line at the end of a clean file is a new one; after a torn one it is
\* not, and takes the torn one with it.
LEMMA WithLineRecords ==
  ASSUME TypeOK, TornInv, NEW l \in Line, file' = WithLine(l)
  PROVE  /\ tail = "clean" =>
              /\ Records' = Records \cup
                   (IF l.type = "interaction" THEN {Len(file) + 1} ELSE {})
              /\ file'[Len(file) + 1] = l
              /\ Len(file) + 1 \notin Records
         /\ tail # "clean" => Records' = Records \ {Len(file)}
         /\ \A i \in Records \cap Records' : file'[i] = file[i]
<1>1. file \in Seq(Line) /\ Len(file) \in Nat
  BY DEF TypeOK
<1>2. CASE tail = "clean"
  <2>1. file' = Append(file, l)
    BY <1>2 DEF WithLine
  <2>2. /\ DOMAIN file = 1..Len(file) /\ DOMAIN file' = 1..Len(file) + 1
        /\ file'[Len(file) + 1] = l
        /\ \A i \in 1..Len(file) : file'[i] = file[i]
    BY <1>1, <2>1
  <2> QED BY <1>1, <1>2, <2>2 DEF Records
<1>3. CASE tail # "clean"
  <2>1. file' = [file EXCEPT ![Len(file)] = Garbage]
    BY <1>3 DEF WithLine
  <2>2. Len(file) \in DOMAIN file
    BY <1>1, <1>3 DEF TornInv
  <2>3. /\ DOMAIN file' = DOMAIN file
        /\ file'[Len(file)].type = "garbage"
        /\ \A i \in DOMAIN file \ {Len(file)} : file'[i] = file[i]
    BY <1>1, <2>1, <2>2 DEF Garbage
  <2> QED BY <1>3, <2>3 DEF Records
<1> QED BY <1>2, <1>3

\* What that does to the ids in the file.
LEMMA WithLineIds ==
  ASSUME TypeOK, TornInv, NEW l \in Line, file' = WithLine(l)
  PROVE  /\ tail = "clean" => Ids(file, Records)' = Ids(file, Records) \cup
              (IF l.type = "interaction" THEN {l.id} ELSE {})
         /\ tail # "clean" =>
              /\ Ids(file, Records)' \subseteq Ids(file, Records)
              /\ Ids(file, Records) \cap acked \subseteq Ids(file, Records)'
<1>1. CASE tail = "clean"
  BY <1>1, WithLineRecords DEF Ids
<1>2. CASE tail # "clean"
  <2>1. /\ Records' = Records \ {Len(file)}
        /\ \A i \in Records' : file'[i] = file[i]
    BY <1>2, WithLineRecords
  <2>2. Len(file) \in Records => file[Len(file)].id \notin acked
    BY <1>2 DEF TornInv
  <2> QED BY <1>2, <2>1, <2>2 DEF Ids
<1> QED BY <1>1, <1>2

\* The steps that leave the file alone keep what is known of it.
LEMMA LocalFile ==
  ASSUME TypeOK, CycleInv, FileInv, TornInv, NEW p \in Apps,
         \/ Ask(p) \/ RpcTool(p) \/ Respond(p) \/ Overflow(p)
         \/ PlanCompaction(p) \/ RunHooks(p) \/ Summarize(p)
         \/ Compacted(p) \/ Die(p)
  PROVE  FileInv' /\ TornInv'
<1>1. UNCHANGED fileVars
  BY DEF Ask, RpcTool, Request, Respond, Overflow, PlanCompaction, RunHooks,
         Summarize, Compacted, Die
<1>2. TornInv'
  BY <1>1 DEF TornInv, fileVars, Records, Lost
<1>3. Records' = Records /\ file' = file /\ acked' = acked
  BY <1>1 DEF fileVars, Records
<1>4. SUFFICES /\ asked \in Nat /\ asked' \in Nat /\ asked' >= asked
               /\ \A q \in Apps : Unstored(q)' =>
                    prompt'[q] \notin acked \cup Ids(file, Records)
  BY <1>2, <1>3 DEF FileInv
<1>5. asked \in Nat
  BY SessionAssumption DEF TypeOK
<1>6. CASE Ask(p) \/ RpcTool(p)
  <2>1. asked' = asked + 1 /\ prompt'[p] = asked + 1
    BY <1>6 DEF Ask, RpcTool, Request, TypeOK
  <2>2. \A q \in Apps \ {p} : prompt'[q] = prompt[q] /\ Unstored(q)' = Unstored(q)
    BY <1>6 DEF Ask, RpcTool, Request, TypeOK, Unstored
  <2> QED BY <1>5, <2>1, <2>2 DEF FileInv
<1>7. CASE ~(Ask(p) \/ RpcTool(p))
  <2>1. asked' = asked
    BY <1>7 DEF Respond, Overflow, PlanCompaction, RunHooks, Summarize,
                Compacted, Die, Goto, GotoWith, Over
  <2>2. \A q \in Apps : Unstored(q)' => Unstored(q) /\ prompt'[q] = prompt[q]
    BY <1>7 DEF Respond, Overflow, PlanCompaction, RunHooks, Summarize,
                Compacted, Die, Goto, GotoWith, Over, TypeOK, Unstored, locals
  <2> QED BY <1>5, <2>1, <2>2 DEF FileInv
<1> QED BY <1>6, <1>7

\* A write keeps the records apart: what it adds to the file, or to the ids
\* whose append returned, is the prompt of p at most, which is new.
LEMMA WriteFile ==
  ASSUME TypeOK, CycleInv, FileInv, TornInv, NEW p \in Apps, pc[p] # "idle",
         NEW l \in Line, file' = WithLine(l), asked' = asked,
         l.type = "interaction" => Unstored(p) /\ l.id = prompt[p],
         acked' \subseteq acked \cup (IF Unstored(p) THEN {prompt[p]} ELSE {}),
         l.type = "interaction" \/ acked' # acked => ~Unstored(p)',
         \A q \in Apps : Unstored(q)' => Unstored(q) /\ prompt'[q] = prompt[q]
  PROVE  FileInv'
<1>1. /\ prompt[p] \in 1..asked
      /\ Unstored(p) => prompt[p] \notin acked \cup Ids(file, Records)
  BY DEF CycleInv, FileInv
<1>2. Ids(file, Records)' \subseteq Ids(file, Records) \cup
        (IF l.type = "interaction" THEN {prompt[p]} ELSE {})
  BY WithLineIds
<1>3. acked' \cup Ids(file, Records)' \subseteq 1..asked
  BY <1>1, <1>2 DEF FileInv
<1>4. ASSUME NEW q \in Apps, Unstored(q)'
      PROVE  prompt'[q] \notin acked' \cup Ids(file, Records)'
  <2>1. /\ Unstored(q) /\ prompt'[q] = prompt[q]
        /\ prompt[q] \notin acked \cup Ids(file, Records)
    BY <1>4 DEF FileInv
  <2>2. CASE q = p
    <3>1. l.type # "interaction" /\ acked' = acked
      BY <1>4, <2>2
    <3> QED BY <1>2, <2>1, <3>1
  <2>3. CASE q # p
    <3>1. pc[q] # "idle"
      BY <2>1 DEF Unstored, CycleInv
    <3>2. prompt[q] # prompt[p]
      BY <2>3, <3>1 DEF CycleInv
    <3> QED BY <1>2, <2>1, <3>2
  <2> QED BY <2>2, <2>3
<1>5. \A i, j \in Records' : file'[i].id = file'[j].id => i = j
  <2>1. \A i, j \in Records' \cap Records :
          file'[i].id = file'[j].id => i = j
    BY WithLineRecords DEF FileInv
  <2>2. CASE tail = "clean" /\ l.type = "interaction"
    <3>1. /\ Records' = Records \cup {Len(file) + 1}
          /\ file'[Len(file) + 1].id = prompt[p]
          /\ \A i \in Records : file'[i] = file[i]
      BY <2>2, WithLineRecords
    <3>2. \A i \in Records : file'[i].id # prompt[p]
      BY <1>1, <2>2, <3>1 DEF Ids
    <3> QED BY <2>1, <3>1, <3>2
  <2>3. CASE ~(tail = "clean" /\ l.type = "interaction")
    BY <2>1, <2>3, WithLineRecords
  <2> QED BY <2>2, <2>3
<1> QED BY <1>3, <1>4, <1>5 DEF FileInv

\* The records that are lost are finitely many.
LEMMA LostFinite ==
  ASSUME TypeOK
  PROVE  IsFiniteSet(Lost) /\ Cardinality(Lost) \in Nat /\ tears \in Nat
<1>1. IsFiniteSet(PromptId)
  BY FS_Interval, SessionAssumption DEF PromptId
<1>2. \A S \in SUBSET PromptId : IsFiniteSet(S)
  BY <1>1, FS_Subset
<1> QED BY <1>2, FS_CardinalityType DEF TypeOK, Lost

\* With the last line whole, no more than what is lost needs to be paid for.
LEMMA CleanTail ==
  ASSUME tail' = "clean", Cardinality(Lost') \in Nat, Cardinality(Lost') <= tears'
  PROVE  TornInv'
BY DEF TornInv

\* A record is stored once, and takes a torn line with it if there is one.
LEMMA StoreFile ==
  ASSUME TypeOK, CycleInv, FileInv, TornInv, NEW p \in Apps, Store(p)
  PROVE  FileInv' /\ TornInv'
<1>1. PICK n \in Sizes : file' = WithLine(Record(p, n)) /\ tail' = "clean"
  BY DEF Store, AppendJson
<1>2. /\ pc[p] = "answered" /\ Unstored(p) /\ ~recovering[p]
      /\ acked' = acked \cup {prompt[p]} /\ tears' = tears
      /\ asked' = asked /\ prompt' = prompt
      /\ ~Unstored(p)'
      /\ \A q \in Apps : Unstored(q)' => Unstored(q)
  BY DEF Store, AppendJson, Goto, locals, Unstored, TypeOK, CycleInv
<1>3. /\ Record(p, n) \in Line
      /\ Record(p, n).type = "interaction" /\ Record(p, n).id = prompt[p]
  BY <1>2, WrittenLines DEF CycleInv, Record, Interaction
<1>4. FileInv'
  BY <1>1, <1>2, <1>3, WriteFile
<1>5. prompt[p] \notin acked \cup Ids(file, Records)
  BY <1>2 DEF FileInv
<1>6. CASE tail = "clean"
  <2>1. Ids(file, Records)' = Ids(file, Records) \cup {prompt[p]}
    BY <1>1, <1>3, <1>6, WithLineIds
  <2>2. Lost' = Lost
    BY <1>2, <1>5, <2>1 DEF Lost
  <2>3. Cardinality(Lost') \in Nat /\ Cardinality(Lost') <= tears'
    BY <1>2, <1>6, <2>2, LostFinite DEF TornInv
  <2> QED BY <1>1, <1>4, <2>3, CleanTail
<1>7. CASE tail # "clean"
  <2>1. /\ Ids(file, Records)' \subseteq Ids(file, Records)
        /\ Ids(file, Records) \cap acked \subseteq Ids(file, Records)'
    BY <1>1, <1>3, <1>7, WithLineIds
  <2>2. Lost' = Lost \cup {prompt[p]}
    BY <1>2, <1>5, <2>1 DEF Lost
  <2>3. IsFiniteSet(Lost) /\ prompt[p] \notin Lost
    BY <1>5, LostFinite DEF Lost
  <2>4. Cardinality(Lost') = Cardinality(Lost) + 1
    BY <2>2, <2>3, FS_AddElement
  <2>5. Cardinality(Lost') \in Nat /\ Cardinality(Lost') <= tears'
    BY <1>2, <1>7, <2>4, LostFinite DEF TornInv
  <2> QED BY <1>1, <1>4, <2>5, CleanTail
<1> QED BY <1>6, <1>7

\* What is not a record of an answered prompt loses no record that counts.
LEMMA SameLoss ==
  ASSUME TypeOK, TornInv, NEW l \in Line, file' = WithLine(l), acked' = acked,
         l.type = "interaction" => l.id \notin acked
  PROVE  Lost' = Lost
BY WithLineIds DEF Lost

\* A compaction adds no record.
LEMMA CompactionFile ==
  ASSUME TypeOK, CycleInv, FileInv, TornInv, NEW p \in Apps,
         AppendCompaction(p)
  PROVE  FileInv' /\ TornInv'
<1>1. /\ file' = WithLine(Boundary(p)) /\ tail' = "clean"
      /\ pc[p] = "appending" /\ acked' = acked /\ tears' = tears
      /\ asked' = asked /\ prompt' = prompt
      /\ \A q \in Apps : Unstored(q)' => Unstored(q)
  BY DEF AppendCompaction, AppendJson, GotoWith, Unstored, TypeOK
<1>2. Boundary(p) \in Line /\ Boundary(p).type # "interaction"
  BY WrittenLines DEF Boundary, Compaction
<1>3. FileInv'
  BY <1>1, <1>2, WriteFile
<1>4. Lost' = Lost
  BY <1>1, <1>2, SameLoss
<1>5. Cardinality(Lost') \in Nat /\ Cardinality(Lost') <= tears'
  BY <1>1, <1>4, LostFinite DEF TornInv
<1> QED BY <1>1, <1>3, <1>5, CleanTail

\* A torn write is counted before a record is lost by it.
LEMMA TearFile ==
  ASSUME TypeOK, CycleInv, FileInv, TornInv, NEW p \in Apps, Tear(p)
  PROVE  FileInv' /\ TornInv'
<1>1. /\ pc[p] \in {"answered", "appending"} /\ acked' = acked
      /\ tears' = tears + 1 /\ asked' = asked
      /\ ~Unstored(p)'
      /\ \A q \in Apps : Unstored(q)' => Unstored(q) /\ prompt'[q] = prompt[q]
  BY DEF Tear, Over, Unstored, TypeOK
<1>2. PICK l \in Line :
        /\ file' = WithLine(l)
        /\ l.type = "interaction" => pc[p] = "answered" /\ l.id = prompt[p]
  <2>1. pc[p] # "idle" /\ prompt[p] # 0
    BY <1>1 DEF CycleInv
  <2>2. Garbage \in Line /\ Garbage.type # "interaction"
    BY WrittenLines DEF Garbage
  <2>3. Boundary(p) \in Line /\ Boundary(p).type # "interaction"
    BY WrittenLines DEF Boundary, Compaction
  <2>4. \A n \in Sizes : Record(p, n) \in Line /\ Record(p, n).id = prompt[p]
    BY <2>1, WrittenLines DEF Record, Interaction
  <2>5. CASE file' = WithLine(Garbage)
    BY <2>2, <2>5
  <2>6. CASE pc[p] = "appending" /\ file' = WithLine(Boundary(p))
    BY <2>3, <2>6
  <2>7. CASE pc[p] = "answered" /\ \E n \in Sizes : file' = WithLine(Record(p, n))
    BY <2>4, <2>7
  <2> QED BY <1>1, <2>5, <2>6, <2>7 DEF Tear
<1>3. l.type = "interaction" =>
        Unstored(p) /\ l.id = prompt[p] /\ l.id \notin acked
  BY <1>1, <1>2 DEF Unstored, FileInv
<1>4. FileInv'
  BY <1>1, <1>2, <1>3, WriteFile
<1>5. Lost' = Lost
  BY <1>1, <1>2, <1>3, SameLoss
<1>6. Cardinality(Lost') + 1 <= tears' /\ Cardinality(Lost') \in Nat
  <2>1. Cardinality(Lost) \in Nat /\ tears \in Nat
    BY LostFinite
  <2>2. Cardinality(Lost) <= tears
    BY <2>1 DEF TornInv
  <2> QED BY <1>1, <1>5, <2>1, <2>2
<1>7. file' # <<>> /\ (Len(file') \in Records' => file'[Len(file')].id \notin acked)
  <2>1. file \in Seq(Line) /\ Len(file) \in Nat
    BY DEF TypeOK
  <2>2. CASE tail = "clean"
    <3>1. file' = Append(file, l)
      BY <1>2, <2>2 DEF WithLine
    <3>2. Len(file') = Len(file) + 1 /\ file'[Len(file')] = l /\ file' # <<>>
      BY <2>1, <3>1
    <3> QED BY <1>3, <3>2 DEF Records
  <2>3. CASE tail # "clean"
    <3>1. file' = [file EXCEPT ![Len(file)] = Garbage] /\ file # <<>>
      BY <1>2, <2>3 DEF WithLine, TornInv
    <3>2. Len(file') = Len(file) /\ file' # <<>>
      BY <2>1, <3>1
    <3>3. Records' = Records \ {Len(file)}
      BY <1>2, <2>3, WithLineRecords
    <3> QED BY <3>2, <3>3
  <2> QED BY <2>2, <2>3
<1> QED BY <1>1, <1>4, <1>6, <1>7 DEF TornInv

(***************************************************************************)
(* IInv is an invariant, for every set of disruptions.                     *)
(***************************************************************************)
THEOREM Inductive == SafeSpec => []IInv
<1>1. Init => IInv
  <2> SUFFICES ASSUME Init PROVE IInv
    OBVIOUS
  <2>1. TypeOK
    BY SessionAssumption, SettingsAssumption
       DEF Init, TypeOK, Points, Plan, NoPlan, MaxRecoveries
  <2>2. CycleInv
    BY DEF Init, CycleInv
  <2>3. Records = {} /\ Ids(file, Records) = {} /\ acked = {}
    BY DEF Init, Records, Ids
  <2>4. FileInv
    BY <2>3 DEF Init, FileInv, Unstored
  <2>5. TornInv
    BY <2>3, FS_EmptySet DEF Init, TornInv, Lost
  <2> QED BY <2>1, <2>2, <2>4, <2>5 DEF IInv
<1>2. IInv /\ [Next]_vars => IInv'
  <2> SUFFICES ASSUME IInv, [Next]_vars PROVE IInv'
    OBVIOUS
  <2> USE DEF IInv
  <2>1. CASE UNCHANGED vars
    BY <2>1 DEF vars, fileVars, locals, TypeOK, CycleInv, FileInv, TornInv,
                Records, Lost, Unstored
  <2>2. ASSUME NEW p \in Apps, Ask(p) \/ RpcTool(p) \/ Work(p) \/ Die(p) \/ Tear(p)
        PROVE  IInv'
    BY <2>2, LocalCycle, LocalFile, WriteCycle, StoreFile, CompactionFile,
       TearFile DEF Work
  <2> QED BY <2>1, <2>2 DEF Next
<1> QED BY <1>1, <1>2, PTL DEF SafeSpec

\* The types are right in every state, plans of any interleaving included.
THEOREM TypeCorrect == SafeSpec => []TypeOK
<1>1. IInv => TypeOK
  BY DEF IInv
<1> QED BY <1>1, Inductive, PTL

\* A record whose append returned is in the file once, unless a torn write
\* took it along, and there are no more of these than torn writes.
THEOREM Stored == SafeSpec => []StoredOnce
<1>1. IInv => StoredOnce
  <2> SUFFICES ASSUME IInv PROVE StoredOnce
    OBVIOUS
  <2>1. Cardinality(Lost) \in Nat /\ tears \in Nat
    BY LostFinite DEF IInv, TypeOK
  <2> QED BY <2>1 DEF IInv, FileInv, TornInv, StoredOnce
<1> QED BY <1>1, Inductive, PTL

-----------------------------------------------------------------------------
(***************************************************************************)
(* What is loaded, without the choices in its definition.                  *)
(***************************************************************************)
LastBoundary(f, b) == f[Max(Compactions(f, b))]
Distinct(f, b) ==
  \A i, j \in Interactions(f, b) : f[i].id = f[j].id => i = j
StartsAt(f, b, i) ==
  /\ Compactions(f, b) # {}
  /\ i \in Interactions(f, b) /\ f[i].id = LastBoundary(f, b).kept

\* Each id is that of one line.
LEMMA DistinctIds ==
  ASSUME IInv, NEW b
  PROVE  Distinct(file, b)
BY DEF IInv, FileInv, Distinct, Interactions, Records

\* A boundary at a known record loads what is from there on.
LEMMA LoadFrom ==
  ASSUME NEW f, NEW b, NEW i, Distinct(f, b), StartsAt(f, b, i)
  PROVE  Load(f, b) = From(Interactions(f, b), i)
<1>1. LastBoundary(f, b).kept \in Ids(f, Interactions(f, b))
  BY DEF Ids, StartsAt
<1>2. LineOf(f, Interactions(f, b), LastBoundary(f, b).kept) = i
  BY DEF LineOf, Distinct, StartsAt
<1> QED BY <1>1, <1>2 DEF Load, LastBoundary, StartsAt

\* Without such a boundary everything is loaded.
LEMMA LoadAll ==
  ASSUME NEW f, NEW b,
         \/ Compactions(f, b) = {}
         \/ LastBoundary(f, b).kept \notin Ids(f, Interactions(f, b))
  PROVE  Load(f, b) = Interactions(f, b)
BY DEF Load, LastBoundary

\* What is loaded of a branch depends on the lines of the branch only.
LEMMA SameLoad ==
  ASSUME NEW f \in Seq(Line), NEW g \in Seq(Line), NEW b, Distinct(f, b),
         Interactions(g, b) = Interactions(f, b),
         Compactions(g, b) = Compactions(f, b),
         \A i \in Interactions(f, b) \cup Compactions(f, b) : g[i] = f[i]
  PROVE  /\ Load(g, b) = Load(f, b)
         /\ Ids(g, Load(g, b)) = Ids(f, Load(f, b))
         /\ Ids(g, Interactions(g, b)) = Ids(f, Interactions(f, b))
<1>1. Ids(g, Interactions(g, b)) = Ids(f, Interactions(f, b))
  BY DEF Ids
<1>2. Distinct(g, b)
  BY DEF Distinct
<1>3. Compactions(f, b) # {} => LastBoundary(g, b) = LastBoundary(f, b)
  <2>1. Compactions(f, b) \in SUBSET (0..Len(f)) /\ Len(f) \in Nat
    BY DEF Compactions
  <2> QED BY <2>1, MaxIn DEF LastBoundary
<1>4. Load(g, b) = Load(f, b)
  <2>1. CASE /\ Compactions(f, b) # {}
             /\ LastBoundary(f, b).kept \in Ids(f, Interactions(f, b))
    <3>1. PICK i \in Interactions(f, b) : f[i].id = LastBoundary(f, b).kept
      BY <2>1 DEF Ids
    <3>2. StartsAt(f, b, i) /\ StartsAt(g, b, i)
      BY <1>3, <2>1, <3>1 DEF StartsAt
    <3> QED BY <1>2, <3>2, LoadFrom
  <2>2. CASE ~(/\ Compactions(f, b) # {}
               /\ LastBoundary(f, b).kept \in Ids(f, Interactions(f, b)))
    BY <1>1, <1>3, <2>2, LoadAll
  <2> QED BY <2>1, <2>2
<1>5. \A i \in Load(f, b) : g[i] = f[i]
  BY LoadedLines
<1> QED BY <1>1, <1>4, <1>5 DEF Ids

\* Reading a file that a line was appended to.
LEMMA Appended ==
  ASSUME file \in Seq(Line), NEW l, file' = Append(file, l), NEW b
  PROVE  /\ Interactions(file', b) =
              IF l.type = "interaction" /\ l.branch = b
              THEN Interactions(file, b) \cup {Len(file) + 1}
              ELSE Interactions(file, b)
         /\ Compactions(file', b) =
              IF l.type = "compaction" /\ l.branch = b
              THEN Compactions(file, b) \cup {Len(file) + 1}
              ELSE Compactions(file, b)
         /\ file'[Len(file) + 1] = l
         /\ \A i \in 1..Len(file) : file'[i] = file[i]
         /\ Interactions(file, b) \cup Compactions(file, b) \subseteq 1..Len(file)
<1>1. /\ Len(file) \in Nat
      /\ DOMAIN file = 1..Len(file) /\ DOMAIN file' = 1..Len(file) + 1
      /\ file'[Len(file) + 1] = l
      /\ \A i \in 1..Len(file) : file'[i] = file[i]
  OBVIOUS
<1>2. 1..Len(file) + 1 = 1..Len(file) \cup {Len(file) + 1}
  BY <1>1
<1>3. /\ Interactions(file, b) \cup Compactions(file, b) \subseteq 1..Len(file)
      /\ Len(file) + 1 \notin 1..Len(file)
  BY <1>1 DEF Interactions, Compactions
<1>4. Interactions(file', b) = IF l.type = "interaction" /\ l.branch = b
                               THEN Interactions(file, b) \cup {Len(file) + 1}
                               ELSE Interactions(file, b)
  BY <1>1, <1>2, <1>3 DEF Interactions
<1>5. Compactions(file', b) = IF l.type = "compaction" /\ l.branch = b
                              THEN Compactions(file, b) \cup {Len(file) + 1}
                              ELSE Compactions(file, b)
  BY <1>1, <1>2, <1>3 DEF Compactions
<1> QED BY <1>1, <1>3, <1>4, <1>5

\* Where nothing can tear a line, every line has its newline.
LEMMA CleanFile ==
  ASSUME "tear" \notin Disruptions
  PROVE  SafeSpec => [](tail = "clean")
<1>1. Init => tail = "clean"
  BY DEF Init
<1>2. tail = "clean" /\ [Next]_vars => (tail = "clean")'
  BY DEF Next, vars, fileVars, locals, Work, Ask, RpcTool, Request, Respond,
         Overflow, Store, AppendJson, PlanCompaction, RunHooks, Summarize,
         AppendCompaction, Compacted, Die, Tear
<1> QED BY <1>1, <1>2, PTL DEF SafeSpec

\* A step writes the line of an app at the end of a clean file, or nothing.
LEMMA StepWrites ==
  ASSUME IInv, [Next]_vars, tail = "clean", "tear" \notin Disruptions
  PROVE  \/ file' = file
         \/ \E p \in Apps :
              /\ pc'[p] # pc[p]
              /\ \/ Store(p) /\ \E n \in Sizes : file' = Append(file, Record(p, n))
                 \/ AppendCompaction(p) /\ file' = Append(file, Boundary(p))
<1>1. CASE UNCHANGED vars
  BY <1>1 DEF vars, fileVars
<1>2. ASSUME NEW p \in Apps, Ask(p) \/ RpcTool(p) \/ Die(p)
                 \/ Respond(p) \/ Overflow(p) \/ PlanCompaction(p) \/ RunHooks(p)
                 \/ Summarize(p) \/ Compacted(p)
      PROVE  file' = file
  BY <1>2 DEF Ask, RpcTool, Request, Respond, Overflow, PlanCompaction, RunHooks,
              Summarize, Compacted, Die, fileVars
<1>3. ASSUME NEW p \in Apps, Store(p)
      PROVE  pc'[p] # pc[p] /\ \E n \in Sizes : file' = Append(file, Record(p, n))
  BY <1>3 DEF Store, AppendJson, WithLine, Goto, IInv, TypeOK
<1>4. ASSUME NEW p \in Apps, AppendCompaction(p)
      PROVE  pc'[p] # pc[p] /\ file' = Append(file, Boundary(p))
  BY <1>4 DEF AppendCompaction, AppendJson, WithLine, GotoWith, IInv, TypeOK
<1>5. \A p \in Apps : ~Tear(p)
  BY DEF Tear
<1> QED BY <1>1, <1>2, <1>3, <1>4, <1>5 DEF Next, Work

\* Another branch reads the same as before.
LEMMA OtherBranch ==
  ASSUME IInv, IInv', NEW l \in Line, file' = Append(file, l), NEW b,
         l.branch # b
  PROVE  /\ Load(file', b) = Load(file, b) /\ LoadedIds(b)' = LoadedIds(b)
         /\ StoredIds(b)' = StoredIds(b) /\ Covered(b)' = Covered(b)
<1>1. file \in Seq(Line) /\ file' \in Seq(Line) /\ Distinct(file, b)
  BY DistinctIds DEF IInv, TypeOK
<1>2. /\ Interactions(file', b) = Interactions(file, b)
      /\ Compactions(file', b) = Compactions(file, b)
      /\ \A i \in Interactions(file, b) \cup Compactions(file, b) : file'[i] = file[i]
  <2>1. /\ Interactions(file', b) = Interactions(file, b)
        /\ Compactions(file', b) = Compactions(file, b)
    BY <1>1, Appended
  <2>2. /\ \A i \in 1..Len(file) : file'[i] = file[i]
        /\ Interactions(file, b) \cup Compactions(file, b) \subseteq 1..Len(file)
    BY <1>1, Appended
  <2> QED BY <2>1, <2>2
<1>3. Covered(b)' = Covered(b)
  BY <1>2 DEF Covered
<1> QED BY <1>1, <1>2, <1>3, SameLoad DEF LoadedIds, StoredIds

\* Without torn writes an app changes what is loaded on its own branch only.
THEOREM Isolated ==
  ASSUME "tear" \notin Disruptions
  PROVE  SafeSpec => BranchIsolated
<1> DEFINE A == \A b \in Branches : LoadedIds(b)' # LoadedIds(b) =>
                  \E p \in Apps : branch[p] = b /\ pc'[p] # pc[p]
<1>1. IInv /\ IInv' /\ tail = "clean" /\ [Next]_vars => A
  <2> SUFFICES ASSUME IInv, IInv', tail = "clean", [Next]_vars, NEW b \in Branches,
                      LoadedIds(b)' # LoadedIds(b)
               PROVE  \E p \in Apps : branch[p] = b /\ pc'[p] # pc[p]
    OBVIOUS
  <2>1. CASE file' = file
    BY <2>1 DEF LoadedIds
  <2>2. ASSUME NEW p \in Apps, pc'[p] # pc[p],
               NEW l \in Line, l.branch = branch[p], file' = Append(file, l)
        PROVE  branch[p] = b
    BY <2>2, OtherBranch
  <2>3. ASSUME NEW p \in Apps, pc'[p] # pc[p], AppendCompaction(p),
               file' = Append(file, Boundary(p))
        PROVE  branch[p] = b
    BY <2>2, <2>3, WrittenLines DEF IInv, Boundary, Compaction
  <2>4. ASSUME NEW p \in Apps, pc'[p] # pc[p], Store(p),
               NEW n \in Sizes, file' = Append(file, Record(p, n))
        PROVE  branch[p] = b
    <3>1. prompt[p] # 0
      BY <2>4 DEF IInv, CycleInv, Store
    <3> QED BY <2>2, <2>4, <3>1, WrittenLines DEF IInv, Record, Interaction
  <2> QED BY <2>1, <2>3, <2>4, StepWrites
<1> QED BY <1>1, Inductive, CleanFile, PTL DEF SafeSpec, BranchIsolated

-----------------------------------------------------------------------------
(***************************************************************************)
(* What is left out of the context is in a summary.                        *)
(***************************************************************************)

\* What is loaded goes up to the end of the branch.
LEMMA LoadedUpwards ==
  ASSUME IInv, NEW b, NEW i \in Load(file, b), NEW j \in Interactions(file, b),
         j >= i
  PROVE  j \in Load(file, b)
<1>1. Distinct(file, b) /\ Interactions(file, b) \in SUBSET (1..Len(file))
  BY DistinctIds, RecordIds DEF IInv, TypeOK
<1>2. CASE /\ Compactions(file, b) # {}
           /\ LastBoundary(file, b).kept \in Ids(file, Interactions(file, b))
  <2>1. PICK k \in Interactions(file, b) : file[k].id = LastBoundary(file, b).kept
    BY <1>2 DEF Ids
  <2>2. Load(file, b) = From(Interactions(file, b), k)
    BY <1>1, <1>2, <2>1, LoadFrom DEF StartsAt
  <2> QED BY <1>1, <2>2 DEF From
<1>3. CASE ~(/\ Compactions(file, b) # {}
             /\ LastBoundary(file, b).kept \in Ids(file, Interactions(file, b)))
  BY <1>3, LoadAll
<1> QED BY <1>2, <1>3

\* What is before a loaded record is loaded, or in a summary.
LEMMA CoversBefore ==
  ASSUME IInv, NothingForgotten, NEW p \in Apps, NEW i \in Loaded(p)
  PROVE  Ids(file, Before(Interactions(file, branch[p]), i))
           \subseteq Ids(file, Before(Loaded(p), i)) \cup Covered(branch[p])
<1>1. branch[p] \in Branches
  BY DEF IInv, TypeOK
<1>2. Loaded(p) = Load(file, branch[p])
      /\ Loaded(p) \subseteq Interactions(file, branch[p])
      /\ Distinct(file, branch[p])
  BY LoadedLines, DistinctIds DEF Loaded
<1>3. SUFFICES ASSUME NEW j \in Interactions(file, branch[p]), j < i,
                      file[j].id \notin Covered(branch[p])
               PROVE  file[j].id \in Ids(file, Before(Loaded(p), i))
  BY DEF Ids, Before
<1>4. file[j].id \in LoadedIds(branch[p])
  BY <1>1, <1>3 DEF NothingForgotten, StoredIds, Ids
<1>5. j \in Loaded(p)
  BY <1>2, <1>4 DEF LoadedIds, Ids, Distinct
<1> QED BY <1>3, <1>5 DEF Ids, Before

\* A step of p that leaves the file alone keeps the plans of the others.
LEMMA SameFilePlan ==
  ASSUME IInv, PlanInv, NEW p \in Apps, UNCHANGED <<file, tail, branch>>,
         \A q \in Apps \ {p} : pc'[q] = pc[q] /\ plan'[q] = plan[q],
         pc'[p] \in Planning => \E i \in Interactions(file, branch[p]) : KeptFrom(p, i)'
  PROVE  PlanInv'
<1>1. NothingForgotten'
  BY DEF PlanInv, NothingForgotten, StoredIds, LoadedIds, Covered
<1>2. \A b \in Branches : \A i \in Compactions(file', b) :
        file'[i].kept \in StoredIds(b)'
  BY DEF PlanInv, StoredIds
<1>3. ASSUME NEW q \in Apps, pc'[q] \in Planning
      PROVE  \E i \in Interactions(file', branch'[q]) : KeptFrom(q, i)'
  <2>1. CASE q = p
    BY <1>3, <2>1
  <2>2. CASE q # p
    BY <1>3, <2>2 DEF PlanInv, KeptFrom, Covered, Alone, Loaded
  <2> QED BY <2>1, <2>2
<1> QED BY <1>1, <1>2, <1>3 DEF PlanInv

\* A step of p that makes a plan keeps PlanInv, if the plan is made of what
\* is loaded.
LEMMA NewPlan ==
  ASSUME IInv, PlanInv, NEW p \in Apps, UNCHANGED <<file, tail, branch>>,
         \A q \in Apps \ {p} : pc'[q] = pc[q] /\ plan'[q] = plan[q],
         NEW i \in Loaded(p),
         plan'[p] = [planned |-> file[i].id, kept |-> file[i].id,
                     covers |-> Ids(file, Before(Loaded(p), i))]
  PROVE  PlanInv'
<1>1. i \in Interactions(file, branch[p])
  BY LoadedLines DEF Loaded
<1>2. Ids(file, Before(Interactions(file, branch[p]), i))
        \subseteq Ids(file, Before(Loaded(p), i)) \cup Covered(branch[p])
  BY CoversBefore DEF PlanInv
<1>3. KeptFrom(p, i)'
  BY <1>2 DEF KeptFrom, Covered, Loaded
<1> QED BY <1>1, <1>3, SameFilePlan

\* The steps that leave the file alone.
LEMMA LocalPlan ==
  ASSUME IInv, PlanInv, NEW p \in Apps, "override" \notin Disruptions,
         \/ Ask(p) \/ RpcTool(p) \/ Respond(p) \/ Overflow(p)
         \/ PlanCompaction(p) \/ RunHooks(p) \/ Summarize(p)
         \/ Compacted(p) \/ Die(p)
  PROVE  PlanInv'
<1>1. /\ UNCHANGED <<file, tail, branch>>
      /\ \A q \in Apps \ {p} : pc'[q] = pc[q] /\ plan'[q] = plan[q]
  BY DEF Ask, RpcTool, Request, Respond, Overflow, PlanCompaction, RunHooks,
         Summarize, Compacted, Die, Goto, GotoWith, Over, fileVars, locals,
         IInv, TypeOK
<1>2. ASSUME pc'[p] \notin Planning PROVE PlanInv'
  BY <1>1, <1>2, SameFilePlan
<1>3. ASSUME pc[p] \in Planning, plan'[p] = plan[p] PROVE PlanInv'
  <2>1. PICK i \in Interactions(file, branch[p]) : KeptFrom(p, i)
    BY <1>3 DEF PlanInv
  <2>2. KeptFrom(p, i)'
    BY <1>1, <1>3, <2>1 DEF KeptFrom, Covered, Alone, Loaded
  <2> QED BY <1>1, <2>2, SameFilePlan
<1>4. CASE Ask(p) \/ RpcTool(p) \/ Respond(p) \/ Overflow(p) \/ Compacted(p) \/ Die(p)
  <2>1. pc'[p] \notin Planning
    BY <1>4 DEF Ask, RpcTool, Request, Respond, Overflow, Compacted, Die, Over,
                Planning, IInv, TypeOK
  <2> QED BY <1>2, <2>1
<1>5. CASE PlanCompaction(p)
  <2>1. CASE Compactable(file, Loaded(p))
    <3>1. Loaded(p) \in SUBSET (1..Len(file)) /\ Len(file) \in Nat
      BY RecordIds DEF IInv, TypeOK, Loaded
    <3>2. Cut(file, Loaded(p)) \in Loaded(p)
      BY <2>1, <3>1, CutIn DEF Compactable
    <3>3. plan'[p] = Planned(Loaded(p))
      BY <1>5, <2>1 DEF PlanCompaction, GotoWith, IInv, TypeOK
    <3> QED BY <1>1, <3>2, <3>3, NewPlan DEF Planned
  <2>2. CASE ~Compactable(file, Loaded(p))
    <3>1. pc'[p] = "idle"
      BY <1>5, <2>2 DEF PlanCompaction, Over, IInv, TypeOK
    <3> QED BY <1>2, <3>1 DEF Planning
  <2> QED BY <2>1, <2>2
<1>6. CASE RunHooks(p)
  <2>1. pc'[p] = "idle" \/ (pc[p] \in Planning /\ plan'[p] = plan[p])
    BY <1>6 DEF RunHooks, Goto, Over, Planning, locals, IInv, TypeOK
  <2> QED BY <1>2, <1>3, <2>1 DEF Planning
<1>7. CASE Summarize(p)
  <2>1. pc[p] \in Planning
    BY <1>7 DEF Summarize, Planning
  <2>2. CASE Goto(p, "appending")
    BY <1>3, <2>1, <2>2 DEF Goto, locals
  <2>3. ASSUME NEW i \in Loaded(p), file[i].id = plan[p].planned,
               GotoWith(p, "appending",
                 [plan[p] EXCEPT !.covers = Ids(file, Before(Loaded(p), i))])
        PROVE  PlanInv'
    <3>1. plan[p].kept = file[i].id /\ plan[p].planned = file[i].id
      BY <2>1, <2>3 DEF PlanInv, KeptFrom
    <3>2. plan[p] \in Plan
      BY DEF IInv, TypeOK
    <3>3. plan'[p] = [plan[p] EXCEPT !.covers = Ids(file, Before(Loaded(p), i))]
      BY <2>3 DEF GotoWith, IInv, TypeOK
    <3>4. plan'[p] = [planned |-> file[i].id, kept |-> file[i].id,
                      covers |-> Ids(file, Before(Loaded(p), i))]
      BY <3>1, <3>2, <3>3 DEF Plan
    <3> QED BY <1>1, <3>4, NewPlan
  <2> QED BY <1>7, <2>2, <2>3 DEF Summarize
<1> QED BY <1>4, <1>5, <1>6, <1>7

\* A line of p at the end of the file keeps what other plans say of it.
LEMMA OtherPlans ==
  ASSUME IInv, IInv', PlanInv, NEW p \in Apps, UNCHANGED branch,
         NEW l \in Line, l.branch = branch[p], file' = Append(file, l),
         NEW q \in Apps \ {p}, plan'[q] = plan[q],
         NEW i \in Interactions(file, branch[q]), KeptFrom(q, i)
  PROVE  i \in Interactions(file', branch'[q]) /\ KeptFrom(q, i)'
<1> DEFINE b == branch[q]
<1>1. file \in Seq(Line) /\ Len(file) \in Nat
  BY DEF IInv, TypeOK
<1>2. /\ i \in Interactions(file', b) /\ file'[i] = file[i]
      /\ \A j \in Interactions(file, b) \cup Compactions(file, b) : file'[j] = file[j]
      /\ Interactions(file', b) \subseteq Interactions(file, b) \cup {Len(file) + 1}
      /\ Compactions(file, b) \subseteq Compactions(file', b)
      /\ i < Len(file) + 1
  BY <1>1, Appended
<1>3. Before(Interactions(file', b), i) \subseteq Before(Interactions(file, b), i)
  <2>1. i \in 1..Len(file)
    BY <1>1 DEF Interactions
  <2>2. ASSUME NEW j \in Interactions(file', b), j < i
        PROVE  j \in Interactions(file, b)
    BY <1>1, <1>2, <2>1, <2>2
  <2> QED BY <2>2 DEF Before
<1>4. Before(Interactions(file, b), i) \subseteq Interactions(file, b)
  BY DEF Before
<1>5. Ids(file', Before(Interactions(file', b), i))
        \subseteq Ids(file, Before(Interactions(file, b), i))
  BY <1>2, <1>3, <1>4 DEF Ids
<1>6. Covered(b) \subseteq Covered(b)'
  BY ZenonT(60), <1>2 DEF Covered
<1>7. Alone(b)' => i \in Loaded(q)'
  <2>1. SUFFICES ASSUME Alone(b) PROVE i \in Load(file', b)
    BY DEF Loaded, Alone
  <2>2. l.branch # b
    BY <2>1 DEF Alone
  <2> QED BY <2>1, <2>2, OtherBranch DEF KeptFrom, Loaded
<1> QED BY <1>2, <1>5, <1>6, <1>7 DEF KeptFrom

\* A record is loaded when it is stored, with all that was loaded before.
LEMMA StoredIsLoaded ==
  ASSUME IInv, IInv', PlanInv, NEW b \in Branches, NEW l \in Line,
         l.branch = b, l.type = "interaction", file' = Append(file, l)
  PROVE  /\ LoadedIds(b)' = LoadedIds(b) \cup {l.id}
         /\ StoredIds(b)' = StoredIds(b) \cup {l.id}
         /\ Covered(b)' = Covered(b)
<1>1. file \in Seq(Line) /\ Len(file) \in Nat /\ Distinct(file, b)
  BY DistinctIds DEF IInv, TypeOK
<1>2. /\ Interactions(file', b) = Interactions(file, b) \cup {Len(file) + 1}
      /\ Compactions(file', b) = Compactions(file, b)
      /\ file'[Len(file) + 1] = l
      /\ \A j \in Interactions(file, b) \cup Compactions(file, b) : file'[j] = file[j]
      /\ \A j \in Interactions(file, b) : j < Len(file) + 1
  BY <1>1, Appended
<1>3. Distinct(file', b)
  BY DEF IInv, FileInv, Distinct, Interactions, Records
<1>4. Load(file', b) = Load(file, b) \cup {Len(file) + 1}
  <2>1. CASE Compactions(file, b) = {}
    BY <1>2, <2>1, LoadAll
  <2>2. CASE Compactions(file, b) # {}
    <3>1. Compactions(file, b) \in SUBSET (0..Len(file))
      BY <1>1 DEF Compactions
    <3>2. Max(Compactions(file, b)) \in Compactions(file, b)
      BY <1>1, <2>2, <3>1, MaxIn
    <3>3. LastBoundary(file', b) = LastBoundary(file, b)
      BY <1>2, <3>2 DEF LastBoundary
    <3>4. PICK i \in Interactions(file, b) : file[i].id = LastBoundary(file, b).kept
      BY <3>2 DEF PlanInv, LastBoundary, StoredIds, Ids
    <3>5. Load(file, b) = From(Interactions(file, b), i)
      BY <1>1, <2>2, <3>4, LoadFrom DEF StartsAt
    <3>6. Load(file', b) = From(Interactions(file', b), i)
      <4>1. StartsAt(file', b, i)
        BY <1>2, <2>2, <3>3, <3>4 DEF StartsAt
      <4> QED BY <1>3, <4>1, LoadFrom
    <3>7. Len(file) + 1 >= i
      BY <1>1 DEF Interactions
    <3> QED BY <1>2, <3>5, <3>6, <3>7 DEF From
  <2> QED BY <2>1, <2>2
<1>5. /\ LoadedIds(b)' = LoadedIds(b) \cup {l.id}
      /\ StoredIds(b)' = StoredIds(b) \cup {l.id}
  <2>1. ASSUME NEW S \in SUBSET Interactions(file, b)
        PROVE  Ids(file', S \cup {Len(file) + 1}) = Ids(file, S) \cup {l.id}
    <3>1. \A j \in S : file'[j].id = file[j].id
      BY <1>2
    <3>2. file'[Len(file) + 1].id = l.id
      BY <1>2
    <3> QED BY <3>1, <3>2 DEF Ids
  <2> QED BY <1>2, <1>4, <2>1, LoadedLines DEF LoadedIds, StoredIds
<1>6. Covered(b)' = Covered(b)
  <2>1. \A j \in Compactions(file, b) : file'[j].covers = file[j].covers
    BY <1>2
  <2>2. \A x : x \in Covered(b)' <=> x \in Covered(b)
    BY ZenonT(60), <1>2, <2>1 DEF Covered
  <2> QED BY <2>2
<1> QED BY <1>5, <1>6

\* Where p has appended its plan, the plan is what is loaded.
LEMMA BoundaryIsLoaded ==
  ASSUME IInv, IInv', NEW p \in Apps, file' = Append(file, Boundary(p)),
         NEW b, b = branch[p], NEW i \in Interactions(file, b), KeptFrom(p, i)
  PROVE  /\ Load(file', b) = From(Interactions(file, b), i)
         /\ LoadedIds(b)' = Ids(file, From(Interactions(file, b), i))
         /\ StoredIds(b)' = StoredIds(b)
         /\ Covered(b)' = Covered(b) \cup plan[p].covers
<1>1. file \in Seq(Line) /\ Len(file) \in Nat
  BY DEF IInv, TypeOK
<1>2. /\ Boundary(p).type = "compaction" /\ Boundary(p).branch = b
      /\ Boundary(p).kept = plan[p].kept /\ Boundary(p).covers = plan[p].covers
  BY DEF Boundary, Compaction
<1>3. /\ Interactions(file', b) = Interactions(file, b)
      /\ Compactions(file', b) = Compactions(file, b) \cup {Len(file) + 1}
      /\ file'[Len(file) + 1] = Boundary(p)
      /\ \A j \in Interactions(file, b) \cup Compactions(file, b) : file'[j] = file[j]
      /\ Compactions(file, b) \subseteq 1..Len(file)
  BY <1>1, <1>2, Appended
<1>4. LastBoundary(file', b) = Boundary(p)
  <2>1. Compactions(file', b) \in SUBSET (0..Len(file) + 1)
    BY <1>1, <1>3
  <2>2. Max(Compactions(file', b)) = Len(file) + 1
    <3>1. Len(file) + 1 \in Compactions(file', b) /\ Len(file) + 1 \in Nat
      BY <1>1, <1>3
    <3>2. /\ Max(Compactions(file', b)) \in 0..Len(file) + 1
          /\ Max(Compactions(file', b)) >= Len(file) + 1
      BY <2>1, <3>1, MaxIn
    <3> QED BY <1>1, <3>2
  <2> QED BY <1>3, <2>2 DEF LastBoundary
<1>5. Distinct(file', b)
  BY DEF IInv, FileInv, Distinct, Interactions, Records
<1>6. Load(file', b) = From(Interactions(file, b), i)
  <2>1. StartsAt(file', b, i)
    BY <1>2, <1>3, <1>4 DEF KeptFrom, StartsAt
  <2>2. Load(file', b) = From(Interactions(file', b), i)
    BY <1>5, <2>1, LoadFrom
  <2> QED BY <1>3, <2>2
<1>7. From(Interactions(file, b), i) \subseteq Interactions(file, b)
  BY DEF From
<1>8. /\ LoadedIds(b)' = Ids(file, From(Interactions(file, b), i))
      /\ StoredIds(b)' = StoredIds(b)
  <2>1. ASSUME NEW S \in SUBSET Interactions(file, b)
        PROVE  Ids(file', S) = Ids(file, S)
    BY <1>3 DEF Ids
  <2> QED BY <1>3, <1>6, <1>7, <2>1 DEF LoadedIds, StoredIds
<1>9. Covered(b)' = Covered(b) \cup plan[p].covers
  BY <1>2, <1>3 DEF Covered
<1> QED BY <1>6, <1>8, <1>9

\* A line of p at the end of the file keeps PlanInv, if p has no plan left and
\* nothing is forgotten on its branch.
LEMMA AppendPlan ==
  ASSUME IInv, IInv', PlanInv, NEW p \in Apps, UNCHANGED <<tail, branch>>,
         NEW l \in Line, l.branch = branch[p], file' = Append(file, l),
         \A q \in Apps \ {p} : pc'[q] = pc[q] /\ plan'[q] = plan[q],
         pc'[p] \notin Planning,
         StoredIds(branch[p]) \subseteq StoredIds(branch[p])',
         l.type = "compaction" => l.kept \in StoredIds(branch[p])',
         StoredIds(branch[p])'
           \subseteq LoadedIds(branch[p])' \cup Covered(branch[p])'
  PROVE  PlanInv'
<1>1. file \in Seq(Line) /\ Len(file) \in Nat
  BY DEF IInv, TypeOK
<1>2. NothingForgotten'
  <2> SUFFICES ASSUME NEW b \in Branches
               PROVE  StoredIds(b)' \subseteq LoadedIds(b)' \cup Covered(b)'
    BY DEF NothingForgotten
  <2> QED BY OtherBranch DEF PlanInv, NothingForgotten
<1>3. ASSUME NEW b \in Branches, NEW i \in Compactions(file', b)
      PROVE  file'[i].kept \in StoredIds(b)'
  <2>1. StoredIds(b) \subseteq StoredIds(b)'
    BY OtherBranch
  <2>2. CASE i \in Compactions(file, b)
    <3>1. file'[i] = file[i]
      BY <1>1, <2>2, Appended
    <3> QED BY <2>1, <2>2, <3>1 DEF PlanInv
  <2>3. CASE i \notin Compactions(file, b)
    <3>1. l.type = "compaction" /\ l.branch = b /\ file'[i] = l
      BY <1>1, <1>3, <2>3, Appended
    <3> QED BY <3>1
  <2> QED BY <2>2, <2>3
<1>4. ASSUME NEW q \in Apps, pc'[q] \in Planning
      PROVE  \E i \in Interactions(file', branch'[q]) : KeptFrom(q, i)'
  <2>1. q # p /\ pc[q] \in Planning /\ plan'[q] = plan[q]
    BY <1>4
  <2>2. PICK i \in Interactions(file, branch[q]) : KeptFrom(q, i)
    BY <2>1 DEF PlanInv
  <2>3. i \in Interactions(file', branch'[q]) /\ KeptFrom(q, i)'
    BY <2>1, <2>2, OtherPlans
  <2> QED BY <2>3
<1> QED BY <1>2, <1>3, <1>4 DEF PlanInv

\* A record that is stored is loaded.
LEMMA StorePlan ==
  ASSUME IInv, IInv', PlanInv, NEW p \in Apps, Store(p)
  PROVE  PlanInv'
<1>1. /\ UNCHANGED <<tail, branch>> /\ pc'[p] \notin Planning
      /\ \A q \in Apps \ {p} : pc'[q] = pc[q] /\ plan'[q] = plan[q]
      /\ branch[p] \in Branches /\ prompt[p] # 0
  BY DEF Store, Goto, AppendJson, locals, Planning, PlanInv, IInv, TypeOK, CycleInv
<1>2. PICK n \in Sizes : file' = Append(file, Record(p, n))
  BY DEF Store, AppendJson, WithLine, PlanInv
<1>3. /\ Record(p, n) \in Line /\ Record(p, n).branch = branch[p]
      /\ Record(p, n).type = "interaction"
  BY <1>1, WrittenLines DEF IInv, Record, Interaction
<1>4. /\ LoadedIds(branch[p])' = LoadedIds(branch[p]) \cup {Record(p, n).id}
      /\ StoredIds(branch[p])' = StoredIds(branch[p]) \cup {Record(p, n).id}
      /\ Covered(branch[p])' = Covered(branch[p])
  BY <1>1, <1>2, <1>3, StoredIsLoaded
<1>5. StoredIds(branch[p]) \subseteq LoadedIds(branch[p]) \cup Covered(branch[p])
  BY <1>1 DEF PlanInv, NothingForgotten
<1> QED BY <1>1, <1>2, <1>3, <1>4, <1>5, AppendPlan

\* The plan that is appended leaves out what it summarizes.
LEMMA CompactionPlan ==
  ASSUME IInv, IInv', PlanInv, NEW p \in Apps, AppendCompaction(p)
  PROVE  PlanInv'
<1> DEFINE b == branch[p]
<1>1. /\ UNCHANGED <<tail, branch>> /\ pc'[p] \notin Planning
      /\ \A q \in Apps \ {p} : pc'[q] = pc[q] /\ plan'[q] = plan[q]
      /\ pc[p] \in Planning
  BY DEF AppendCompaction, GotoWith, AppendJson, Planning, PlanInv, IInv, TypeOK
<1>2. file' = Append(file, Boundary(p))
  BY DEF AppendCompaction, AppendJson, WithLine, PlanInv
<1>3. /\ Boundary(p) \in Line /\ Boundary(p).branch = b
      /\ Boundary(p).type = "compaction" /\ Boundary(p).kept = plan[p].kept
  BY WrittenLines DEF IInv, Boundary, Compaction
<1>4. PICK i \in Interactions(file, b) : KeptFrom(p, i)
  BY <1>1 DEF PlanInv
<1>5. /\ LoadedIds(b)' = Ids(file, From(Interactions(file, b), i))
      /\ StoredIds(b)' = StoredIds(b)
      /\ Covered(b)' = Covered(b) \cup plan[p].covers
  <2> PICK c : c = branch[p]
    OBVIOUS
  <2>1. /\ LoadedIds(c)' = Ids(file, From(Interactions(file, c), i))
        /\ StoredIds(c)' = StoredIds(c)
        /\ Covered(c)' = Covered(c) \cup plan[p].covers
    BY <1>2, <1>4, BoundaryIsLoaded
  <2> QED BY <1>1, <2>1
<1>6. Interactions(file, b) \subseteq
        From(Interactions(file, b), i) \cup Before(Interactions(file, b), i)
  BY RecordIds DEF IInv, TypeOK, From, Before
<1>7. StoredIds(b) \subseteq Ids(file, From(Interactions(file, b), i))
                             \cup Ids(file, Before(Interactions(file, b), i))
  BY <1>6 DEF StoredIds, Ids
<1>8. StoredIds(b)' \subseteq LoadedIds(b)' \cup Covered(b)'
  BY <1>4, <1>5, <1>7 DEF KeptFrom
<1>9. plan[p].kept \in StoredIds(b)
  BY <1>4 DEF KeptFrom, StoredIds, Ids
<1> QED BY <1>1, <1>2, <1>3, <1>5, <1>8, <1>9, AppendPlan

Undisturbed == {"tear", "override"} \cap Disruptions = {}

\* PlanInv is an invariant where nothing tears lines or overrides plans.
THEOREM PlansKept ==
  ASSUME Undisturbed
  PROVE  SafeSpec => []PlanInv
<1>1. Init => PlanInv
  BY DEF Init, PlanInv, Compactions, Interactions, Planning, NothingForgotten,
         StoredIds, Ids
<1>2. IInv /\ IInv' /\ PlanInv /\ [Next]_vars => PlanInv'
  <2> SUFFICES ASSUME IInv, IInv', PlanInv, [Next]_vars PROVE PlanInv'
    OBVIOUS
  <2>1. "override" \notin Disruptions /\ \A p \in Apps : ~Tear(p)
    BY DEF Undisturbed, Tear
  <2>2. CASE UNCHANGED vars
    BY <2>2 DEF vars, fileVars, locals, PlanInv, KeptFrom, NothingForgotten,
                StoredIds, LoadedIds, Covered, Alone, Loaded
  <2>3. ASSUME NEW p \in Apps, Ask(p) \/ RpcTool(p) \/ Work(p) \/ Die(p)
        PROVE  PlanInv'
    BY <2>1, <2>3, LocalPlan, StorePlan, CompactionPlan DEF Work
  <2> QED BY <2>1, <2>2, <2>3 DEF Next
<1> QED BY <1>1, <1>2, Inductive, PTL DEF SafeSpec

\* However apps interleave on a branch, what is stored is loaded or in a
\* summary.
THEOREM Remembered ==
  ASSUME Undisturbed
  PROVE  SafeSpec => []NothingForgotten
<1>1. PlanInv => NothingForgotten
  BY DEF PlanInv
<1> QED BY <1>1, PlansKept, PTL

\* On the branch of an app alone, what was left out of the context stays out.
THEOREM BoundaryForward ==
  ASSUME Undisturbed
  PROVE  SafeSpec => BoundaryKept
<1> DEFINE A == \A b \in Branches : Alone(b) =>
                  (StoredIds(b) \ LoadedIds(b)) \cap LoadedIds(b)' = {}
<1>1. IInv /\ IInv' /\ PlanInv /\ [Next]_vars => A
  <2> SUFFICES ASSUME IInv, IInv', PlanInv, [Next]_vars, NEW b \in Branches,
                      Alone(b), file' # file
               PROVE  (StoredIds(b) \ LoadedIds(b)) \cap LoadedIds(b)' = {}
    BY DEF LoadedIds
  <2>1. tail = "clean" /\ "tear" \notin Disruptions
    BY DEF PlanInv, Undisturbed
  <2>2. PICK p \in Apps :
          \/ Store(p) /\ \E n \in Sizes : file' = Append(file, Record(p, n))
          \/ AppendCompaction(p) /\ file' = Append(file, Boundary(p))
    BY <2>1, StepWrites
  <2>3. PICK l \in Line : file' = Append(file, l) /\ l.branch = branch[p]
    <3>1. Store(p) => prompt[p] # 0
      BY DEF IInv, CycleInv, Store
    <3>2. Boundary(p) \in Line /\ Boundary(p).branch = branch[p]
      BY WrittenLines DEF IInv, Boundary, Compaction
    <3>3. \A n \in Sizes : Store(p) =>
            Record(p, n) \in Line /\ Record(p, n).branch = branch[p]
      BY <3>1, WrittenLines DEF IInv, Record, Interaction
    <3> QED BY <2>2, <3>2, <3>3
  <2>4. CASE branch[p] # b
    BY <2>3, <2>4, OtherBranch
  <2>5. CASE branch[p] = b /\ Store(p)
    <3>1. PICK n \in Sizes : file' = Append(file, Record(p, n))
      BY <2>5 DEF Store, AppendJson, WithLine, PlanInv
    <3>2. /\ Record(p, n) \in Line /\ Record(p, n).type = "interaction"
          /\ Record(p, n).id = prompt[p] /\ Record(p, n).branch = b
      BY <2>5, WrittenLines DEF IInv, CycleInv, Store, Record, Interaction
    <3>3. LoadedIds(b)' = LoadedIds(b) \cup {prompt[p]}
      BY <3>1, <3>2, StoredIsLoaded
    <3>4. prompt[p] \notin StoredIds(b)
      <4>1. prompt[p] \notin Ids(file, Records)
        BY <2>5 DEF IInv, FileInv, Unstored, Store
      <4>2. Interactions(file, b) \subseteq Records
        BY DEF Interactions, Records
      <4> QED BY <4>1, <4>2 DEF StoredIds, Ids
    <3> QED BY <3>3, <3>4
  <2>6. CASE branch[p] = b /\ AppendCompaction(p)
    <3>1. PICK i \in Interactions(file, b) : KeptFrom(p, i)
      BY <2>6 DEF AppendCompaction, PlanInv, Planning
    <3>2. file' = Append(file, Boundary(p))
      BY <2>6 DEF AppendCompaction, AppendJson, WithLine, PlanInv
    <3>3. LoadedIds(b)' = Ids(file, From(Interactions(file, b), i))
      BY <2>6, <3>1, <3>2, BoundaryIsLoaded
    <3>4. i \in Load(file, b)
      BY <2>6, <3>1 DEF KeptFrom, Loaded
    <3>5. From(Interactions(file, b), i) \subseteq Load(file, b)
      BY <3>4, LoadedUpwards DEF From
    <3> QED BY <3>3, <3>5 DEF LoadedIds, Ids
  <2> QED BY <2>2, <2>4, <2>5, <2>6
<1> QED BY <1>1, Inductive, PlansKept, PTL DEF SafeSpec, BoundaryKept

-----------------------------------------------------------------------------
(***************************************************************************)
(* Tokens of records.                                                      *)
(***************************************************************************)
Weights(f, S) == [n \in 1..Len(f) |-> IF n \in S THEN f[n].size ELSE 0]

\* Lines S of f whose sizes can be added.
Sized(f, S) ==
  /\ Len(f) \in Nat /\ S \in SUBSET (1..Len(f))
  /\ \A n \in S : f[n].size \in Nat

\* Tokens adds the sizes of the records.
LEMMA TokensSum ==
  ASSUME NEW f, NEW S, Sized(f, S)
  PROVE  /\ Weights(f, S) \in [1..Len(f) -> Nat]
         /\ \E s : Sums(s, Len(f), Weights(f, S)) /\ Tokens(f, S) = s[Len(f)]
         /\ Tokens(f, S) \in Nat
<1> DEFINE w == Weights(f, S)
<1>1. w \in [1..Len(f) -> Nat]
  BY DEF Weights, Sized
<1>2. PICK s : Sums(s, Len(f), w)
  BY <1>1, SumsExist DEF Sized
<1> DEFINE Walk(u) ==
             u = [n \in 0..Len(f) |->
                    IF n = 0 THEN 0
                    ELSE u[n - 1] + (IF n \in S THEN f[n].size ELSE 0)]
           c == CHOOSE u : Walk(u)
<1>3. Walk(s)
  <2>1. \A n \in 1..Len(f) : s[n] = s[n - 1] + (IF n \in S THEN f[n].size ELSE 0)
    BY <1>2 DEF Sums, Adds, Weights
  <2>2. \A n \in 0..Len(f) : n # 0 => n \in 1..Len(f)
    BY DEF Sized
  <2> QED BY <1>2, <2>1, <2>2 DEF Sums, Adds
<1>4. Walk(c)
  <2> HIDE DEF Walk
  <2> QED BY <1>3
<1>5. Adds(c, Len(f), w)
  <2> HIDE DEF c
  <2>1. 0 \in 0..Len(f) /\ \A n \in 1..Len(f) : n \in 0..Len(f) /\ n # 0
    BY DEF Sized
  <2>2. c[0] = 0
    BY <1>4, <2>1
  <2>3. \A n \in 1..Len(f) : w[n] = IF n \in S THEN f[n].size ELSE 0
    BY DEF Weights
  <2>4. ASSUME NEW n \in 1..Len(f) PROVE c[n] = c[n - 1] + w[n]
    <3>1. c[n] = c[n - 1] + (IF n \in S THEN f[n].size ELSE 0)
      BY <1>4, <2>1
    <3> QED BY <2>3, <3>1
  <2> QED BY <2>2, <2>4 DEF Adds
<1>6. c[Len(f)] = s[Len(f)]
  <2> HIDE DEF c, w, Walk
  <2>1. Len(f) \in Nat /\ Len(f) <= Len(f) /\ \A i \in 1..Len(f) : w[i] = w[i]
    BY DEF Sized
  <2>2. Adds(s, Len(f), w)
    BY <1>2 DEF Sums
  <2> QED BY <1>5, <2>1, <2>2, SumsAgree
<1>7. Tokens(f, S) = c[Len(f)]
  BY DEF Tokens
<1>8. s[Len(f)] \in Nat
  BY <1>2 DEF Sums, Sized
<1> QED BY <1>1, <1>2, <1>6, <1>7, <1>8

\* More records have more tokens.
LEMMA TokensMonotone ==
  ASSUME NEW f, NEW S, NEW T, Sized(f, T), S \subseteq T
  PROVE  Tokens(f, S) <= Tokens(f, T)
<1>1. Sized(f, S)
  BY DEF Sized
<1>2. PICK s : Sums(s, Len(f), Weights(f, S)) /\ Tokens(f, S) = s[Len(f)]
  BY <1>1, TokensSum
<1>3. PICK t : Sums(t, Len(f), Weights(f, T)) /\ Tokens(f, T) = t[Len(f)]
  BY TokensSum
<1>4. \A n \in 1..Len(f) : Weights(f, S)[n] <= Weights(f, T)[n]
  BY DEF Weights, Sized
<1>5. /\ Weights(f, S) \in [1..Len(f) -> Nat]
      /\ Weights(f, T) \in [1..Len(f) -> Nat] /\ Len(f) \in Nat
  BY <1>1, TokensSum DEF Sized
<1> QED BY <1>2, <1>3, <1>4, <1>5, SumsMonotone

\* One record more has its tokens more.
LEMMA TokensAdd ==
  ASSUME NEW f, NEW S, NEW i \in S, Sized(f, S)
  PROVE  IsSum(Tokens(f, S), f[i].size, Tokens(f, S \ {i}))
<1> DEFINE n == Len(f)
           T == S \ {i}
           v == Weights(f, T)
           w == Weights(f, S)
<1>1. Sized(f, T) /\ i \in 1..n /\ n \in Nat
  BY DEF Sized
<1>2. w[i] = f[i].size /\ OneMore(w, v, n, i)
  BY <1>1 DEF Weights, Sized, OneMore
<1>3. /\ v \in [1..n -> Nat] /\ \E s : Sums(s, n, v) /\ Tokens(f, T) = s[n]
      /\ w \in [1..n -> Nat] /\ \E t : Sums(t, n, w) /\ Tokens(f, S) = t[n]
  <2> HIDE DEF T
  <2> QED BY <1>1, TokensSum
<1> HIDE DEF T, n, v, w
<1>4. PICK s : Sums(s, n, v) /\ Tokens(f, T) = s[n]
  BY <1>3
<1>5. PICK t : Sums(t, n, w) /\ Tokens(f, S) = t[n]
  BY <1>3
<1>6. t[n] = s[n] + w[i]
  <2>1. /\ n \in Nat /\ v \in [1..n -> Nat] /\ w \in [1..n -> Nat]
        /\ Sums(s, n, v) /\ Sums(t, n, w) /\ i \in 1..n /\ OneMore(w, v, n, i)
    BY <1>1, <1>2, <1>3, <1>4, <1>5
  <2>2. IsSum(t[n], s[n], w[i])
    BY <2>1, SumsOneMore
  <2> QED BY <2>2 DEF IsSum
<1>7. s[n] \in Nat /\ w[i] \in Nat
  BY <1>1, <1>3, <1>4 DEF Sums
<1> QED BY <1>2, <1>4, <1>5, <1>6, <1>7 DEF T, IsSum

\* The tokens of records do not change when a line is appended to the file.
LEMMA TokensAppend ==
  ASSUME NEW f, NEW g, NEW S, Sized(f, S), Len(g) \in {Len(f), Len(f) + 1},
         \A i \in S : g[i].size = f[i].size
  PROVE  Sized(g, S) /\ Tokens(g, S) = Tokens(f, S)
<1> DEFINE n == Len(f)
           m == Len(g)
<1>1. Sized(g, S) /\ n \in Nat /\ m \in Nat /\ (m = n \/ m = n + 1)
  BY DEF Sized
<1>2. PICK s : Sums(s, n, Weights(f, S)) /\ Tokens(f, S) = s[n]
  BY TokensSum
<1>3. PICK t : Sums(t, m, Weights(g, S)) /\ Tokens(g, S) = t[m]
  BY <1>1, TokensSum
<1>4. \A i \in 1..n : Weights(f, S)[i] = Weights(g, S)[i]
  BY <1>1 DEF Weights
<1>5. s[n] = t[n]
  <2> HIDE DEF n, m
  <2>1. n <= n /\ n <= m
    BY <1>1
  <2>2. Adds(s, n, Weights(f, S))
    BY <1>2 DEF Sums
  <2>3. Adds(t, m, Weights(g, S))
    BY <1>3 DEF Sums
  <2> QED BY <1>1, <1>4, <2>1, <2>2, <2>3, SumsAgree
<1>6. CASE m = n + 1
  <2>1. m \in 1..m /\ m - 1 = n /\ m \notin S
    BY <1>1, <1>6 DEF Sized
  <2>2. Weights(g, S)[m] = 0
    BY <2>1 DEF Weights
  <2>3. t[m] = t[n] + 0
    BY <1>3, <2>1, <2>2 DEF Sums, Adds
  <2>4. t[n] \in Nat
    BY <1>1, <1>3, <1>6 DEF Sums
  <2> QED BY <1>1, <1>2, <1>3, <1>5, <2>3, <2>4
<1> QED BY <1>1, <1>2, <1>3, <1>5, <1>6

-----------------------------------------------------------------------------
(***************************************************************************)
(* What the split keeps: enough of the newest records, and no more than    *)
(* one of them more.                                                       *)
(***************************************************************************)

\* The records of a branch have sizes that can be added.
LEMMA SizedRecords ==
  ASSUME NEW f \in Seq(Line), NEW b, NEW S \in SUBSET Interactions(f, b)
  PROVE  Sized(f, S)
<1>1. Interactions(f, b) \in SUBSET (1..Len(f)) /\ Len(f) \in Nat
  BY RecordIds
<1>2. \A n \in Interactions(f, b) : f[n].size \in Nat
  BY LineFields DEF Interactions
<1> QED BY <1>1, <1>2 DEF Sized

\* The records that can be kept, and what is known of the split.
LEMMA CutCases ==
  ASSUME NEW n \in Nat, NEW S \in SUBSET (1..n), Cardinality(S) >= 2, NEW f
  PROVE  /\ Min(S) \in S /\ \A k \in S : Min(S) <= k
         /\ Cut(f, S) \in Keepable(S)
         /\ Enough(f, S) = {} => \A k \in Keepable(S) : Cut(f, S) <= k
         /\ Enough(f, S) # {} => /\ Cut(f, S) \in Enough(f, S)
                                 /\ \A k \in Enough(f, S) : Cut(f, S) >= k
<1>1. Keepable(S) # {} /\ S # {}
  <2>1. SUFFICES ASSUME S \ {Min(S)} = {} PROVE FALSE
    BY DEF Keepable
  <2>2. S = {} \/ S = {Min(S)}
    BY <2>1
  <2>3. Cardinality(S) \in {0, 1}
    BY <2>2, FS_EmptySet, FS_Singleton
  <2> QED BY <2>3
<1>2. S \in SUBSET Nat /\ Keepable(S) \in SUBSET Nat
  BY LinesFinite DEF Keepable
<1>3. Enough(f, S) \subseteq Keepable(S) /\ Enough(f, S) \in SUBSET (0..n)
  BY <1>2 DEF Enough, Keepable
<1>4. Min(S) \in S /\ \A k \in S : Min(S) <= k
  BY <1>1, <1>2, MinIn
<1>5. CASE Enough(f, S) = {}
  <2>1. Min(Keepable(S)) \in Keepable(S) /\ \A k \in Keepable(S) : Min(Keepable(S)) <= k
    BY <1>1, <1>2, MinIn
  <2> QED BY <1>4, <1>5, <2>1 DEF Cut
<1>6. CASE Enough(f, S) # {}
  <2>1. /\ Max(Enough(f, S)) \in Enough(f, S)
        /\ \A k \in Enough(f, S) : Max(Enough(f, S)) >= k
    BY <1>3, <1>6, MaxIn
  <2> QED BY <1>3, <1>4, <1>6, <2>1 DEF Cut
<1> QED BY <1>5, <1>6

\* A record that is not kept, other than the oldest, has enough behind it.
LEMMA CutEnough ==
  ASSUME NEW f, NEW S, Sized(f, S), Cardinality(S) >= 2,
         NEW i \in S, i # Min(S), i < Cut(f, S)
  PROVE  Tokens(f, From(S, i + 1)) >= Keep
<1> DEFINE n == Len(f)
           c == Cut(f, S)
<1>1. n \in Nat /\ S \in SUBSET (1..n) /\ i \in Nat /\ i < c
      /\ \A k \in S : k \in Nat
  BY DEF Sized
<1>2. /\ c \in Keepable(S)
      /\ Enough(f, S) = {} => \A k \in Keepable(S) : c <= k
      /\ Enough(f, S) # {} => c \in Enough(f, S)
  <2> HIDE DEF n
  <2> QED BY <1>1, CutCases
<1> HIDE DEF n, c
<1>3. i \in Keepable(S) /\ c \in Nat
  BY <1>1, <1>2 DEF Keepable
<1>4. Enough(f, S) # {}
  BY <1>1, <1>2, <1>3
<1>5. Tokens(f, From(S, c)) >= Keep
  BY <1>2, <1>4 DEF Enough
<1>6. From(S, c) \subseteq From(S, i + 1)
  <2>1. ASSUME NEW k \in S, k >= c PROVE k >= i + 1
    <3>1. k \in Nat /\ i \in Nat /\ i < c /\ c \in Nat
      BY <1>1, <1>3
    <3> QED BY <2>1, <3>1
  <2> QED BY <2>1 DEF From
<1>7. Sized(f, From(S, c)) /\ Sized(f, From(S, i + 1))
  BY DEF Sized, From
<1>8. Tokens(f, From(S, c)) <= Tokens(f, From(S, i + 1))
  BY <1>6, <1>7, TokensMonotone
<1>9. Tokens(f, From(S, c)) \in Nat /\ Tokens(f, From(S, i + 1)) \in Nat
  BY <1>7, TokensSum
<1> QED BY <1>5, <1>8, <1>9, SettingsAssumption

\* One record, or less than keep_recent_tokens and one record.
Fits(f, kept) ==
  \/ Cardinality(kept) < 2
  \/ \E i \in kept : Tokens(f, kept) <= Keep + f[i].size - 1

\* That is how much is kept at most.
LEMMA CutFits ==
  ASSUME NEW f, NEW S, Sized(f, S), Cardinality(S) >= 2
  PROVE  Fits(f, From(S, Cut(f, S)))
<1> DEFINE n == Len(f)
           c == Cut(f, S)
           kept == From(S, c)
           newer == kept \ {c}
<1>1. n \in Nat /\ S \in SUBSET (1..n) /\ \A k \in S : k \in Nat
  BY DEF Sized
<1>2. /\ Min(S) \in S /\ \A k \in S : Min(S) <= k
      /\ c \in Keepable(S)
      /\ Enough(f, S) # {} => c \in Enough(f, S) /\ \A k \in Enough(f, S) : c >= k
  <2> HIDE DEF n
  <2> QED BY <1>1, CutCases
<1>3. SUFFICES Fits(f, kept)
  OBVIOUS
<1>4. \A k \in S : f[k].size \in Nat
  BY DEF Sized
<1> HIDE DEF n, c
<1>5. c \in S /\ c \in Nat /\ c \in kept /\ f[c].size \in Nat
  <2>1. c \in S
    BY <1>2 DEF Keepable
  <2>2. c \in Nat /\ f[c].size \in Nat
    BY <1>1, <1>4, <2>1
  <2>3. c >= c
    BY <2>2
  <2> QED BY <2>1, <2>2, <2>3 DEF From
<1>6. Sized(f, kept) /\ Sized(f, newer)
  BY DEF Sized, From
<1> HIDE DEF kept
<1>7. CASE Enough(f, S) = {}
  <2>1. ~(Tokens(f, kept) >= Keep)
    BY <1>2, <1>7 DEF Enough, kept
  <2>2. Tokens(f, kept) \in Nat
    BY <1>6, TokensSum
  <2> QED BY <1>5, <2>1, <2>2, SettingsAssumption DEF Fits
<1>8. CASE Enough(f, S) # {} /\ newer = {}
  <2>1. kept = {c}
    BY <1>5, <1>8
  <2>2. Cardinality(kept) = 1
    BY <2>1, FS_Singleton
  <2> QED BY <2>2 DEF Fits
<1>9. CASE Enough(f, S) # {} /\ newer # {}
  <2> DEFINE d == Min(newer)
  <2>1. d \in newer /\ \A k \in newer : d <= k
    <3>1. newer \in SUBSET Nat
      BY <1>1 DEF From, kept
    <3> QED BY <1>9, <3>1, MinIn
  <2> HIDE DEF d
  <2>2. d \in S /\ d \in Nat /\ d > c
    <3>1. d \in S /\ d >= c /\ d # c /\ d \in Nat
      BY <1>1, <2>1 DEF From, kept
    <3> QED BY <1>5, <3>1
  <2>3. d \in Keepable(S)
    BY <1>1, <1>2, <1>5, <2>2 DEF Keepable
  <2>4. d \notin Enough(f, S)
    BY <1>2, <1>5, <1>9, <2>2
  <2>5. From(S, d) = newer
    <3>1. ASSUME NEW k \in S PROVE k >= d <=> k >= c /\ k # c
      <4>1. k \in Nat /\ (k \in newer => d <= k) /\ (k \in newer <=> k >= c /\ k # c)
        BY <1>1, <2>1 DEF From, kept
      <4> QED BY <1>5, <2>2, <4>1
    <3> QED BY <3>1 DEF From, kept
  <2>6. ~(Tokens(f, newer) >= Keep)
    BY <2>3, <2>4, <2>5 DEF Enough, kept
  <2>7. Tokens(f, newer) \in Nat
    BY <1>6, TokensSum
  <2>8. Tokens(f, kept) = f[c].size + Tokens(f, newer)
    <3>1. IsSum(Tokens(f, kept), f[c].size, Tokens(f, newer))
      BY <1>5, <1>6, TokensAdd
    <3> QED BY <3>1 DEF IsSum
  <2> QED BY <1>5, <2>6, <2>7, <2>8, SettingsAssumption DEF Fits
<1> QED BY <1>7, <1>8, <1>9

\* A line at the end of the file changes neither tokens nor split of others.
LEMMA SameCut ==
  ASSUME file \in Seq(Line), NEW l \in Line, file' = Append(file, l), NEW b,
         NEW S \in SUBSET Interactions(file, b), Len(file') = Len(file) + 1,
         \A i \in S : file'[i] = file[i]
  PROVE  Tokens(file', S) = Tokens(file, S) /\ Cut(file', S) = Cut(file, S)
<1>1. ASSUME NEW T \in SUBSET S PROVE Tokens(file', T) = Tokens(file, T)
  <2>1. Sized(file, T)
    BY SizedRecords
  <2> QED BY <2>1, TokensAppend
<1>2. Enough(file', S) = Enough(file, S)
  <2>1. \A i : From(S, i) \in SUBSET S
    BY DEF From
  <2> QED BY <1>1, <2>1 DEF Enough
<1> QED BY <1>1, <1>2 DEF Cut

\* A plan that is there after a step was there before, or was made by it.
LEMMA PlanStep ==
  ASSUME IInv, [Next]_vars, Undisturbed, NEW p \in Apps, pc'[p] \in Planning
  PROVE  \/ pc[p] \in Planning /\ plan'[p].kept = plan[p].kept
         \/ /\ file' = file /\ Compactable(file, Loaded(p))
            /\ plan'[p].kept = file[Cut(file, Loaded(p))].id
<1>1. CASE UNCHANGED vars
  BY <1>1 DEF vars, locals
<1>2. ASSUME NEW q \in Apps, Ask(q) \/ RpcTool(q) \/ Work(q) \/ Die(q) \/ Tear(q)
      PROVE  \/ pc[p] \in Planning /\ plan'[p].kept = plan[p].kept
             \/ /\ file' = file /\ Compactable(file, Loaded(p))
                /\ plan'[p].kept = file[Cut(file, Loaded(p))].id
  <2>1. CASE p # q
    <3>1. pc'[p] = pc[p] /\ plan'[p] = plan[p]
      BY <1>2, <2>1 DEF IInv, TypeOK, Ask, RpcTool, Request, Work, Respond, Overflow,
         Store, PlanCompaction, RunHooks, Summarize, AppendCompaction, Compacted,
         Die, Tear, Goto, GotoWith, Over, locals
    <3> QED BY <3>1
  <2>2. CASE p = q
    <3>1. PlanCompaction(p) \/ RunHooks(p) \/ Summarize(p)
      BY <1>2, <2>2 DEF IInv, TypeOK, Ask, RpcTool, Request, Work, Respond, Overflow,
         Store, AppendCompaction, Compacted, Die, Tear, Goto, GotoWith, Over, locals,
         Planning
    <3>2. CASE PlanCompaction(p)
      <4>1. CASE Compactable(file, Loaded(p))
        <5>1. plan'[p] = Planned(Loaded(p)) /\ file' = file
          BY <3>2, <4>1 DEF PlanCompaction, GotoWith, fileVars, IInv, TypeOK
        <5>2. Planned(Loaded(p)).kept = file[Cut(file, Loaded(p))].id
          BY DEF Planned
        <5> QED BY <4>1, <5>1, <5>2
      <4>2. CASE ~Compactable(file, Loaded(p))
        BY <3>2, <4>2 DEF PlanCompaction, Over, Planning, IInv, TypeOK
      <4> QED BY <4>1, <4>2
    <3>3. CASE RunHooks(p)
      <4>1. pc[p] \in Planning /\ plan'[p] = plan[p]
        BY <3>3 DEF RunHooks, Undisturbed, Goto, Over, Planning, locals, IInv, TypeOK
      <4> QED BY <4>1
    <3>4. CASE Summarize(p)
      <4>1. plan[p] \in Plan /\ pc[p] \in Planning
        BY <3>4 DEF Summarize, Planning, IInv, TypeOK
      <4>2. \A x : [plan[p] EXCEPT !.covers = x].kept = plan[p].kept
        BY <4>1 DEF Plan
      <4>3. \/ plan' = plan
            \/ \E x : plan'[p] = [plan[p] EXCEPT !.covers = x]
        <5>1. CASE Goto(p, "appending")
          BY <5>1 DEF Goto, locals
        <5>2. ASSUME NEW i, GotoWith(p, "appending",
                       [plan[p] EXCEPT !.covers = Ids(file, Before(Loaded(p), i))])
              PROVE  \E x : plan'[p] = [plan[p] EXCEPT !.covers = x]
          BY <5>2 DEF GotoWith, IInv, TypeOK
        <5> QED BY <3>4, <5>1, <5>2 DEF Summarize
      <4> QED BY <4>1, <4>2, <4>3
    <3> QED BY <3>1, <3>2, <3>3, <3>4
  <2> QED BY <2>1, <2>2
<1> QED BY <1>1, <1>2 DEF Next

\* The line a step writes.
LEMMA WrittenLine ==
  ASSUME IInv, PlanInv, [Next]_vars, Undisturbed, file' # file
  PROVE  \E p \in Apps : \E l \in Line :
           /\ file' = Append(file, l) /\ l.branch = branch[p]
           /\ UNCHANGED branch /\ pc'[p] \notin Planning
           /\ \/ Store(p) /\ l.type = "interaction"
              \/ AppendCompaction(p) /\ l = Boundary(p)
<1>1. tail = "clean" /\ "tear" \notin Disruptions
  BY DEF PlanInv, Undisturbed
<1>2. PICK p \in Apps :
        \/ Store(p) /\ \E n \in Sizes : file' = Append(file, Record(p, n))
        \/ AppendCompaction(p) /\ file' = Append(file, Boundary(p))
  BY <1>1, StepWrites
<1>3. CASE Store(p)
  <2>1. prompt[p] # 0
    BY <1>3 DEF IInv, CycleInv, Store
  <2>2. PICK n \in Sizes : file' = Append(file, Record(p, n))
    BY <1>3, <1>1 DEF Store, AppendJson, WithLine
  <2>3. /\ Record(p, n) \in Line /\ Record(p, n).branch = branch[p]
        /\ Record(p, n).type = "interaction"
    BY <2>1, WrittenLines DEF IInv, Record, Interaction
  <2>4. UNCHANGED branch /\ pc'[p] \notin Planning
    BY <1>3 DEF Store, Goto, Planning, IInv, TypeOK
  <2> QED BY <1>3, <2>2, <2>3, <2>4
<1>4. CASE AppendCompaction(p)
  <2>1. file' = Append(file, Boundary(p))
    BY <1>1, <1>4 DEF AppendCompaction, AppendJson, WithLine
  <2>2. Boundary(p) \in Line /\ Boundary(p).branch = branch[p]
    BY WrittenLines DEF IInv, Boundary, Compaction
  <2>3. UNCHANGED branch /\ pc'[p] \notin Planning
    BY <1>4 DEF AppendCompaction, GotoWith, Planning, IInv, TypeOK
  <2> QED BY <1>4, <2>1, <2>2, <2>3
<1> QED BY <1>2, <1>3, <1>4

\* CutInv is an invariant where nothing tears lines or overrides plans.
THEOREM CutsKept ==
  ASSUME Undisturbed
  PROVE  SafeSpec => []CutInv
<1>1. Init => CutInv
  BY DEF Init, CutInv, Planning
<1>2. IInv /\ IInv' /\ PlanInv /\ CutInv /\ [Next]_vars => CutInv'
  <2> SUFFICES ASSUME IInv, IInv', PlanInv, CutInv, [Next]_vars, NEW p \in Apps,
                      pc'[p] \in Planning, Alone(branch[p])'
               PROVE  /\ Cardinality(Loaded(p)') >= 2
                      /\ file'[Cut(file', Loaded(p)')].id = plan'[p].kept
    BY DEF CutInv
  <2>1. UNCHANGED branch
    BY DEF Next, vars, Ask, RpcTool, Request, Work, Respond, Overflow, Store,
           PlanCompaction, RunHooks, Summarize, AppendCompaction, Compacted, Die,
           Tear, Goto, GotoWith, Over
  <2>2. Alone(branch[p])
    BY <2>1 DEF Alone
  <2>3. CASE file' = file
    <3>1. Loaded(p)' = Loaded(p)
      BY <2>1, <2>3 DEF Loaded
    <3>2. Compactable(file, Loaded(p)) => Cardinality(Loaded(p)) >= 2
      BY DEF Compactable
    <3> QED BY <2>2, <2>3, <3>1, <3>2, PlanStep DEF CutInv
  <2>4. CASE file' # file
    <3>1. PICK q \in Apps, l \in Line :
            /\ file' = Append(file, l) /\ l.branch = branch[q]
            /\ pc'[q] \notin Planning
      BY <2>4, WrittenLine
    <3>2. l.branch # branch[p]
      BY <2>2, <3>1 DEF Alone
    <3>3. pc[p] \in Planning /\ plan'[p].kept = plan[p].kept
      BY <2>4, PlanStep
    <3>4. Loaded(p)' = Loaded(p)
      BY <2>1, <3>1, <3>2, OtherBranch DEF Loaded
    <3>5. /\ file \in Seq(Line) /\ Len(file) \in Nat /\ Len(file') = Len(file) + 1
          /\ Loaded(p) \in SUBSET Interactions(file, branch[p])
          /\ Loaded(p) \in SUBSET (1..Len(file))
          /\ \A i \in 1..Len(file) : file'[i] = file[i]
      BY <3>1, LoadedLines, RecordIds, Appended DEF IInv, TypeOK, Loaded
    <3>6. Cut(file', Loaded(p)) = Cut(file, Loaded(p))
      BY <3>1, <3>5, SameCut
    <3>7. Cardinality(Loaded(p)) >= 2 /\ file[Cut(file, Loaded(p))].id = plan[p].kept
      BY <2>2, <3>3 DEF CutInv
    <3>8. Cut(file, Loaded(p)) \in Loaded(p)
      BY <3>5, <3>7, CutIn
    <3> QED BY <3>3, <3>4, <3>5, <3>6, <3>7, <3>8
  <2> QED BY <2>3, <2>4
<1> QED BY <1>1, <1>2, Inductive, PlansKept, PTL DEF SafeSpec

\* Alone on its branch, an app that appends its plan loads from the split on.
LEMMA LoadedAfter ==
  ASSUME IInv, IInv', PlanInv, CutInv, NEW p \in Apps, AppendCompaction(p),
         file' = Append(file, Boundary(p)), Alone(branch[p]),
         NEW old, old = Loaded(p)
  PROVE  /\ Sized(file, old) /\ Cardinality(old) >= 2
         /\ Load(file', branch[p]) = From(old, Cut(file, old))
         /\ LoadedIds(branch[p])' = Ids(file, From(old, Cut(file, old)))
<1> DEFINE c == Cut(file, old)
           b == branch[p]
<1>1. file \in Seq(Line) /\ Len(file) \in Nat /\ Distinct(file, b) /\ pc[p] \in Planning
  BY DistinctIds DEF IInv, TypeOK, AppendCompaction, Planning
<1>2. old \in SUBSET Interactions(file, b) /\ old \in SUBSET (1..Len(file))
  BY <1>1, LoadedLines, RecordIds DEF Loaded
<1>3. Cardinality(old) >= 2 /\ file[c].id = plan[p].kept
  BY <1>1 DEF CutInv
<1>4. c \in old
  BY <1>1, <1>2, <1>3, CutIn
<1>5. PICK i \in Interactions(file, b) : KeptFrom(p, i)
  BY <1>1 DEF PlanInv
<1>6. i = c
  BY <1>1, <1>2, <1>3, <1>4, <1>5 DEF KeptFrom, Distinct
<1>7. /\ Load(file', b) = From(Interactions(file, b), i)
      /\ LoadedIds(b)' = Ids(file, From(Interactions(file, b), i))
  <2> PICK a : a = branch[p]
    OBVIOUS
  <2>1. /\ Load(file', a) = From(Interactions(file, a), i)
        /\ LoadedIds(a)' = Ids(file, From(Interactions(file, a), i))
    BY <1>5, BoundaryIsLoaded
  <2>2. UNCHANGED branch
    BY DEF AppendCompaction, GotoWith
  <2> QED BY <2>1, <2>2 DEF LoadedIds
<1>8. From(Interactions(file, b), c) = From(old, c)
  <2> HIDE DEF c
  <2>1. ASSUME NEW j \in Interactions(file, b), j >= c PROVE j \in old
    BY <1>4, <2>1, LoadedUpwards DEF Loaded
  <2> QED BY <1>2, <2>1 DEF From
<1>9. Sized(file, old)
  BY <1>1, <1>2, SizedRecords
<1> QED BY <1>3, <1>6, <1>7, <1>8, <1>9

\* On the branch of an app alone, a compaction drops a record only if enough
\* newer ones stay, or if it is the oldest.
THEOREM RecentStay ==
  ASSUME Undisturbed
  PROVE  SafeSpec => RecentKept
<1> DEFINE A == \A b \in Branches : Alone(b) =>
                  LET old == Load(file, b) IN
                  \A i \in old :
                    i # Min(old) /\ file[i].id \notin LoadedIds(b)'
                      => Tokens(file, From(old, i + 1)) >= Keep
<1>1. IInv /\ IInv' /\ PlanInv /\ CutInv /\ [Next]_vars => A
  <2> SUFFICES ASSUME IInv, IInv', PlanInv, CutInv, [Next]_vars, NEW b \in Branches,
                      Alone(b), NEW old, old = Load(file, b), NEW i \in old,
                      i # Min(old), file[i].id \notin LoadedIds(b)'
               PROVE  Tokens(file, From(old, i + 1)) >= Keep
    OBVIOUS
  <2>1. file[i].id \in LoadedIds(b)
    BY DEF LoadedIds, Ids
  <2>2. file' # file
    BY <2>1 DEF LoadedIds
  <2>3. PICK p \in Apps, l \in Line :
          /\ file' = Append(file, l) /\ l.branch = branch[p]
          /\ \/ Store(p) /\ l.type = "interaction"
             \/ AppendCompaction(p) /\ l = Boundary(p)
    BY <2>2, WrittenLine
  <2>4. branch[p] = b
    BY <2>1, <2>3, OtherBranch
  <2>5. ~(l.type = "interaction")
    BY <2>1, <2>3, <2>4, StoredIsLoaded
  <2>6. AppendCompaction(p) /\ file' = Append(file, Boundary(p))
    BY <2>3, <2>5
  <2>7. old = Loaded(p)
    BY <2>4 DEF Loaded
  <2>8. /\ Sized(file, old) /\ Cardinality(old) >= 2
        /\ LoadedIds(b)' = Ids(file, From(old, Cut(file, old)))
    <3>1. LoadedIds(branch[p])' = Ids(file, From(old, Cut(file, old)))
      BY <2>4, <2>6, <2>7, LoadedAfter
    <3>2. Sized(file, old) /\ Cardinality(old) >= 2
      BY <2>4, <2>6, <2>7, LoadedAfter
    <3>3. UNCHANGED branch
      BY <2>6 DEF AppendCompaction, GotoWith
    <3> QED BY <2>4, <3>1, <3>2, <3>3 DEF LoadedIds
  <2>9. i < Cut(file, old)
    <3>1. ~(i >= Cut(file, old))
      BY <2>8 DEF From, Ids
    <3>2. Len(file) \in Nat /\ old \in SUBSET (1..Len(file))
      BY <2>8 DEF Sized
    <3>3. Cut(file, old) \in old
      BY <2>8, <3>2, CutIn
    <3>4. i \in Nat /\ Cut(file, old) \in Nat
      BY <3>2, <3>3
    <3> QED BY <3>1, <3>4
  <2> QED BY <2>8, <2>9, CutEnough
<1> QED BY <1>1, Inductive, PlansKept, CutsKept, PTL DEF SafeSpec, RecentKept

\* On the branch of an app alone, what is loaded after a compaction fits the
\* window less the reserve, or is one record.
THEOREM CompactionsFit ==
  ASSUME Undisturbed
  PROVE  SafeSpec => CompactionFits
<1> DEFINE A == \A b \in Branches :
                  /\ Alone(b)
                  /\ \A n \in Sizes : Keep + n - 1 <= Window - Reserve
                  /\ Compactions(file, b)' # Compactions(file, b)
                  => \/ Cardinality(Load(file, b)') < 2
                     \/ Tokens(file, Load(file, b))' <= Window - Reserve
<1>1. IInv /\ IInv' /\ PlanInv /\ CutInv /\ [Next]_vars => A
  <2> SUFFICES ASSUME IInv, IInv', PlanInv, CutInv, [Next]_vars, NEW b \in Branches,
                      Alone(b), \A n \in Sizes : Keep + n - 1 <= Window - Reserve,
                      Compactions(file', b) # Compactions(file, b)
               PROVE  \/ Cardinality(Load(file', b)) < 2
                      \/ Tokens(file', Load(file', b)) <= Window - Reserve
    OBVIOUS
  <2>1. file \in Seq(Line) /\ Len(file) \in Nat
    BY DEF IInv, TypeOK
  <2>2. file' # file
    OBVIOUS
  <2>3. PICK p \in Apps, l \in Line :
          /\ file' = Append(file, l) /\ l.branch = branch[p]
          /\ \/ Store(p) /\ l.type = "interaction"
             \/ AppendCompaction(p) /\ l = Boundary(p)
    BY <2>2, WrittenLine
  <2>4. l.type = "compaction" /\ branch[p] = b
    BY <2>1, <2>3, Appended
  <2>5. AppendCompaction(p) /\ file' = Append(file, Boundary(p))
    BY <2>3, <2>4
  <2> DEFINE old == Loaded(p)
             kept == From(old, Cut(file, old))
  <2>6. Sized(file, old) /\ Cardinality(old) >= 2 /\ Load(file', b) = kept
    BY <2>4, <2>5, LoadedAfter
  <2>7. kept \in SUBSET old /\ old \in SUBSET Interactions(file, b)
    BY <2>4, LoadedLines DEF From, Loaded
  <2>8. Fits(file, kept)
    BY <2>6, CutFits
  <2>9. Tokens(file', kept) = Tokens(file, kept)
    <3> HIDE DEF old, kept
    <3>1. \A i \in kept : file'[i] = file[i]
      BY <2>1, <2>3, <2>7, Appended
    <3>2. Len(file') = Len(file) + 1
      BY <2>1, <2>3
    <3> QED BY <2>1, <2>3, <2>7, <3>1, <3>2, SameCut
  <2>10. ASSUME NEW i \in kept, Tokens(file, kept) <= Keep + file[i].size - 1
         PROVE  Tokens(file, kept) <= Window - Reserve
    <3> HIDE DEF kept
    <3>1. file[i].size \in Sizes /\ file[i].size \in Nat
      <4>1. file[i] \in Line /\ file[i].type = "interaction"
        BY <2>1, <2>7 DEF Interactions
      <4> QED BY <4>1, LineFields DEF Line, Garbage
    <3>2. Keep + file[i].size - 1 <= Window - Reserve
      BY <3>1
    <3>3. Tokens(file, kept) \in Nat
      <4>1. Sized(file, kept)
        BY <2>6, <2>7 DEF Sized
      <4> QED BY <4>1, TokensSum
    <3> QED BY <2>10, <3>1, <3>2, <3>3, SettingsAssumption
  <2> HIDE DEF kept
  <2> QED BY <2>6, <2>8, <2>9, <2>10 DEF Fits
<1> QED BY <1>1, Inductive, PlansKept, CutsKept, PTL DEF SafeSpec, CompactionFits
=============================================================================
