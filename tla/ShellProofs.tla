---------------------------- MODULE ShellProofs -----------------------------
(***************************************************************************)
(* Proofs about ShellRun, for every value of the constants: the limits     *)
(* bound what runs and what is returned, a pipe carries what the command   *)
(* before left, an and-or list skips what its value does not need, bash    *)
(* returns the output of the steps, and files hold what was redirected to  *)
(* them.  The log is the history all of these speak of, so the invariants  *)
(* say how the variables follow it, and most lemmas what one entry more    *)
(* does to what is read from it.                                           *)
(***************************************************************************)
EXTENDS ShellRun, FiniteSetTheorems, SequenceTheorems, Induction, TLAPS

Entries(l) == {l[i] : i \in 1..Len(l)}
StepsOf(l) == {l[i].step : i \in 1..Len(l)}

InPipeline == {"command", "running"}

PipelineType == [condition: Conditions, place: Nat, input: Seq(Chunk), stderr: Seq(Chunk)]
BudgetType == [pipelines: Nat, commands: Nat, output: Nat]

ControlInv ==
  /\ steps \in Seq([condition: Conditions, exit: ExitCodes \cup {Skipped}])
  /\ pipeline \in PipelineType
  /\ budget \in BudgetType
  /\ late \in BOOLEAN
  /\ pc = "running" => command.kind \in Kinds
  /\ log \in Seq(Entries(log))

\* Every command that ended was counted, and so was the pipeline it was in.
CountInv ==
  /\ Len(log) <= MaxCommands /\ Len(log) <= budget.commands
  /\ pc = "running" => Len(log) < budget.commands /\ budget.commands <= MaxCommands
  /\ IsFiniteSet(StepsOf(log)) /\ Cardinality(StepsOf(log)) <= MaxPipelines
  /\ pc = "step" => Cardinality(StepsOf(log)) <= budget.pipelines
  /\ pc \in InPipeline =>
       /\ Cardinality(StepsOf(log) \cup {Len(steps) + 1}) <= budget.pipelines
       /\ budget.pipelines <= MaxPipelines

\* No command runs after one that ended late.
LateInv ==
  /\ \A i \in 1..Len(log) : log[i].late => late /\ i = Len(log)
  /\ pc = "running" => \A i \in 1..Len(log) : ~log[i].late

\* The input of the pipeline at work is what its last command left.
FedInv ==
  /\ pc \in InPipeline =>
       IF pipeline.place = 0 THEN pipeline.input = <<>>
       ELSE /\ Len(log) > 0
            /\ log[Len(log)].step = Len(steps) + 1 /\ log[Len(log)].exit = 0
            /\ log[Len(log)].visible = pipeline.input
  /\ pc = "running" /\ Reads(command.redirections) = {} =>
       command.input = pipeline.input

FedEntry(l, i) ==
  Reads(l[i].redirections) = {} =>
    IF l[i].place = 1 THEN l[i].input = <<>>
    ELSE /\ i > 1
         /\ l[i - 1].step = l[i].step /\ l[i - 1].exit = 0
         /\ l[i].input = l[i - 1].visible

PipeInv == FedInv /\ \A i \in 1..Len(log) : FedEntry(log, i)

USE DEF PipelineType, BudgetType

-----------------------------------------------------------------------------
\* One entry more, whatever the entries are.
LEMMA Appended ==
  ASSUME NEW s, s \in Seq(Entries(s)), NEW e
  PROVE  LET a == Append(s, e) IN
           /\ Len(s) \in Nat /\ Len(a) = Len(s) + 1
           /\ a[Len(s) + 1] = e
           /\ \A i \in 1..Len(s) : a[i] = s[i]
           /\ a \in Seq(Entries(a))
<1> DEFINE a == Append(s, e)
           S == Entries(s) \cup {e}
<1>1. s \in Seq(S) /\ e \in S
  OBVIOUS
<1>2. /\ Len(s) \in Nat /\ Len(a) = Len(s) + 1 /\ a \in Seq(S)
      /\ a[Len(s) + 1] = e /\ \A i \in 1..Len(s) : a[i] = s[i]
  BY <1>1
<1> HIDE DEF a
<1>3. a \in [1..Len(a) -> S]
  BY <1>2, LenProperties
<1>4. \A i \in 1..Len(a) : a[i] \in Entries(a)
  BY DEF Entries
<1>5. a \in [1..Len(a) -> Entries(a)]
  BY <1>3, <1>4
<1>6. a \in Seq(Entries(a))
  BY <1>2, <1>5
<1> QED BY <1>2, <1>6 DEF a

\* What a handler returns.
LEMMA ResultTypes ==
  ASSUME NEW kind \in Kinds, NEW result \in Success(kind) \cup Failure(kind)
  PROVE  result.exit \in ExitCodes /\ result.out \in 0..MaxSize /\ result.err \in 0..1
<1>1. MaxSize \in Nat
  BY ShellAssumption
<1>2. CASE kind = "builtin"
  BY <1>1, <1>2 DEF Success, Failure, ExitCodes
<1>3. CASE kind = "cd"
  BY <1>1, <1>3 DEF Success, Failure, ExitCodes
<1>4. CASE kind = "external"
  BY <1>1, <1>4 DEF Success, Failure, ExitCodes
<1> QED BY <1>2, <1>3, <1>4 DEF Kinds

\* What it writes is text.
LEMMA TextTypes ==
  ASSUME Len(log) \in Nat, Len(log) <= MaxCommands, NEW size \in 0..(MaxSize + 1)
  PROVE  Text(size) \in Seq(Chunk) /\ Visible(size) \in Seq(Chunk)
<1>1. MaxSize \in Nat /\ MaxCommands \in Nat
  BY ShellAssumption
<1>2. size # 0 => [by |-> Len(log) + 1, size |-> size] \in Chunk
  BY <1>1 DEF Chunk
<1>3. Text(size) \in Seq(Chunk)
  BY <1>2 DEF Text
<1> QED BY <1>3 DEF Visible

\* The pipeline before its first command is one.
LEMMA NoPipelineTypes ==
  NoPipeline \in PipelineType
<1>1. <<>> \in Seq(Chunk)
  OBVIOUS
<1> QED BY <1>1 DEF NoPipeline, Conditions

\* What the counters and the pipeline hold.
LEMMA BudgetFields ==
  ASSUME NEW b \in BudgetType
  PROVE  b.pipelines \in Nat /\ b.commands \in Nat /\ b.output \in Nat
OBVIOUS

\* And what a pipeline holds.
LEMMA PipelineFields ==
  ASSUME NEW p \in PipelineType
  PROVE  /\ p.condition \in Conditions /\ p.place \in Nat
         /\ p.input \in Seq(Chunk) /\ p.stderr \in Seq(Chunk)
OBVIOUS

\* The counter of commands is the only one that NoteCommand moves.
LEMMA CommandNoted ==
  ASSUME budget \in BudgetType, NoteCommand
  PROVE  /\ budget' \in BudgetType
         /\ budget'.commands = budget.commands + 1
         /\ budget'.pipelines = budget.pipelines /\ budget'.output = budget.output
BY DEF NoteCommand

-----------------------------------------------------------------------------
(***************************************************************************)
(* Texts: their size, and their concatenation.                             *)
(***************************************************************************)

\* Size adds the sizes of the chunks.
LEMMA SizeSums ==
  ASSUME NEW text \in Seq(Chunk)
  PROVE  LET w == [n \in 1..Len(text) |-> text[n].size] IN
         /\ Len(text) \in Nat /\ w \in [1..Len(text) -> Nat]
         /\ \E s : Sums(s, Len(text), w) /\ Size(text) = s[Len(text)]
<1> DEFINE k == Len(text)
           w == [n \in 1..Len(text) |-> text[n].size]
<1>1. k \in Nat /\ w \in [1..k -> Nat]
  <2>1. \A n \in 1..k : text[n] \in Chunk
    OBVIOUS
  <2>2. \A c \in Chunk : c.size \in Nat
    BY ShellAssumption DEF Chunk
  <2> QED BY <2>1, <2>2
<1>2. PICK s : Sums(s, k, w)
  <2> HIDE DEF k, w
  <2> QED BY <1>1, SumsExist
<1> DEFINE Walk(u) == u = [n \in 0 .. k |->
                             IF n = 0 THEN 0 ELSE u[n - 1] + text[n].size]
           c == CHOOSE u : Walk(u)
<1>3. Walk(s)
  <2>1. \A n \in 1..k : s[n] = s[n - 1] + text[n].size
    BY <1>2 DEF Sums, Adds
  <2>2. \A n \in 0..k : n # 0 => n \in 1..k
    OBVIOUS
  <2> HIDE DEF k
  <2> QED BY <1>2, <2>1, <2>2 DEF Sums, Adds
<1>4. Walk(c)
  <2> HIDE DEF Walk
  <2> QED BY <1>3
<1>5. Adds(c, k, w)
  <2> HIDE DEF c
  <2>1. 0 \in 0..k /\ \A n \in 1..k : n \in 0..k /\ n # 0
    BY <1>1
  <2>2. c[0] = 0
    BY <1>4, <2>1
  <2>3. ASSUME NEW n \in 1..k PROVE c[n] = c[n - 1] + w[n]
    <3>1. c[n] = c[n - 1] + text[n].size
      BY <1>4, <2>1
    <3> QED BY <3>1
  <2> QED BY <2>2, <2>3 DEF Adds
<1>6. c[k] = s[k]
  <2> HIDE DEF c, w, Walk, k
  <2>1. k \in Nat /\ k <= k /\ \A i \in 1..k : w[i] = w[i]
    BY <1>1
  <2>2. Adds(s, k, w)
    BY <1>2 DEF Sums
  <2> QED BY <1>5, <2>1, <2>2, SumsAgree
<1>7. Size(text) = c[k]
  BY DEF Size
<1> QED BY <1>1, <1>2, <1>6, <1>7

\* The size of two texts one after the other is that of both.
LEMMA SizeConcat ==
  ASSUME NEW a \in Seq(Chunk), NEW b \in Seq(Chunk)
  PROVE  /\ IsSum(Size(a \o b), Size(a), Size(b))
         /\ Size(a) \in Nat /\ Size(b) \in Nat
<1> DEFINE u == [n \in 1..Len(a) |-> a[n].size]
           v == [n \in 1..Len(b) |-> b[n].size]
           w == [n \in 1..Len(a \o b) |-> (a \o b)[n].size]
<1>1. /\ a \o b \in Seq(Chunk) /\ Len(a \o b) = Len(a) + Len(b)
      /\ \A i \in 1..Len(a) : (a \o b)[i] = a[i]
      /\ \A i \in 1..Len(b) : (a \o b)[Len(a) + i] = b[i]
  OBVIOUS
<1>2. PICK r : Sums(r, Len(a), u) /\ Size(a) = r[Len(a)]
  BY SizeSums
<1>3. PICK s : Sums(s, Len(b), v) /\ Size(b) = s[Len(b)]
  BY SizeSums
<1>4. PICK t : Sums(t, Len(a \o b), w) /\ Size(a \o b) = t[Len(a \o b)]
  BY <1>1, SizeSums
<1>5. /\ Len(a) \in Nat /\ Len(b) \in Nat /\ v \in [1..Len(b) -> Nat]
      /\ Joined(w, Len(a), u, Len(b), v)
  <2>1. Len(a) \in Nat /\ Len(b) \in Nat /\ v \in [1..Len(b) -> Nat]
    BY SizeSums
  <2>2. \A i \in 1..Len(a) : i \in 1..Len(a \o b)
    BY <1>1, <2>1
  <2>3. \A i \in 1..Len(b) : Len(a) + i \in 1..Len(a \o b)
    BY <1>1, <2>1
  <2> QED BY <1>1, <2>1, <2>2, <2>3 DEF Joined
<1> DEFINE n == Len(a)
           m == Len(b)
<1>6. Sums(r, n, u) /\ Sums(s, m, v) /\ Sums(t, n + m, w) /\ n \in Nat /\ m \in Nat
      /\ v \in [1..m -> Nat] /\ Joined(w, n, u, m, v)
  BY <1>1, <1>2, <1>3, <1>4, <1>5
<1>7. IsSum(t[n + m], r[n], s[m])
  <2> HIDE DEF n, m, u, v, w
  <2> QED BY <1>6, SumsJoined
<1>8. r[n] \in Nat /\ s[m] \in Nat
  <2> HIDE DEF n, m, u, v, w
  <2> QED BY <1>6 DEF Sums
<1> QED BY <1>1, <1>2, <1>3, <1>4, <1>7, <1>8

\* The text of one chunk, or of none, has the size it is made of.
LEMMA SizeText ==
  ASSUME Len(log) \in Nat, Len(log) <= MaxCommands, NEW size \in 0..(MaxSize + 1)
  PROVE  Size(Text(size)) = size
<1>1. Text(size) \in Seq(Chunk) /\ size \in Nat
  BY TextTypes, ShellAssumption
<1>2. PICK s : /\ Sums(s, Len(Text(size)), [n \in 1..Len(Text(size)) |-> Text(size)[n].size])
               /\ Size(Text(size)) = s[Len(Text(size))]
  BY <1>1, SizeSums
<1>3. CASE size = 0
  <2>1. Len(Text(size)) = 0
    BY <1>3 DEF Text
  <2> QED BY <1>2, <1>3, <2>1 DEF Sums, Adds
<1>4. CASE size # 0
  <2>1. Len(Text(size)) = 1 /\ Text(size)[1].size = size
    BY <1>4 DEF Text
  <2>2. s[0] = 0 /\ s[1] = s[0] + size
    BY <1>2, <2>1 DEF Sums, Adds
  <2> QED BY <1>1, <1>2, <2>1, <2>2
<1> QED BY <1>3, <1>4

\* r joins the texts of s from the first on.
Joins(r, s) == r[0] = <<>> /\ \A i \in 1..Len(s) : r[i] = r[i - 1] \o s[i]

\* FlattenSeq joins texts.
LEMMA FlattenJoins ==
  ASSUME NEW T, NEW s \in Seq(Seq(T))
  PROVE  \E r \in [0..Len(s) -> Seq(T)] : Joins(r, s) /\ FlattenSeq(s) = r[Len(s)]
<1> DEFINE k == Len(s)
           step == [i \in 1..k |-> [d \in Seq(T) |-> d \o s[i]]]
<1>1. k \in Nat /\ \A i \in 1..k : s[i] \in Seq(T)
  OBVIOUS
<1>2. step \in [1..k -> [Seq(T) -> Seq(T)]] /\ <<>> \in Seq(T)
  BY <1>1, ConcatProperties
<1>3. \A i \in 1..k : \A d \in Seq(T) : step[i][d] = d \o s[i]
  OBVIOUS
<1>4. PICK r \in [0..k -> Seq(T)] : Recurs(r, k, <<>>, step)
  <2> HIDE DEF step, k
  <2> QED BY <1>1, <1>2, Recursion
<1>5. Joins(r, s)
  <2> HIDE DEF step
  <2>1. ASSUME NEW i \in 1..k PROVE r[i] = r[i - 1] \o s[i]
    <3>1. i - 1 \in 0..k
      BY <1>1
    <3>2. r[i - 1] \in Seq(T) /\ r[i] = step[i][r[i - 1]]
      BY <1>4, <3>1 DEF Recurs
    <3> QED BY <1>3, <3>2
  <2> QED BY <1>4, <2>1 DEF Joins, Recurs
<1> HIDE DEF step
<1>6. ASSUME NEW i \in 1..k, i = 1 PROVE r[i] = s[i]
  <2>1. r[i] = r[i - 1] \o s[i]
    BY <1>5 DEF Joins
  <2>2. i - 1 = 0 /\ r[0] = <<>>
    BY <1>5, <1>6 DEF Joins
  <2>3. s[i] \in Seq(T)
    BY <1>1
  <2> QED BY <2>1, <2>2, <2>3, ConcatEmptySeq
<1>7. CASE k = 0
  <2>1. s = <<>> /\ FlattenSeq(s) = s
    BY <1>7 DEF FlattenSeq
  <2> QED BY <1>5, <1>7, <2>1 DEF Joins
<1>8. CASE k # 0
  <2> DEFINE Walk(u) == u = [i \in 1..k |-> IF i = 1 THEN s[i] ELSE u[i - 1] \o s[i]]
             c == CHOOSE u : Walk(u)
             v == [i \in 1..k |-> r[i]]
  <2>1. Walk(v)
    <3>1. ASSUME NEW i \in 1..k
          PROVE  r[i] = IF i = 1 THEN s[i] ELSE v[i - 1] \o s[i]
      <4>1. CASE i = 1
        BY <1>6, <4>1
      <4>2. CASE i # 1
        <5>1. i - 1 \in 1..k
          BY <1>1, <4>2
        <5> QED BY <1>5, <4>2, <5>1 DEF Joins
      <4> QED BY <4>1, <4>2
    <3> HIDE DEF k
    <3> QED BY <3>1
  <2>2. Walk(c)
    <3> HIDE DEF Walk
    <3> QED BY <2>1
  <2> HIDE DEF c
  <2> DEFINE S == {i \in 0..k : i # 0 => c[i] = r[i]}
  <2>3. 0 \in S
    BY <1>1
  <2>4. ASSUME NEW j \in 0..(k - 1), j \in S PROVE j + 1 \in S
    <3>1. PICK i \in 1..k : i = j + 1
      BY <1>1, <2>4
    <3>2. c[i] = IF i = 1 THEN s[i] ELSE c[i - 1] \o s[i]
      BY <2>2
    <3>3. CASE i = 1
      <4>1. c[i] = r[i]
        BY <1>6, <3>2, <3>3
      <4> QED BY <1>1, <3>1, <4>1
    <3>4. CASE i # 1
      <4>1. i - 1 = j /\ j # 0
        BY <3>1, <3>4
      <4>2. c[i] = r[j] \o s[i] /\ r[i] = r[j] \o s[i]
        BY <1>5, <2>4, <3>2, <3>4, <4>1 DEF Joins
      <4>3. c[i] = r[i]
        BY <4>2
      <4> QED BY <1>1, <3>1, <4>3
    <3> QED BY <3>3, <3>4
  <2>5. 0..k \subseteq S
    <3> HIDE DEF S, k
    <3> QED BY <1>1, <2>3, <2>4, BoundedInduction
  <2>6. c[k] = r[k]
    BY <1>1, <1>8, <2>5
  <2>7. FlattenSeq(s) = c[k]
    BY <1>8 DEF FlattenSeq, c
  <2> QED BY <1>5, <2>6, <2>7
<1> QED BY <1>7, <1>8

\* What sequences agree in is joined alike.
Agree(s, t, n) == \A i \in 1..n : s[i] = t[i]

\* The first n texts, if they are the same.
LEMMA JoinsAgree ==
  ASSUME NEW s, NEW t, NEW n \in Nat, n <= Len(s), n <= Len(t),
         Len(s) \in Nat, Len(t) \in Nat, Agree(s, t, n),
         NEW r, Joins(r, s), NEW q, Joins(q, t)
  PROVE  r[n] = q[n]
<1> DEFINE S == {j \in 0..n : r[j] = q[j]}
<1>1. 0 \in S
  BY DEF Joins
<1>2. ASSUME NEW j \in 0..(n - 1), j \in S PROVE j + 1 \in S
  <2>1. PICK i \in 1..n : i = j + 1
    BY <1>2
  <2>2. i \in 1..Len(s) /\ i \in 1..Len(t) /\ i - 1 = j
    BY <2>1
  <2>3. r[i] = r[j] \o s[i] /\ q[i] = q[j] \o s[i]
    BY <2>1, <2>2 DEF Joins, Agree
  <2>4. r[i] = q[i]
    BY <1>2, <2>3
  <2> QED BY <2>1, <2>4
<1>3. 0..n \subseteq S
  <2> HIDE DEF S
  <2> QED BY <1>1, <1>2, BoundedInduction
<1>4. n \in 0..n
  OBVIOUS
<1> QED BY <1>3, <1>4

\* One sequence more is joined at the end.
LEMMA FlattenAppend ==
  ASSUME NEW T, NEW s \in Seq(Seq(T)), NEW e \in Seq(T)
  PROVE  /\ FlattenSeq(s) \in Seq(T) /\ FlattenSeq(Append(s, e)) \in Seq(T)
         /\ FlattenSeq(Append(s, e)) = FlattenSeq(s) \o e
<1> DEFINE t == Append(s, e)
           k == Len(s)
<1>1. /\ t \in Seq(Seq(T)) /\ Len(t) = k + 1 /\ k \in Nat
      /\ t[k + 1] = e /\ \A i \in 1..k : s[i] = t[i]
  OBVIOUS
<1>2. PICK r \in [0..k -> Seq(T)] : Joins(r, s) /\ FlattenSeq(s) = r[k]
  BY FlattenJoins
<1>3. PICK q \in [0..(k + 1) -> Seq(T)] : Joins(q, t) /\ FlattenSeq(t) = q[k + 1]
  <2> HIDE DEF t
  <2>1. PICK q \in [0..Len(t) -> Seq(T)] : Joins(q, t) /\ FlattenSeq(t) = q[Len(t)]
    BY <1>1, FlattenJoins
  <2> QED BY <1>1, <2>1
<1>4. q[k] = r[k]
  <2> HIDE DEF t
  <2>1. /\ k \in Nat /\ k <= Len(s) /\ k <= Len(t)
        /\ Len(s) \in Nat /\ Len(t) \in Nat
    BY <1>1
  <2>2. Agree(s, t, k)
    BY <1>1 DEF Agree
  <2>3. Joins(r, s) /\ Joins(q, t)
    BY <1>2, <1>3
  <2> HIDE DEF k
  <2> QED BY <2>1, <2>2, <2>3, JoinsAgree
<1>5. q[k + 1] = q[k] \o e
  <2>1. PICK i : i = k + 1 /\ i \in 1..Len(t) /\ i - 1 = k
    BY <1>1
  <2>2. q[i] = q[i - 1] \o t[i]
    BY <1>3, <2>1 DEF Joins
  <2> QED BY <1>1, <2>1, <2>2
<1>6. r[k] \in Seq(T) /\ q[k + 1] \in Seq(T)
  <2>1. k \in 0..k /\ k + 1 \in 0..(k + 1)
    BY <1>1
  <2> HIDE DEF k
  <2> QED BY <2>1
<1> QED BY <1>2, <1>3, <1>4, <1>5, <1>6

\* Empty sequences are joined to an empty one.
LEMMA FlattenEmpty ==
  ASSUME NEW T, NEW s \in Seq(Seq(T)), \A i \in 1..Len(s) : s[i] = <<>>
  PROVE  FlattenSeq(s) = <<>>
<1> DEFINE n == Len(s)
<1>1. n \in Nat
  OBVIOUS
<1>2. PICK r \in [0..n -> Seq(T)] : Joins(r, s) /\ FlattenSeq(s) = r[n]
  BY FlattenJoins
<1> DEFINE S == {j \in 0..n : r[j] = <<>>}
<1>3. 0 \in S
  BY <1>1, <1>2 DEF Joins
<1>4. ASSUME NEW j \in 0..(n - 1), j \in S PROVE j + 1 \in S
  <2>1. PICK i \in 1..n : i = j + 1
    BY <1>1, <1>4
  <2>2. i - 1 = j
    BY <2>1
  <2>3. r[i] = <<>> \o <<>>
    BY <1>2, <1>4, <2>2 DEF Joins
  <2> QED BY <1>1, <2>1, <2>3
<1>5. 0..n \subseteq S
  <2> HIDE DEF S, n
  <2> QED BY <1>1, <1>3, <1>4, BoundedInduction
<1> QED BY <1>1, <1>2, <1>5

-----------------------------------------------------------------------------
\* A command ends: its entry is added, its output written and counted, and it
\* ends its pipeline, goes on in it, or ends the program at a limit.
LEMMA CommandCases ==
  ASSUME ControlInv, CountInv, CommandEnds
  PROVE  \E result \in Success(command.kind) \cup Failure(command.kind) :
           /\ result.exit \in ExitCodes /\ result.out \in 0..MaxSize
           /\ Logged(result) /\ NoteOutput(result)
           /\ files' = Written(command.redirections, Text(result.out))
           /\ \/ LimitError(OverLimit)
              \/ /\ \/ ClosePipeline(result)
                    \/ result.exit = 0 /\ NextCommand(result)
                 /\ cwd' = result.next /\ command' = NoCommand
                 /\ UNCHANGED exitCode /\ budget'.output <= MaxOutput
           /\ budget' \in BudgetType
           /\ budget'.pipelines = budget.pipelines
           /\ budget'.commands = budget.commands
           /\ Text(result.out) \in Seq(Chunk)
           /\ Visible(result.out) \in Seq(Chunk)
           /\ Text(result.err) \in Seq(Chunk)
           /\ budget.output <= MaxOutput => budget'.output <= MaxOutput + MaxSize + 1
           /\ budget'.output <= MaxOutput =>
                budget'.output = budget.output + Size(Visible(result.out))
                                               + Size(Text(result.err))
<1>1. PICK result \in Success(command.kind) \cup Failure(command.kind) :
        /\ Logged(result) /\ NoteOutput(result)
        /\ files' = Written(command.redirections, Text(result.out))
        /\ IF budget'.output > MaxOutput
           THEN LimitError(OverLimit)
           ELSE /\ \/ ClosePipeline(result)
                   \/ result.exit = 0 /\ NextCommand(result)
                /\ cwd' = result.next /\ command' = NoCommand
                /\ UNCHANGED exitCode
  BY DEF CommandEnds
<1>2. /\ command.kind \in Kinds /\ Len(log) \in Nat /\ Len(log) <= MaxCommands
      /\ budget \in BudgetType
  BY DEF CommandEnds, ControlInv, CountInv
<1>3. result.exit \in ExitCodes /\ result.out \in 0..MaxSize /\ result.err \in 0..1
  BY <1>2, ResultTypes
<1>4. /\ result.out \in 0..(MaxSize + 1) /\ result.err \in 0..(MaxSize + 1)
      /\ MaxSize \in Nat /\ MaxOutput \in Nat
  BY <1>3, ShellAssumption
<1>5. /\ Text(result.out) \in Seq(Chunk) /\ Visible(result.out) \in Seq(Chunk)
      /\ Text(result.err) \in Seq(Chunk)
  BY <1>2, <1>4, TextTypes
<1> DEFINE out == IF Visible(result.out) = <<>> THEN 0 ELSE result.out
           noted == budget.output + out
           n == IF noted > MaxOutput THEN noted ELSE noted + result.err
<1>6. out = Size(Visible(result.out)) /\ result.err = Size(Text(result.err))
  <2>1. Size(Text(result.out)) = result.out /\ Size(Text(result.err)) = result.err
    BY <1>2, <1>4, SizeText
  <2>2. Size(Text(0)) = 0 /\ Text(0) = <<>>
    <3>1. 0 \in 0..(MaxSize + 1)
      BY <1>4
    <3> QED BY <1>2, <3>1, SizeText DEF Text
  <2>3. result.out # 0 => Text(result.out) # <<>>
    BY DEF Text
  <2> QED BY <2>1, <2>2, <2>3 DEF Visible
<1>7. budget' = [budget EXCEPT !.output = n]
  BY <1>1 DEF NoteOutput
<1>8. out \in 0..MaxSize /\ result.err \in 0..1 /\ budget.output \in Nat
  BY <1>2, <1>3, <1>4
<1> HIDE DEF out
<1>9. /\ n \in Nat
      /\ budget.output <= MaxOutput => n <= MaxOutput + MaxSize + 1
      /\ n <= MaxOutput => n = budget.output + out + result.err
  BY <1>4, <1>8
<1> HIDE DEF n
<1>10. /\ budget' \in BudgetType
       /\ budget'.pipelines = budget.pipelines
       /\ budget'.commands = budget.commands
       /\ budget'.output = n
  BY <1>2, <1>7, <1>9
<1>11. ~(budget'.output > MaxOutput) => budget'.output <= MaxOutput
  BY <1>4, <1>9, <1>10
<1> QED BY <1>1, <1>3, <1>5, <1>6, <1>9, <1>10, <1>11

\* Every step keeps the control.
LEMMA ControlStep ==
  ASSUME ControlInv, CountInv, Next
  PROVE  ControlInv'
<1> USE DEF ControlInv
<1>1. ASSUME NEW code, LimitError(code), UNCHANGED <<late, log>>,
             budget' \in BudgetType
      PROVE  ControlInv'
  BY <1>1, NoPipelineTypes DEF LimitError, InPipeline, Entries
<1>2. CASE SkipStep
  <2>1. NextCondition \subseteq Conditions
    BY DEF NextCondition, Conditions
  <2>2. PICK c \in Conditions : steps' = Append(steps, [condition |-> c, exit |-> Skipped])
    BY <1>2, <2>1 DEF SkipStep
  <2>3. steps' \in Seq([condition: Conditions, exit: ExitCodes \cup {Skipped}])
    BY <2>2
  <2> QED BY <1>2, <2>3 DEF SkipStep, InPipeline, Entries
<1>3. CASE StartStep
  <2>1. PICK c \in NextCondition :
          IF ~TimeRemains
          THEN LimitError(TimedOut) /\ UNCHANGED budget
          ELSE /\ budget' = [budget EXCEPT !.pipelines = @ + 1]
               /\ IF budget'.pipelines > MaxPipelines
                  THEN LimitError(OverLimit)
                  ELSE /\ OpenPipeline(c)
                       /\ UNCHANGED <<steps, lastExit, cwd, command, stdout,
                                      stderr, exitCode>>
    BY <1>3 DEF StartStep
  <2>2. c \in Conditions
    BY DEF NextCondition, Conditions
  <2>3. budget' \in BudgetType
    BY <2>1
  <2>4. UNCHANGED <<late, log>>
    BY <1>3 DEF StartStep
  <2>5. CASE OpenPipeline(c) /\ UNCHANGED steps
    <3>1. /\ pipeline' \in PipelineType
          /\ pc' = "command"
      BY <2>2, <2>5, NoPipelineTypes DEF OpenPipeline
    <3> QED BY <2>3, <2>4, <2>5, <3>1 DEF Entries
  <2> QED BY <2>1, <2>3, <2>4, <2>5, <1>1
<1>4. CASE End
  BY <1>4 DEF End, InPipeline, Entries
<1>5. CASE StartCommand
  <2>1. UNCHANGED <<late, log>> /\ budget' \in BudgetType
    BY <1>5, CommandNoted DEF StartCommand
  <2>2. CASE \E code \in {TimedOut, OverLimit} : LimitError(code)
    BY <2>1, <2>2, <1>1
  <2>3. CASE pc' = "running" /\ command'.kind \in Kinds /\ UNCHANGED <<steps, pipeline>>
    BY <2>1, <2>3 DEF InPipeline, Entries
  <2> QED BY <1>5, <2>2, <2>3 DEF StartCommand
<1>6. CASE Refuse \/ HandlerRaises \/ WriteFails
  <2>1. /\ pc' = "raised" /\ pipeline' = NoPipeline /\ UNCHANGED <<steps, late, log>>
        /\ budget' \in BudgetType
    <3>1. CASE Refuse
      BY <3>1, CommandNoted DEF Refuse, Raise
    <3>2. CASE HandlerRaises
      BY <3>2 DEF HandlerRaises, Raise
    <3>3. CASE WriteFails
      BY <3>3 DEF WriteFails, Raise
    <3> QED BY <1>6, <3>1, <3>2, <3>3
  <2> QED BY <2>1, NoPipelineTypes DEF InPipeline, Entries
<1>7. CASE CommandEnds
  <2>1. PICK result :
          /\ result.exit \in ExitCodes /\ Logged(result)
          /\ \/ LimitError(OverLimit)
             \/ ClosePipeline(result)
             \/ result.exit = 0 /\ NextCommand(result)
          /\ budget' \in BudgetType
          /\ Visible(result.out) \in Seq(Chunk)
          /\ Text(result.err) \in Seq(Chunk)
    BY <1>7, CommandCases
  <2>2. log' \in Seq(Entries(log')) /\ UNCHANGED late
    BY <1>7, <2>1, Appended DEF Logged, CommandEnds
  <2>3. /\ pipeline.stderr \in Seq(Chunk) /\ pipeline.condition \in Conditions
        /\ pipeline.place \in Nat /\ pc = "running"
    BY <1>7 DEF CommandEnds
  <2>4. CASE LimitError(OverLimit)
    BY <2>1, <2>2, <2>4, NoPipelineTypes DEF LimitError, InPipeline
  <2>5. CASE ClosePipeline(result)
    <3>1. steps' \in Seq([condition: Conditions, exit: ExitCodes \cup {Skipped}])
      BY <2>1, <2>3, <2>5 DEF ClosePipeline
    <3> QED BY <2>1, <2>2, <2>5, <3>1, NoPipelineTypes DEF ClosePipeline, InPipeline
  <2>6. CASE NextCommand(result)
    <3>1. PipelineStderr(result) \in Seq(Chunk)
      BY <2>1, <2>3, ConcatProperties DEF PipelineStderr
    <3>2. pipeline' \in PipelineType
      BY <2>1, <2>3, <2>6, <3>1 DEF NextCommand
    <3> QED BY <2>1, <2>2, <2>6, <3>2 DEF NextCommand, InPipeline
  <2> QED BY <2>1, <2>4, <2>5, <2>6
<1>8. CASE ExternalTimesOut
  BY <1>8, <1>1 DEF ExternalTimesOut
<1>9. CASE Deadline
  BY <1>9 DEF Deadline, InPipeline, Entries
<1> QED BY <1>2, <1>3, <1>4, <1>5, <1>6, <1>7, <1>8, <1>9 DEF Next

-----------------------------------------------------------------------------
\* What an entry more does to the set of steps.
LEMMA StepsAppended ==
  ASSUME NEW s, s \in Seq(Entries(s)), NEW e
  PROVE  StepsOf(Append(s, e)) = StepsOf(s) \cup {e.step}
<1> DEFINE a == Append(s, e)
<1>1. /\ Len(s) \in Nat /\ Len(a) = Len(s) + 1 /\ a[Len(s) + 1] = e
      /\ \A i \in 1..Len(s) : a[i] = s[i]
  BY Appended
<1> HIDE DEF a
<1>2. ASSUME NEW i \in 1..Len(a) PROVE a[i].step \in StepsOf(s) \cup {e.step}
  BY <1>1 DEF StepsOf
<1>3. ASSUME NEW i \in 1..Len(s) PROVE s[i].step \in StepsOf(a)
  BY <1>1 DEF StepsOf
<1>4. e.step \in StepsOf(a)
  BY <1>1 DEF StepsOf
<1>5. StepsOf(a) \subseteq StepsOf(s) \cup {e.step}
  BY <1>2 DEF StepsOf
<1>6. StepsOf(s) \subseteq StepsOf(a)
  BY <1>3 DEF StepsOf
<1> QED BY <1>4, <1>5, <1>6 DEF a

\* Every step keeps the counters right.
LEMMA CountStep ==
  ASSUME ControlInv, CountInv, Next
  PROVE  CountInv'
<1> DEFINE ran == StepsOf(log)
           at == Len(steps) + 1
<1>1. /\ Len(log) \in Nat /\ IsFiniteSet(ran) /\ Cardinality(ran) \in Nat
      /\ Cardinality(ran) <= MaxPipelines
      /\ MaxCommands \in Nat /\ MaxPipelines \in Nat
      /\ budget.commands \in Nat /\ budget.pipelines \in Nat
      /\ budget \in BudgetType
  BY ShellAssumption, FS_CardinalityType DEF ControlInv, CountInv
<1>2. /\ IsFiniteSet(ran \cup {at}) /\ Cardinality(ran \cup {at}) \in Nat
      /\ Cardinality(ran \cup {at}) <= Cardinality(ran) + 1
  <2> HIDE DEF ran, at
  <2>1. /\ IsFiniteSet(ran \cup {at})
        /\ Cardinality(ran \cup {at}) = Cardinality(ran) + IF at \in ran THEN 0 ELSE 1
    BY <1>1, FS_AddElement
  <2> QED BY <1>1, <2>1
<1>3. ASSUME UNCHANGED log, pc' \in {"done", "raised"},
             budget'.commands \in Nat, budget'.commands >= budget.commands
      PROVE  CountInv'
  BY <1>1, <1>3 DEF CountInv, InPipeline
<1>4. CASE SkipStep
  BY <1>4 DEF SkipStep, CountInv, InPipeline
<1>5. CASE StartStep
  <2>1. \/ pc' = "done" /\ UNCHANGED budget
        \/ pc' = "done" /\ budget' = [budget EXCEPT !.pipelines = @ + 1]
        \/ /\ pc' = "command" /\ budget' = [budget EXCEPT !.pipelines = @ + 1]
           /\ ~(budget'.pipelines > MaxPipelines) /\ UNCHANGED steps
    BY <1>5 DEF StartStep, LimitError, OpenPipeline
  <2>2. UNCHANGED log /\ pc = "step"
    BY <1>5 DEF StartStep
  <2>3. CASE pc' = "done"
    <3>1. budget'.commands = budget.commands
      BY <1>1, <2>1, <2>3
    <3> QED BY <1>1, <1>3, <2>2, <2>3, <3>1
  <2>4. CASE pc' = "command"
    <3>1. /\ budget'.commands = budget.commands
          /\ budget'.pipelines = budget.pipelines + 1
          /\ budget'.pipelines <= MaxPipelines /\ UNCHANGED steps
      BY <1>1, <2>1, <2>4
    <3>2. Cardinality(ran) <= budget.pipelines
      BY <2>2 DEF CountInv
    <3>3. Cardinality(ran \cup {at}) <= budget'.pipelines
      BY <1>1, <1>2, <3>1, <3>2
    <3> HIDE DEF ran, at
    <3>4. Cardinality(StepsOf(log') \cup {Len(steps') + 1}) <= budget'.pipelines
      BY <2>2, <3>1, <3>3 DEF ran, at
    <3> QED BY <1>1, <2>2, <2>4, <3>1, <3>4 DEF CountInv, InPipeline
  <2> QED BY <2>1, <2>3, <2>4
<1>6. CASE End
  BY <1>1, <1>3, <1>6 DEF End
<1>7. CASE StartCommand
  <2>1. UNCHANGED log /\ pc = "command"
    BY <1>7 DEF StartCommand
  <2>2. CASE UNCHANGED budget
    BY <1>1, <1>3, <1>7, <2>1, <2>2, CommandNoted DEF StartCommand, LimitError
  <2>3. CASE NoteCommand
    <3>1. budget'.commands = budget.commands + 1 /\ budget'.pipelines = budget.pipelines
      BY <1>1, <2>3, CommandNoted
    <3>2. \/ pc' = "done"
          \/ pc' = "running" /\ ~(budget'.commands > MaxCommands) /\ UNCHANGED steps
      BY <1>7 DEF StartCommand, LimitError
    <3>3. CASE pc' = "done"
      BY <1>1, <1>3, <2>1, <3>1, <3>3
    <3>4. CASE pc' = "running" /\ budget'.commands <= MaxCommands /\ UNCHANGED steps
      <4>1. /\ Len(log) < budget'.commands /\ Len(log) <= budget'.commands
            /\ Cardinality(StepsOf(log') \cup {Len(steps') + 1}) <= budget'.pipelines
            /\ budget'.pipelines <= MaxPipelines
        BY <1>1, <2>1, <3>1, <3>4 DEF CountInv, InPipeline
      <4> QED BY <1>1, <2>1, <3>4, <4>1 DEF CountInv
    <3> QED BY <1>1, <3>1, <3>2, <3>3, <3>4
  <2> QED BY <1>7, <2>2, <2>3 DEF StartCommand
<1>8. CASE Refuse
  BY <1>1, <1>3, <1>8, CommandNoted DEF Refuse, Raise
<1>9. CASE HandlerRaises \/ WriteFails
  BY <1>1, <1>3, <1>9 DEF HandlerRaises, WriteFails, Raise
<1>10. CASE CommandEnds
  <2>1. PICK result :
          /\ Logged(result)
          /\ \/ LimitError(OverLimit)
             \/ ClosePipeline(result)
             \/ result.exit = 0 /\ NextCommand(result)
          /\ budget'.pipelines = budget.pipelines
          /\ budget'.commands = budget.commands
    BY <1>10, CommandCases
  <2>2. StepsOf(log') = ran \cup {at} /\ Len(log') = Len(log) + 1
    BY <2>1, Appended, StepsAppended DEF Logged, ControlInv
  <2>3. /\ Len(log') <= MaxCommands /\ Len(log') <= budget'.commands
        /\ Cardinality(ran \cup {at}) <= budget'.pipelines
        /\ budget'.pipelines <= MaxPipelines
    BY <1>1, <1>10, <2>1, <2>2 DEF CountInv, InPipeline, CommandEnds
  <2>4. /\ IsFiniteSet(StepsOf(log')) /\ Cardinality(StepsOf(log')) <= MaxPipelines
        /\ Cardinality(StepsOf(log')) <= budget'.pipelines
    BY <1>1, <1>2, <2>1, <2>2, <2>3
  <2>5. CASE pc' \in {"done", "step"}
    BY <2>3, <2>4, <2>5 DEF CountInv, InPipeline
  <2>6. CASE pc' = "command" /\ UNCHANGED steps
    <3>1. StepsOf(log') \cup {Len(steps') + 1} = StepsOf(log')
      BY <2>2, <2>6
    <3> QED BY <2>3, <2>4, <2>6, <3>1 DEF CountInv
  <2> QED BY <2>1, <2>5, <2>6 DEF LimitError, ClosePipeline, NextCommand
<1>11. CASE ExternalTimesOut
  BY <1>1, <1>3, <1>11 DEF ExternalTimesOut, LimitError
<1>12. CASE Deadline
  BY <1>12 DEF Deadline, CountInv, InPipeline
<1> QED BY <1>4, <1>5, <1>6, <1>7, <1>8, <1>9, <1>10, <1>11, <1>12 DEF Next

\* Every step keeps late entries at the end.
LEMMA LateStep ==
  ASSUME ControlInv, CountInv, LateInv, Next
  PROVE  LateInv'
<1>1. ASSUME UNCHANGED log, late => late', pc' = "running" => ~late \/ pc = "running"
      PROVE  LateInv'
  BY <1>1 DEF LateInv
<1>2. CASE SkipStep \/ StartStep \/ End
  BY <1>1, <1>2 DEF SkipStep, StartStep, End, LimitError, OpenPipeline
<1>3. CASE StartCommand
  BY <1>1, <1>3 DEF StartCommand, TimeRemains, LimitError
<1>4. CASE Refuse \/ HandlerRaises \/ WriteFails
  BY <1>1, <1>4 DEF Refuse, HandlerRaises, WriteFails, Raise
<1>5. CASE CommandEnds
  <2>1. PICK result :
          /\ Logged(result)
          /\ \/ LimitError(OverLimit)
             \/ ClosePipeline(result)
             \/ result.exit = 0 /\ NextCommand(result)
    BY <1>5, CommandCases
  <2>2. /\ Len(log) \in Nat /\ Len(log') = Len(log) + 1
        /\ log'[Len(log) + 1].late = late
        /\ \A i \in 1..Len(log) : log'[i] = log[i]
    BY <2>1, Appended DEF Logged, ControlInv
  <2>3. \A i \in 1..Len(log) : ~log[i].late
    BY <1>5 DEF CommandEnds, LateInv
  <2>4. late' = late /\ pc' # "running"
    BY <1>5, <2>1 DEF CommandEnds, LimitError, ClosePipeline, NextCommand
  <2>5. ASSUME NEW i \in 1..Len(log'), log'[i].late PROVE late' /\ i = Len(log')
    BY <2>2, <2>3, <2>4, <2>5
  <2> QED BY <2>4, <2>5 DEF LateInv
<1>6. CASE ExternalTimesOut
  BY <1>1, <1>6 DEF ExternalTimesOut, LimitError
<1>7. CASE Deadline
  BY <1>1, <1>7 DEF Deadline
<1> QED BY <1>2, <1>3, <1>4, <1>5, <1>6, <1>7 DEF Next

\* Every step keeps what the pipe carries.
LEMMA PipeStep ==
  ASSUME ControlInv, CountInv, PipeInv, Next
  PROVE  PipeInv'
<1>1. ASSUME UNCHANGED log, pc' \notin InPipeline
      PROVE  PipeInv'
  BY <1>1 DEF PipeInv, FedInv, FedEntry, InPipeline
<1>2. CASE SkipStep \/ End \/ Refuse \/ HandlerRaises \/ WriteFails \/ ExternalTimesOut
  BY <1>1, <1>2 DEF SkipStep, End, Refuse, HandlerRaises, WriteFails, Raise,
                    ExternalTimesOut, LimitError, InPipeline
<1>3. CASE StartStep
  <2>1. UNCHANGED log
    BY <1>3 DEF StartStep
  <2>2. CASE pc' = "done"
    BY <1>1, <2>1, <2>2 DEF InPipeline
  <2>3. CASE pc' = "command" /\ \E c : pipeline' = [NoPipeline EXCEPT !.condition = c]
    <3>1. pipeline'.place = 0 /\ pipeline'.input = <<>>
      BY <2>3 DEF NoPipeline
    <3> QED BY <2>1, <2>3, <3>1 DEF PipeInv, FedInv, FedEntry
  <2> QED BY <1>3, <2>2, <2>3 DEF StartStep, LimitError, OpenPipeline
<1>4. CASE StartCommand
  <2>1. UNCHANGED log /\ pc \in InPipeline
    BY <1>4 DEF StartCommand, InPipeline
  <2>2. CASE pc' = "done"
    BY <1>1, <2>1, <2>2 DEF InPipeline
  <2>3. CASE /\ \E kind \in Kinds, redirections \in Redirections :
                  command' = [kind |-> kind, redirections |-> redirections,
                              input |-> CommandInput(redirections)]
             /\ UNCHANGED <<steps, pipeline>>
    <3>1. Reads(command'.redirections) = {} => command'.input = pipeline.input
      BY <2>3 DEF CommandInput
    <3> QED BY <2>1, <2>3, <3>1 DEF PipeInv, FedInv, FedEntry
  <2> QED BY <1>4, <2>2, <2>3 DEF StartCommand, LimitError
<1>5. CASE CommandEnds
  <2>1. PICK result :
          /\ Logged(result)
          /\ \/ LimitError(OverLimit)
             \/ ClosePipeline(result)
             \/ result.exit = 0 /\ NextCommand(result)
    BY <1>5, CommandCases
  <2>2. PICK e :
          /\ log' = Append(log, e)
          /\ e.step = Len(steps) + 1 /\ e.place = pipeline.place + 1
          /\ e.redirections = command.redirections /\ e.input = command.input
          /\ e.visible = Visible(result.out) /\ e.exit = result.exit
    BY <2>1 DEF Logged
  <2>3. /\ Len(log) \in Nat /\ Len(log') = Len(log) + 1 /\ log'[Len(log) + 1] = e
        /\ \A i \in 1..Len(log) : log'[i] = log[i]
    BY <2>2, Appended DEF ControlInv
  <2>4. pipeline.place \in Nat /\ pc = "running" /\ pc \in InPipeline
    BY <1>5 DEF CommandEnds, ControlInv, InPipeline
  <2>5. FedEntry(log', Len(log) + 1)
    <3>1. ASSUME Reads(command.redirections) = {}
          PROVE  e.input = pipeline.input
      BY <2>2, <2>4, <3>1 DEF PipeInv, FedInv
    <3>2. CASE pipeline.place = 0
      BY <2>2, <2>3, <2>4, <3>1, <3>2 DEF FedEntry, PipeInv, FedInv
    <3>3. CASE pipeline.place # 0
      <4>1. /\ Len(log) > 0 /\ log'[Len(log)] = log[Len(log)]
            /\ log[Len(log)].step = Len(steps) + 1 /\ log[Len(log)].exit = 0
            /\ log[Len(log)].visible = pipeline.input
        BY <2>3, <2>4, <3>3 DEF PipeInv, FedInv
      <4>2. e.place # 1 /\ Len(log) + 1 > 1 /\ Len(log) + 1 - 1 = Len(log)
        BY <2>2, <2>3, <2>4, <3>3, <4>1
      <4>3. PICK n : n = Len(log) + 1 /\ n - 1 = Len(log) /\ n > 1
        BY <2>3, <4>1
      <4>4. log'[n] = e /\ log'[n - 1] = log[Len(log)]
        BY <2>3, <4>1, <4>3
      <4>5. FedEntry(log', n)
        BY <2>2, <3>1, <4>1, <4>2, <4>3, <4>4 DEF FedEntry
      <4> QED BY <4>3, <4>5
    <3> QED BY <3>2, <3>3
  <2>6. ASSUME NEW i \in 1..Len(log) PROVE FedEntry(log', i)
    <3>1. FedEntry(log, i) /\ log'[i] = log[i] /\ (i > 1 => log'[i - 1] = log[i - 1])
      BY <2>3 DEF PipeInv
    <3> QED BY <3>1 DEF FedEntry
  <2>7. \A i \in 1..Len(log') : FedEntry(log', i)
    BY <2>3, <2>5, <2>6
  <2>8. CASE pc' \in {"done", "step"}
    BY <2>7, <2>8 DEF PipeInv, FedInv, InPipeline
  <2>9. CASE result.exit = 0 /\ NextCommand(result)
    <3>1. /\ pc' = "command" /\ UNCHANGED steps
          /\ pipeline'.place = pipeline.place + 1
          /\ pipeline'.input = Visible(result.out)
      BY <2>9 DEF NextCommand
    <3>2. /\ Len(log') > 0 /\ log'[Len(log')] = e
          /\ pipeline'.place # 0
      BY <2>3, <2>4, <3>1
    <3>3. FedInv'
      BY <2>2, <2>9, <3>1, <3>2 DEF FedInv
    <3> QED BY <2>7, <3>3 DEF PipeInv
  <2> QED BY <2>1, <2>8, <2>9 DEF LimitError, ClosePipeline
<1>6. CASE Deadline
  BY <1>6 DEF Deadline, PipeInv, FedInv, FedEntry
<1> QED BY <1>2, <1>3, <1>4, <1>5, <1>6 DEF Next

-----------------------------------------------------------------------------
\* The control and the counters of every program.
LEMMA Counted == Spec => [](ControlInv /\ CountInv)
<1>1. Init => ControlInv /\ CountInv
  <2>1. ASSUME Init PROVE ControlInv
    <3>1. steps = <<>> /\ log = <<>> /\ pc = "step" /\ late = FALSE /\ pipeline = NoPipeline
      BY <2>1 DEF Init
    <3>2. budget \in BudgetType
      BY <2>1 DEF Init
    <3>3. \A S : <<>> \in Seq(S)
      OBVIOUS
    <3> QED BY <3>1, <3>2, <3>3, NoPipelineTypes DEF ControlInv, InPipeline
  <2>2. ASSUME Init PROVE CountInv
    <3>1. /\ log = <<>> /\ Len(log) = 0 /\ pc = "step"
          /\ budget.pipelines = 0 /\ budget.commands = 0
      BY <2>2 DEF Init
    <3>2. StepsOf(log) = {}
      BY <3>1 DEF StepsOf
    <3>3. IsFiniteSet(StepsOf(log)) /\ Cardinality(StepsOf(log)) = 0
      BY <3>2, FS_EmptySet
    <3> QED BY <3>1, <3>3, ShellAssumption DEF CountInv, InPipeline
  <2> QED BY <2>1, <2>2
<1>2. ControlInv /\ CountInv /\ [Next]_vars => ControlInv' /\ CountInv'
  <2>1. ASSUME ControlInv, CountInv, UNCHANGED vars PROVE ControlInv' /\ CountInv'
    BY <2>1 DEF ControlInv, CountInv, Entries, StepsOf, vars
  <2> QED BY <2>1, ControlStep, CountStep
<1> QED BY <1>1, <1>2, PTL DEF Spec

\* Whatever the program does, the limits bound the commands that run and the
\* pipelines they run in, and no command ends after one that ended late.
THEOREM LimitsHold == Spec => []WithinLimits
<1>1. Init => LateInv
  BY DEF Init, LateInv
<1>2. ControlInv /\ CountInv /\ LateInv /\ [Next]_vars => LateInv'
  <2>1. ASSUME LateInv, UNCHANGED vars PROVE LateInv'
    BY <2>1 DEF LateInv, vars
  <2> QED BY <2>1, LateStep
<1>3. ControlInv /\ CountInv /\ LateInv => WithinLimits
  <2>1. ASSUME ControlInv PROVE DOMAIN log = 1..Len(log)
    BY <2>1 DEF ControlInv
  <2> QED BY <2>1 DEF CountInv, LateInv, StepsOf, WithinLimits
<1> QED BY Counted, <1>1, <1>2, <1>3, PTL DEF Spec

\* A command that reads no file reads what the command before it in its pipeline
\* left on stdout, and that command succeeded; the first one reads nothing.
THEOREM PipesCarry == Spec => []PipesFeed
<1>1. Init => PipeInv
  BY DEF Init, PipeInv, FedInv, InPipeline
<1>2. ControlInv /\ CountInv /\ PipeInv /\ [Next]_vars => PipeInv'
  <2>1. ASSUME PipeInv, UNCHANGED vars PROVE PipeInv'
    BY <2>1 DEF PipeInv, FedInv, FedEntry, vars
  <2> QED BY <2>1, PipeStep
<1>3. ControlInv /\ PipeInv => PipesFeed
  <2>1. ASSUME ControlInv PROVE DOMAIN log = 1..Len(log)
    BY <2>1 DEF ControlInv
  <2> QED BY <2>1 DEF PipeInv, FedEntry, PipesFeed
<1> QED BY Counted, <1>1, <1>2, <1>3, PTL DEF Spec

-----------------------------------------------------------------------------
(***************************************************************************)
(* Files: what redirections make of them, one after the other.             *)
(***************************************************************************)
FileMap == UNION {[F -> Seq(Chunk)] : F \in SUBSET Files}

\* A write makes a map of files out of one.
LEMMA WriteType ==
  ASSUME NEW fs \in FileMap, NEW r \in Redirection, NEW text \in Seq(Chunk), cwd \in Dirs
  PROVE  /\ WriteTo(fs, r, text) \in FileMap
         /\ DOMAIN WriteTo(fs, r, text) = DOMAIN fs \cup {FileOf(r)}
<1> DEFINE f == FileOf(r)
           F == DOMAIN fs \cup {f}
           old == IF r.operator = ">>" /\ f \in DOMAIN fs THEN fs[f] ELSE <<>>
           new == [g \in F |-> IF g = f THEN old \o text ELSE fs[g]]
<1>1. DOMAIN fs \in SUBSET Files /\ \A g \in DOMAIN fs : fs[g] \in Seq(Chunk)
  BY DEF FileMap
<1>2. f \in Files
  BY DEF FileOf, Files, Redirection
<1>3. old \o text \in Seq(Chunk)
  <2>1. old \in Seq(Chunk)
    BY <1>1
  <2> HIDE DEF old
  <2> QED BY <2>1, ConcatProperties
<1> HIDE DEF f, old
<1>4. new \in [F -> Seq(Chunk)] /\ F \in SUBSET Files
  BY <1>1, <1>2, <1>3
<1>5. WriteTo(fs, r, text) = new
  BY DEF WriteTo, f, old
<1> HIDE DEF F, new
<1>6. new \in FileMap /\ DOMAIN new = F
  BY <1>4 DEF FileMap
<1> QED BY <1>5, <1>6 DEF F, f

\* a are the files after the first, the second, ... of some redirections.
Writing(a, redirections, text) ==
  /\ a \in [0..Len(redirections) -> FileMap] /\ a[0] = files
  /\ \A n \in 1..Len(redirections) :
       a[n] = IF n \in Writes(redirections)
              THEN WriteTo(a[n - 1], redirections[n], text) ELSE a[n - 1]

\* Written goes through the redirections.
LEMMA WrittenSteps ==
  ASSUME files \in FileMap, cwd \in Dirs,
         NEW rs \in Seq(Redirection), NEW text \in Seq(Chunk)
  PROVE  \E a : Writing(a, rs, text) /\ Written(rs, text) = a[Len(rs)]
<1> DEFINE k == Len(rs)
           After(d, n) == IF n \in Writes(rs) THEN WriteTo(d, rs[n], text) ELSE d
           step == [n \in 1..k |-> [d \in FileMap |-> After(d, n)]]
<1>1. k \in Nat /\ \A n \in 1..k : rs[n] \in Redirection
  OBVIOUS
<1>2. \A n \in 1..k : \A d \in FileMap : After(d, n) \in FileMap
  BY <1>1, WriteType
<1>3. step \in [1..k -> [FileMap -> FileMap]]
  <2> HIDE DEF After
  <2> QED BY <1>2
<1>4. \A n \in 1..k : \A d \in FileMap : step[n][d] = After(d, n)
  <2> HIDE DEF After
  <2> QED OBVIOUS
<1> HIDE DEF step, After
<1>5. PICK a \in [0..k -> FileMap] : Recurs(a, k, files, step)
  <2> HIDE DEF k
  <2> QED BY <1>1, <1>3, Recursion
<1>6. ASSUME NEW n \in 1..k PROVE a[n] = After(a[n - 1], n)
  <2>1. n - 1 \in 0..k
    BY <1>1
  <2>2. a[n - 1] \in FileMap
    BY <2>1
  <2> QED BY <1>4, <1>5, <2>2 DEF Recurs
<1>7. Writing(a, rs, text)
  BY <1>5, <1>6 DEF Writing, Recurs, After
<1> DEFINE Walk(u) == u = [n \in 0 .. k |->
                             IF n = 0 THEN files
                             ELSE IF n \in Writes(rs)
                             THEN WriteTo(u[n - 1], rs[n], text)
                             ELSE u[n - 1]]
           c == CHOOSE u : Walk(u)
<1>8. Walk(a)
  <2>1. \A n \in 0..k : n # 0 => n \in 1..k
    BY <1>1
  <2> HIDE DEF k
  <2> QED BY <1>7, <2>1 DEF Writing, k
<1>9. Walk(c)
  <2> HIDE DEF Walk
  <2> QED BY <1>8
<1> HIDE DEF c
<1> DEFINE S == {n \in 0..k : c[n] = a[n]}
<1>10. 0 \in S
  <2>1. 0 \in 0..k
    BY <1>1
  <2> QED BY <1>9, <2>1, <1>7 DEF Writing
<1>11. ASSUME NEW j \in 0..(k - 1), j \in S PROVE j + 1 \in S
  <2>1. PICK n \in 1..k : n = j + 1
    BY <1>1, <1>11
  <2>2. n \in 0..k /\ n # 0 /\ n - 1 = j
    BY <2>1
  <2>3. c[n] = IF n \in Writes(rs) THEN WriteTo(c[n - 1], rs[n], text) ELSE c[n - 1]
    BY <1>9, <2>2
  <2>4. c[n - 1] = a[n - 1]
    BY <1>11, <2>2
  <2>5. c[n] = a[n]
    BY <1>7, <2>3, <2>4 DEF Writing
  <2> QED BY <2>1, <2>2, <2>5
<1>12. 0..k \subseteq S
  <2> HIDE DEF S, k
  <2> QED BY <1>1, <1>10, <1>11, BoundedInduction
<1>13. c[k] = a[k]
  BY <1>1, <1>12
<1>14. Written(rs, text) = c[k]
  BY DEF Written, c
<1> QED BY <1>7, <1>13, <1>14

\* What is written is a map of files.
LEMMA WrittenType ==
  ASSUME files \in FileMap, cwd \in Dirs,
         NEW rs \in Seq(Redirection), NEW text \in Seq(Chunk)
  PROVE  Written(rs, text) \in FileMap
<1>1. PICK a : Writing(a, rs, text) /\ Written(rs, text) = a[Len(rs)]
  BY WrittenSteps
<1>2. Len(rs) \in 0..Len(rs)
  OBVIOUS
<1> QED BY <1>1, <1>2 DEF Writing

-----------------------------------------------------------------------------
(***************************************************************************)
(* The types, and what is returned of the output.                          *)
(***************************************************************************)

\* What the variables hold beside what ControlInv and CountInv say.
TypeInv ==
  /\ pc \in {"step", "command", "running", "done", "raised"}
  /\ lastExit \in ExitCodes /\ exitCode \in ExitCodes \cup {TimedOut, OverLimit}
  /\ cwd \in Dirs /\ pipeline.place \in 0 .. MaxInPipeline - 1
  /\ command.kind \in Kinds /\ command.redirections \in Seq(Redirection)
  /\ TypeBudget
  /\ pc \notin {"done", "raised"} => /\ budget.pipelines <= MaxPipelines
                                     /\ budget.commands <= MaxCommands
                                     /\ budget.output <= MaxOutput
  /\ stdout \in Seq(Chunk) /\ stderr \in Seq(Chunk)
  /\ files \in FileMap

\* A state without a command at work.
LEMMA NoneTypes ==
  /\ NoCommand.kind \in Kinds /\ NoCommand.redirections \in Seq(Redirection)
  /\ NoPipeline.place = 0 /\ NoPipeline.place \in 0 .. MaxInPipeline - 1
  /\ NoPipeline.input = <<>> /\ NoPipeline.stderr = <<>>
<1>1. MaxInPipeline \in Nat \ {0}
  BY ShellAssumption
<1> QED BY <1>1 DEF NoCommand, NoPipeline, Kinds

\* The redirections of a command are a sequence of them.
LEMMA RedirectionsType == Redirections \subseteq Seq(Redirection)
<1>1. ASSUME NEW S, NEW m PROVE UNION {[1 .. n -> S] : n \in 0..m} \subseteq Seq(S)
  OBVIOUS
<1> QED BY <1>1 DEF Redirections, BoundedSeq, SeqOf

\* A handler changes the directory to one there is.
LEMMA NextDir ==
  ASSUME NEW kind \in Kinds, NEW result \in Success(kind) \cup Failure(kind), cwd \in Dirs
  PROVE  result.next \in Dirs
<1>1. CASE kind = "builtin"
  BY <1>1 DEF Success, Failure
<1>2. CASE kind = "cd"
  BY <1>2 DEF Success, Failure
<1>3. CASE kind = "external"
  BY <1>3 DEF Success, Failure
<1> QED BY <1>1, <1>2, <1>3 DEF Kinds

\* Every step keeps the types.
LEMMA TypeStep ==
  ASSUME ControlInv, CountInv, TypeInv, Next
  PROVE  TypeInv'
<1> USE DEF TypeInv
<1>1. /\ MaxPipelines \in Nat /\ MaxCommands \in Nat /\ MaxOutput \in Nat /\ MaxSize \in Nat
      /\ MaxInPipeline \in Nat \ {0} /\ budget \in BudgetType
  BY ShellAssumption DEF ControlInv
<1>2. ASSUME NEW code \in {TimedOut, OverLimit}, LimitError(code),
             TypeBudget', files' \in FileMap
      PROVE  TypeInv'
  BY <1>2, NoneTypes DEF LimitError
<1>3. ASSUME Raise, TypeBudget', files' \in FileMap
      PROVE  TypeInv'
  BY <1>3, NoneTypes DEF Raise
<1>4. ASSUME NoteCommand, budget.commands <= MaxCommands
      PROVE  TypeBudget' /\ budget' \in BudgetType
             /\ budget'.pipelines = budget.pipelines /\ budget'.output = budget.output
  <2>1. /\ budget'.pipelines = budget.pipelines /\ budget'.output = budget.output
        /\ budget'.commands = budget.commands + 1 /\ budget' \in BudgetType
    BY <1>1, <1>4, CommandNoted
  <2> QED BY <1>1, <1>4, <2>1 DEF TypeBudget
<1>5. CASE SkipStep
  BY <1>5 DEF SkipStep, TypeBudget
<1>6. CASE StartStep
  <2>1. PICK c \in NextCondition :
          IF ~TimeRemains
          THEN LimitError(TimedOut) /\ UNCHANGED budget
          ELSE /\ budget' = [budget EXCEPT !.pipelines = @ + 1]
               /\ IF budget'.pipelines > MaxPipelines
                  THEN LimitError(OverLimit)
                  ELSE /\ OpenPipeline(c)
                       /\ UNCHANGED <<steps, lastExit, cwd, command, stdout,
                                      stderr, exitCode>>
    BY <1>6 DEF StartStep
  <2>2. UNCHANGED files /\ pc = "step"
    BY <1>6 DEF StartStep
  <2>3. CASE UNCHANGED budget /\ LimitError(TimedOut)
    BY <1>2, <2>2, <2>3 DEF TypeBudget
  <2>4. CASE budget' = [budget EXCEPT !.pipelines = @ + 1]
    <3>1. /\ budget'.pipelines = budget.pipelines + 1 /\ budget'.output = budget.output
          /\ budget'.commands = budget.commands
      BY <1>1, <2>4
    <3>2. TypeBudget'
      BY <1>1, <2>2, <3>1 DEF TypeBudget
    <3>3. CASE LimitError(OverLimit)
      BY <1>2, <2>2, <3>2, <3>3
    <3>4. CASE /\ ~(budget'.pipelines > MaxPipelines) /\ OpenPipeline(c)
               /\ UNCHANGED <<steps, lastExit, cwd, command, stdout, stderr, exitCode>>
      <4>1. pc' = "command" /\ pipeline'.place = 0
        BY <3>4 DEF OpenPipeline, NoPipeline
      <4>2. budget'.pipelines <= MaxPipelines
        <5>1. budget'.pipelines \in Nat
          BY <3>2 DEF TypeBudget
        <5> QED BY <1>1, <3>4, <5>1
      <4>3. pipeline'.place \in 0 .. MaxInPipeline - 1
        BY <1>1, <4>1
      <4> QED BY <2>2, <3>1, <3>2, <3>4, <4>1, <4>2, <4>3
    <3> QED BY <2>1, <2>3, <2>4, <3>3, <3>4
  <2> QED BY <2>1, <2>3, <2>4
<1>7. CASE End
  BY <1>7 DEF End, TypeBudget
<1>8. CASE StartCommand
  <2>1. UNCHANGED files /\ pc = "command"
    BY <1>8 DEF StartCommand
  <2>2. CASE UNCHANGED budget /\ LimitError(TimedOut)
    BY <1>2, <2>1, <2>2 DEF TypeBudget
  <2>3. CASE NoteCommand /\ LimitError(OverLimit)
    BY <1>2, <1>4, <2>1, <2>3
  <2>4. CASE /\ NoteCommand /\ ~(budget'.commands > MaxCommands)
             /\ \E kind \in Kinds, redirections \in Redirections :
                  command' = [kind |-> kind, redirections |-> redirections,
                              input |-> CommandInput(redirections)]
             /\ pc' = "running"
             /\ UNCHANGED <<steps, lastExit, cwd, pipeline, stdout, stderr, exitCode>>
    <3>1. Redirections \subseteq Seq(Redirection)
      BY RedirectionsType
    <3>2. command'.kind \in Kinds /\ command'.redirections \in Seq(Redirection)
      BY <2>4, <3>1
    <3>3. TypeBudget' /\ budget'.pipelines = budget.pipelines /\ budget'.output = budget.output
          /\ budget' \in BudgetType
      BY <1>4, <2>1, <2>4
    <3>4. budget'.commands <= MaxCommands
      <4>1. budget'.commands \in Nat
        BY <3>3, BudgetFields
      <4> QED BY <1>1, <2>4, <4>1
    <3> QED BY <2>1, <2>4, <3>2, <3>3, <3>4
  <2> QED BY <1>8, <2>2, <2>3, <2>4 DEF StartCommand
<1>9. CASE Refuse
  <2>1. budget.commands <= MaxCommands
    BY <1>9 DEF Refuse
  <2> QED BY <1>3, <1>4, <1>9, <2>1 DEF Refuse
<1>10. CASE HandlerRaises
  BY <1>3, <1>10 DEF HandlerRaises, TypeBudget
<1>11. CASE WriteFails
  <2>1. PICK size \in 0 .. MaxSize, n \in Writes(command.redirections) :
          files' = Written(SubSeq(command.redirections, 1, n - 1), Text(size))
    BY <1>11 DEF WriteFails
  <2>2. SubSeq(command.redirections, 1, n - 1) \in Seq(Redirection)
    <3>1. n \in 1..Len(command.redirections)
      BY DEF Writes
    <3>2. \A i \in 1..(n - 1) : command.redirections[i] \in Redirection
      BY <3>1
    <3> QED BY <3>1, <3>2, SubSeqProperties
  <2>3. Text(size) \in Seq(Chunk)
    <3>1. size \in 0..(MaxSize + 1) /\ Len(log) \in Nat /\ Len(log) <= MaxCommands
      BY <1>1 DEF ControlInv, CountInv
    <3> QED BY <3>1, TextTypes
  <2>4. files' \in FileMap
    BY <2>1, <2>2, <2>3, WrittenType
  <2> QED BY <1>3, <1>11, <2>4 DEF WriteFails, TypeBudget
<1>12. CASE CommandEnds
  <2>1. PICK result \in Success(command.kind) \cup Failure(command.kind) :
           /\ result.exit \in ExitCodes
           /\ files' = Written(command.redirections, Text(result.out))
           /\ \/ LimitError(OverLimit)
              \/ /\ \/ ClosePipeline(result)
                    \/ result.exit = 0 /\ NextCommand(result)
                 /\ cwd' = result.next /\ command' = NoCommand
                 /\ UNCHANGED exitCode /\ budget'.output <= MaxOutput
           /\ budget' \in BudgetType
           /\ budget'.pipelines = budget.pipelines
           /\ budget'.commands = budget.commands
           /\ Text(result.out) \in Seq(Chunk)
           /\ Visible(result.out) \in Seq(Chunk)
           /\ Text(result.err) \in Seq(Chunk)
           /\ budget.output <= MaxOutput => budget'.output <= MaxOutput + MaxSize + 1
    BY <1>12, CommandCases
  <2>2. files' \in FileMap
    BY <2>1, WrittenType
  <2>3. pc = "running"
    BY <1>12 DEF CommandEnds
  <2>10. budget'.output \in Nat /\ budget.output <= MaxOutput
    BY <2>1, <2>3, BudgetFields
  <2>4. TypeBudget'
    BY <1>1, <2>1, <2>3, <2>10 DEF TypeBudget
  <2>5. CASE LimitError(OverLimit)
    BY <1>2, <2>2, <2>4, <2>5
  <2>6. result.next \in Dirs
    BY NextDir
  <2>7. PipelineStderr(result) \in Seq(Chunk)
    <3>1. pipeline.stderr \in Seq(Chunk)
      BY PipelineFields DEF ControlInv
    <3> QED BY <2>1, <3>1, ConcatProperties DEF PipelineStderr
  <2>8. CASE ClosePipeline(result) /\ cwd' = result.next /\ command' = NoCommand
             /\ UNCHANGED exitCode /\ budget'.output <= MaxOutput
    <3>1. stdout' \in Seq(Chunk) /\ stderr' \in Seq(Chunk)
      BY <2>1, <2>7, <2>8, ConcatProperties DEF ClosePipeline
    <3>2. lastExit' \in ExitCodes /\ pipeline'.place \in 0 .. MaxInPipeline - 1 /\ pc' = "step"
      BY <2>1, <2>8, NoneTypes DEF ClosePipeline
    <3> QED BY <2>1, <2>2, <2>3, <2>4, <2>6, <2>8, <3>1, <3>2, NoneTypes
  <2>9. CASE NextCommand(result) /\ cwd' = result.next /\ command' = NoCommand
             /\ UNCHANGED exitCode /\ budget'.output <= MaxOutput
    <3>1. pipeline.place + 1 < MaxInPipeline /\ pipeline'.place = pipeline.place + 1
      BY <2>9 DEF NextCommand
    <3>2. pipeline'.place \in 0 .. MaxInPipeline - 1
      BY <1>1, <3>1
    <3> QED BY <2>1, <2>2, <2>3, <2>4, <2>6, <2>9, <3>2, NoneTypes DEF NextCommand
  <2> QED BY <2>1, <2>5, <2>8, <2>9
<1>13. CASE ExternalTimesOut
  BY <1>2, <1>13 DEF ExternalTimesOut, TypeBudget
<1>14. CASE Deadline
  BY <1>14 DEF Deadline, TypeBudget
<1> QED BY <1>5, <1>6, <1>7, <1>8, <1>9, <1>10, <1>11, <1>12, <1>13, <1>14 DEF Next

\* An empty text has no size.
LEMMA SizeEmpty == Size(<<>>) = 0
<1>1. <<>> \in Seq(Chunk) /\ Len(<<>>) = 0
  OBVIOUS
<1>2. \E s : Sums(s, Len(<<>>), [n \in 1..Len(<<>>) |-> <<>>[n].size]) /\ Size(<<>>) = s[Len(<<>>)]
  <2> DEFINE none == <<>>
  <2>1. none \in Seq(Chunk)
    BY <1>1
  <2> HIDE DEF none
  <2>2. \E s : Sums(s, Len(none), [n \in 1..Len(none) |-> none[n].size]) /\ Size(none) = s[Len(none)]
    BY <2>1, SizeSums
  <2> QED BY <2>2 DEF none
<1> QED BY <1>1, <1>2 DEF Sums, Adds

\* What is returned, and what the pipeline at work keeps, was counted.
OutputInv ==
  /\ pc \notin InPipeline => pipeline = NoPipeline
  /\ Size(stdout) + Size(stderr) <= MaxOutput
  /\ pc \notin {"done", "raised"} =>
       Size(stdout) + Size(stderr) + Size(pipeline.stderr) <= budget.output

\* What was counted, with the output of a command.
LEMMA StillCounted ==
  ASSUME NEW o \in Nat, NEW e \in Nat, NEW p \in Nat, NEW b \in Nat, o + e + p <= b,
         NEW x \in Nat, NEW y \in Nat, NEW u \in Nat, u <= o + x, NEW v, v = e + p + y
  PROVE  u + v <= (b + x) + y
OBVIOUS

\* Every step keeps the output within the budget.
LEMMA OutputStep ==
  ASSUME ControlInv, CountInv, TypeInv, OutputInv, Next
  PROVE  OutputInv'
<1>1. /\ stdout \in Seq(Chunk) /\ stderr \in Seq(Chunk) /\ pipeline.stderr \in Seq(Chunk)
      /\ MaxOutput \in Nat /\ budget \in BudgetType /\ budget.output \in Nat
  BY ShellAssumption, PipelineFields, BudgetFields DEF ControlInv, TypeInv
<1>2. /\ Size(stdout) \in Nat /\ Size(stderr) \in Nat /\ Size(pipeline.stderr) \in Nat
  BY <1>1, SizeConcat
<1>3. ASSUME UNCHANGED <<stdout, stderr>>, pc' \in {"done", "raised"}, pipeline' = NoPipeline
      PROVE  OutputInv'
  BY <1>3 DEF OutputInv, InPipeline
<1>4. ASSUME UNCHANGED <<stdout, stderr>>, pc \notin {"done", "raised"},
             pipeline'.stderr = pipeline.stderr, budget'.output = budget.output,
             pc' \notin InPipeline => pipeline' = NoPipeline
      PROVE  OutputInv'
  BY <1>4 DEF OutputInv
<1>5. CASE SkipStep \/ Deadline
  BY <1>4, <1>5 DEF SkipStep, Deadline, OutputInv
<1>6. CASE End \/ HandlerRaises \/ Refuse \/ WriteFails \/ ExternalTimesOut
  BY <1>3, <1>6 DEF End, HandlerRaises, Refuse, WriteFails, ExternalTimesOut, Raise,
                    LimitError, OutputInv, InPipeline
<1>7. CASE StartStep
  <2>1. pc = "step" /\ pipeline = NoPipeline
    BY <1>7 DEF StartStep, OutputInv, InPipeline
  <2>2. CASE \E code : LimitError(code)
    BY <1>3, <2>2 DEF LimitError
  <2>3. CASE /\ \E c : OpenPipeline(c)
             /\ budget' = [budget EXCEPT !.pipelines = @ + 1]
             /\ UNCHANGED <<stdout, stderr>>
    <3>1. budget'.output = budget.output
      BY <1>1, <2>3
    <3>2. pipeline'.stderr = pipeline.stderr /\ pc' \in InPipeline
      BY <2>1, <2>3 DEF OpenPipeline, NoPipeline, InPipeline
    <3> QED BY <1>4, <2>1, <2>3, <3>1, <3>2
  <2> QED BY <1>7, <2>2, <2>3 DEF StartStep
<1>8. CASE StartCommand
  <2>1. CASE \E code : LimitError(code)
    BY <1>3, <2>1 DEF LimitError
  <2>2. CASE NoteCommand /\ pc' = "running" /\ UNCHANGED <<pipeline, stdout, stderr>>
    <3>1. budget'.output = budget.output
      BY <1>1, <2>2, CommandNoted
    <3> QED BY <1>4, <1>8, <2>2, <3>1 DEF StartCommand, InPipeline
  <2> QED BY <1>8, <2>1, <2>2 DEF StartCommand
<1>9. CASE CommandEnds
  <2>1. PICK result \in Success(command.kind) \cup Failure(command.kind) :
           /\ \/ LimitError(OverLimit)
              \/ /\ \/ ClosePipeline(result)
                    \/ result.exit = 0 /\ NextCommand(result)
                 /\ budget'.output <= MaxOutput
           /\ Visible(result.out) \in Seq(Chunk)
           /\ Text(result.err) \in Seq(Chunk)
           /\ budget'.output <= MaxOutput =>
                budget'.output = budget.output + Size(Visible(result.out))
                                               + Size(Text(result.err))
    BY <1>9, CommandCases
  <2> DEFINE out == Visible(result.out)
             err == Text(result.err)
             both == pipeline.stderr \o err
  <2>2. /\ IsSum(Size(both), Size(pipeline.stderr), Size(err))
        /\ Size(err) \in Nat /\ Size(out) \in Nat /\ both \in Seq(Chunk)
    <3>1. both \in Seq(Chunk)
      BY <1>1, <2>1, ConcatProperties
    <3> QED BY <1>1, <2>1, <3>1, SizeConcat
  <2>3. pc \notin {"done", "raised"}
    BY <1>9 DEF CommandEnds
  <2>4. /\ Size(stdout) + Size(stderr) + Size(pipeline.stderr) <= budget.output
        /\ PipelineStderr(result) = both
    BY <2>3 DEF OutputInv, PipelineStderr
  <2>5. CASE LimitError(OverLimit)
    BY <1>3, <2>5 DEF LimitError
  <2>6. CASE /\ budget'.output <= MaxOutput
             /\ budget'.output = budget.output + Size(out) + Size(err)
             /\ ClosePipeline(result)
    <3>1. /\ stdout' = IF result.exit = 0 THEN stdout \o out ELSE stdout
          /\ stderr' = stderr \o both /\ pc' = "step" /\ pipeline' = NoPipeline
      BY <2>4, <2>6 DEF ClosePipeline
    <3>2. IsSum(Size(stdout \o out), Size(stdout), Size(out))
      BY <1>1, <2>1, SizeConcat
    <3>3. IsSum(Size(stderr'), Size(stderr), Size(both))
      BY <1>1, <2>2, <3>1, SizeConcat
    <3>4. Size(pipeline'.stderr) = 0
      <4>1. pipeline'.stderr = <<>>
        BY <3>1 DEF NoPipeline
      <4> QED BY <4>1, SizeEmpty
    <3> HIDE DEF out, err, both
    <3>5. /\ Size(stdout') <= Size(stdout) + Size(out) /\ Size(stdout') \in Nat
          /\ Size(stderr') = Size(stderr) + Size(pipeline.stderr) + Size(err)
      BY <1>2, <2>2, <3>1, <3>2, <3>3 DEF IsSum
    <3>6. /\ Size(stdout') + Size(stderr') <= budget'.output
          /\ Size(stdout') + Size(stderr') <= MaxOutput
      <4>1. Size(stdout') + Size(stderr') <= (budget.output + Size(out)) + Size(err)
        BY <1>1, <1>2, <2>2, <2>4, <3>5, StillCounted
      <4>2. Size(stdout') + Size(stderr') <= budget'.output /\ budget'.output <= MaxOutput
        BY <2>6, <4>1
      <4> DEFINE u == Size(stdout')
                 v == Size(stderr')
                 b == budget'.output
      <4>3. u \in Nat /\ v \in Nat /\ b \in Nat
        <5>1. v \in Nat
          BY <1>2, <2>2, <3>5
        <5>2. b \in Nat
          BY <1>1, <2>2, <2>6
        <5> QED BY <3>5, <5>1, <5>2
      <4>4. u + v <= b /\ b <= MaxOutput
        BY <4>2
      <4> HIDE DEF u, v, b
      <4>5. u + v <= MaxOutput
        BY <1>1, <4>3, <4>4
      <4> QED BY <4>2, <4>5 DEF u, v
    <3>7. Size(stdout') + Size(stderr') + Size(pipeline'.stderr) <= budget'.output
      BY <1>1, <1>2, <2>2, <3>4, <3>5, <3>6
    <3> QED BY <3>1, <3>6, <3>7 DEF OutputInv
  <2>7. CASE /\ budget'.output <= MaxOutput
             /\ budget'.output = budget.output + Size(out) + Size(err)
             /\ NextCommand(result)
    <3>1. /\ UNCHANGED <<stdout, stderr>> /\ pc' = "command" /\ pipeline'.stderr = both
      BY <2>4, <2>7 DEF NextCommand
    <3> HIDE DEF out, err, both
    <3>2. Size(both) = Size(pipeline.stderr) + Size(err)
      BY <2>2 DEF IsSum
    <3>3. Size(stdout) + Size(stderr) + Size(both) <= budget'.output
      BY <1>1, <1>2, <2>2, <2>4, <2>7, <3>2
    <3> QED BY <3>1, <3>3 DEF OutputInv, InPipeline
  <2> QED BY <2>1, <2>5, <2>6, <2>7
<1> QED BY <1>5, <1>6, <1>7, <1>8, <1>9 DEF Next

\* A pipeline with its place within bounds.
LEMMA PipelinePlace ==
  ASSUME NEW p \in PipelineType, NEW S, p.place \in S
  PROVE  p \in [condition: Conditions, place: S, input: Seq(Chunk), stderr: Seq(Chunk)]
<1>1. p = [condition |-> p.condition, place |-> p.place, input |-> p.input, stderr |-> p.stderr]
  BY DEF PipelineType
<1>2. p.condition \in Conditions /\ p.input \in Seq(Chunk) /\ p.stderr \in Seq(Chunk)
  BY PipelineFields
<1> QED BY <1>1, <1>2

\* The types of every program.
LEMMA Typed == Spec => []TypeInv
<1>1. Init => TypeInv
  <2>1. ASSUME Init PROVE TypeInv
    <3>1. files \in FileMap
      <4>1. OldText \in Seq(Chunk)
        <5>1. [by |-> 0, size |-> 1] \in Chunk
          BY ShellAssumption DEF Chunk
        <5> QED BY <5>1 DEF OldText
      <4>2. {Home} \X Names \in SUBSET Files
        BY ShellAssumption DEF Files
      <4>3. files \in [({Home} \X Names) -> Seq(Chunk)]
        BY <2>1, <4>1 DEF Init
      <4> QED BY <4>2, <4>3 DEF FileMap
    <3>2. TypeBudget /\ budget.pipelines = 0 /\ budget.commands = 0 /\ budget.output = 0
      BY <2>1, ShellAssumption DEF Init, TypeBudget
    <3>3. stdout \in Seq(Chunk) /\ stderr \in Seq(Chunk)
      BY <2>1 DEF Init
    <3>4. MaxPipelines \in Nat /\ MaxCommands \in Nat /\ MaxOutput \in Nat /\ Home \in Dirs
      BY ShellAssumption
    <3> QED BY <2>1, <3>1, <3>2, <3>3, <3>4, NoneTypes DEF Init, TypeInv, ExitCodes
  <2> QED BY <2>1
<1>2. ControlInv /\ CountInv /\ TypeInv /\ [Next]_vars => TypeInv'
  <2>1. ASSUME TypeInv, UNCHANGED vars PROVE TypeInv'
    BY <2>1 DEF TypeInv, TypeBudget, vars
  <2> QED BY <2>1, TypeStep
<1> QED BY Counted, <1>1, <1>2, PTL DEF Spec

\* The variables hold what the code's variables can hold; a counter passes its
\* limit by the one call that exceeds it.
THEOREM TypesKept == Spec => []TypeOK
<1>1. ControlInv /\ TypeInv => TypeOK
  <2>1. ASSUME ControlInv, TypeInv PROVE TypeOK
    <3>1. pipeline \in [condition: Conditions, place: 0 .. MaxInPipeline - 1,
                        input: Seq(Chunk), stderr: Seq(Chunk)]
      <4>1. /\ pipeline \in PipelineType /\ pipeline.place \in 0 .. MaxInPipeline - 1
        BY <2>1 DEF ControlInv, TypeInv
      <4> QED BY <4>1, PipelinePlace
    <3>2. DOMAIN files \subseteq Files
      BY <2>1 DEF TypeInv, FileMap
    <3> QED BY <2>1, <3>1, <3>2 DEF ControlInv, TypeInv, TypeOK
  <2> QED BY <2>1
<1> QED BY Counted, Typed, <1>1, PTL

\* The output of every program is counted.
LEMMA OutputCounted == Spec => []OutputInv
<1>1. Init => OutputInv
  <2>1. ASSUME Init PROVE OutputInv
    <3>1. /\ stdout = <<>> /\ stderr = <<>> /\ pipeline = NoPipeline
          /\ pipeline.stderr = <<>> /\ budget.output = 0 /\ MaxOutput \in Nat
      BY <2>1, ShellAssumption DEF Init, NoPipeline
    <3> QED BY <3>1, SizeEmpty DEF OutputInv
  <2> QED BY <2>1
<1>2. ControlInv /\ CountInv /\ TypeInv /\ OutputInv /\ [Next]_vars => OutputInv'
  <2>1. ASSUME OutputInv, UNCHANGED vars PROVE OutputInv'
    BY <2>1 DEF OutputInv, vars
  <2> QED BY <2>1, OutputStep
<1> QED BY Counted, Typed, <1>1, <1>2, PTL DEF Spec

\* Whatever the program does, the limits bound what runs and what is returned of
\* its output.
THEOREM LimitsBound == Spec => []Bounded
<1>1. WithinLimits /\ OutputInv => Bounded
  BY DEF OutputInv, Bounded
<1> QED BY LimitsHold, OutputCounted, <1>1, PTL

-----------------------------------------------------------------------------
(***************************************************************************)
(* And-or lists.                                                           *)
(***************************************************************************)
StepType == [condition: Conditions, exit: ExitCodes \cup {Skipped}]

\* What a step makes of the value of the list before it.
StepValue(before, s) ==
  CASE s.condition = "always" -> s.exit = 0
    [] s.condition = "on_success" -> before /\ s.exit = 0
    [] s.condition = "on_failure" -> before \/ s.exit = 0

Valued(v, list) ==
  /\ v[0] = TRUE
  /\ \A k \in 1..Len(list) : v[k] = StepValue(v[k - 1], list[k])

\* ListValue goes through the steps.
LEMMA ListSteps ==
  ASSUME NEW list \in Seq(StepType)
  PROVE  Valued(ListValue(list), list) /\ \A k \in 0..Len(list) : ListValue(list)[k] \in BOOLEAN
<1> DEFINE n == Len(list)
           step == [k \in 1..n |-> [d \in BOOLEAN |-> StepValue(d, list[k])]]
<1>1. n \in Nat /\ \A k \in 1..n : list[k] \in StepType
  OBVIOUS
<1>2. \A k \in 1..n : \A d \in BOOLEAN : StepValue(d, list[k]) \in BOOLEAN
  <2>1. ASSUME NEW s \in StepType, NEW d \in BOOLEAN PROVE StepValue(d, s) \in BOOLEAN
    <3>1. s.condition \in {"always", "on_success", "on_failure"}
      BY DEF StepType, Conditions
    <3> QED BY <3>1 DEF StepValue
  <2> QED BY <1>1, <2>1
<1>3. step \in [1..n -> [BOOLEAN -> BOOLEAN]]
  BY <1>2
<1>4. \A k \in 1..n : \A d \in BOOLEAN : step[k][d] = StepValue(d, list[k])
  OBVIOUS
<1> HIDE DEF step
<1>5. PICK a \in [0..n -> BOOLEAN] : Recurs(a, n, TRUE, step)
  <2>1. TRUE \in BOOLEAN
    OBVIOUS
  <2> HIDE DEF n
  <2> QED BY <1>1, <1>3, <2>1, Recursion
<1>6. Valued(a, list)
  <2>1. ASSUME NEW k \in 1..n PROVE a[k] = StepValue(a[k - 1], list[k])
    <3>1. k - 1 \in 0..n
      BY <1>1
    <3>2. a[k - 1] \in BOOLEAN
      BY <3>1
    <3>3. a[k] = step[k][a[k - 1]]
      BY <1>5 DEF Recurs
    <3> QED BY <1>4, <3>2, <3>3
  <2> QED BY <1>5, <2>1 DEF Valued, Recurs
<1> DEFINE Walk(u) == u = [k \in 0 .. Len(list) |->
                             IF k = 0 THEN TRUE
                             ELSE CASE list[k].condition = "always" -> list[k].exit = 0
                                    [] list[k].condition = "on_success" ->
                                         u[k - 1] /\ list[k].exit = 0
                                    [] list[k].condition = "on_failure" ->
                                         u[k - 1] \/ list[k].exit = 0]
           c == CHOOSE u : Walk(u)
<1>7. Walk(a)
  <2>1. \A k \in 0..n : k # 0 => k \in 1..n
    BY <1>1
  <2> QED BY <1>6, <2>1 DEF Valued, StepValue
<1>8. Walk(c)
  <2> HIDE DEF Walk
  <2> QED BY <1>7
<1>9. ListValue(list) = c
  BY DEF ListValue, c
<1> HIDE DEF c
<1>10. Valued(c, list)
  <2>1. 0 \in 0..n /\ \A k \in 1..n : k \in 0..n /\ k # 0
    BY <1>1
  <2> QED BY <1>8, <2>1 DEF Valued, StepValue
<1> DEFINE S == {k \in 0..n : c[k] \in BOOLEAN}
<1>11. 0 \in S
  <2>1. 0 \in 0..n
    BY <1>1
  <2>2. c[0] = TRUE
    BY <1>10 DEF Valued
  <2> QED BY <2>1, <2>2
<1>12. ASSUME NEW j \in 0..(n - 1), j \in S PROVE j + 1 \in S
  <2>1. PICK k \in 1..n : k = j + 1
    BY <1>1
  <2>2. c[k] = StepValue(c[j], list[k])
    BY <1>10, <2>1 DEF Valued
  <2>3. c[k] \in BOOLEAN
    <3>1. c[j] \in BOOLEAN
      BY <1>12
    <3>2. list[k].condition \in {"always", "on_success", "on_failure"}
      BY <1>1 DEF StepType, Conditions
    <3> QED BY <2>2, <3>1, <3>2 DEF StepValue
  <2> QED BY <2>1, <2>3
<1>13. 0..n \subseteq S
  <2> HIDE DEF S, n
  <2> QED BY <1>1, <1>11, <1>12, BoundedInduction
<1> QED BY <1>9, <1>10, <1>13

\* The values of a list are those of the lists it begins with.
LEMMA ValuesAgree ==
  ASSUME NEW list \in Seq(StepType), NEW e \in StepType
  PROVE  LET v == ListValue(list)
             w == ListValue(Append(list, e)) IN
         /\ \A k \in 0..Len(list) : w[k] = v[k] /\ v[k] \in BOOLEAN
         /\ w[Len(list) + 1] = StepValue(v[Len(list)], e)
<1> DEFINE n == Len(list)
           t == Append(list, e)
           v == ListValue(list)
           w == ListValue(t)
<1>1. /\ n \in Nat /\ t \in Seq(StepType) /\ Len(t) = n + 1 /\ t[n + 1] = e
      /\ \A k \in 1..n : t[k] = list[k]
  OBVIOUS
<1>2. Valued(v, list) /\ \A k \in 0..n : v[k] \in BOOLEAN
  BY ListSteps
<1>3. Valued(w, t)
  <2> HIDE DEF t
  <2> QED BY <1>1, ListSteps
<1> HIDE DEF v, w, t
<1> DEFINE S == {k \in 0..n : w[k] = v[k]}
<1>4. 0 \in S
  <2>1. 0 \in 0..n
    BY <1>1
  <2> QED BY <1>2, <1>3, <2>1 DEF Valued
<1>5. ASSUME NEW j \in 0..(n - 1), j \in S PROVE j + 1 \in S
  <2>1. PICK k \in 1..n : k = j + 1
    BY <1>1
  <2>2. k - 1 = j /\ k \in 1..Len(t) /\ k \in 0..n
    BY <1>1, <2>1
  <2>3. w[k] = StepValue(w[j], list[k])
    BY <1>1, <1>3, <2>2 DEF Valued
  <2>4. v[k] = StepValue(v[j], list[k])
    BY <1>2, <2>1, <2>2 DEF Valued
  <2>5. w[k] = v[k]
    BY <1>5, <2>3, <2>4
  <2> QED BY <2>1, <2>2, <2>5
<1>6. 0..n \subseteq S
  <2> HIDE DEF S, n
  <2> QED BY <1>1, <1>4, <1>5, BoundedInduction
<1>7. w[n + 1] = StepValue(v[n], e)
  <2>1. PICK k : k = n + 1 /\ k \in 1..Len(t) /\ k - 1 = n
    BY <1>1
  <2>2. w[k] = StepValue(w[n], t[k])
    BY <1>3, <2>1 DEF Valued
  <2>3. w[n] = v[n]
    BY <1>1, <1>6
  <2> QED BY <1>1, <2>1, <2>2, <2>3
<1> QED BY <1>2, <1>6, <1>7 DEF v, w, t

\* The program so far is a list of its own, and the pipeline at work continues it.
ListInv ==
  /\ AndOrLists
  /\ pc \in InPipeline => ShouldRun(pipeline.condition, lastExit)

LeftOut(condition, before) ==
  \/ condition = "on_success" /\ ~before
  \/ condition = "on_failure" /\ before

\* A step more, left out exactly when the list before it decides the value.
LEMMA StepAdded ==
  ASSUME ControlInv, ListInv, NEW e \in StepType, steps' = Append(steps, e),
         e.exit = Skipped <=> LeftOut(e.condition, lastExit = 0),
         (lastExit' = 0) <=> StepValue(lastExit = 0, e)
  PROVE  AndOrLists'
<1> DEFINE n == Len(steps)
           v == ListValue(steps)
           w == ListValue(steps')
<1>1. /\ steps \in Seq(StepType) /\ n \in Nat /\ Len(steps') = n + 1 /\ steps'[n + 1] = e
      /\ \A k \in 1..n : steps'[k] = steps[k]
      /\ DOMAIN steps = 1..n /\ DOMAIN steps' = 1..(n + 1)
  BY DEF ControlInv, StepType
<1>2. /\ \A k \in 0..n : w[k] = v[k] /\ v[k] \in BOOLEAN
      /\ w[n + 1] = StepValue(v[n], e)
  BY <1>1, ValuesAgree
<1> HIDE DEF v, w
<1>3. /\ \A k \in 1..n : steps[k].exit = Skipped <=> LeftOut(steps[k].condition, v[k - 1])
      /\ (lastExit = 0) <=> v[n]
  BY <1>1 DEF ListInv, AndOrLists, LeftOut, v
<1>4. v[n] = (lastExit = 0) /\ n \in 0..n
  BY <1>1, <1>2, <1>3
<1>5. ASSUME NEW k \in 1..(n + 1)
      PROVE  steps'[k].exit = Skipped <=> LeftOut(steps'[k].condition, w[k - 1])
  <2>1. CASE k \in 1..n
    <3>1. k - 1 \in 0..n
      BY <1>1, <2>1
    <3> QED BY <1>1, <1>2, <1>3, <2>1, <3>1
  <2>2. CASE k = n + 1
    <3>1. k - 1 = n
      BY <1>1, <2>2
    <3>2. w[n] = (lastExit = 0)
      BY <1>2, <1>4
    <3> QED BY <1>1, <2>2, <3>1, <3>2
  <2> QED BY <1>1, <2>1, <2>2
<1>6. (lastExit' = 0) <=> w[n + 1]
  BY <1>2, <1>4
<1> QED BY <1>1, <1>5, <1>6 DEF AndOrLists, LeftOut, w

\* Every step keeps the program so far a list.
LEMMA ListStep ==
  ASSUME ControlInv, CountInv, ListInv, Next
  PROVE  ListInv'
<1>1. ASSUME UNCHANGED <<steps, lastExit>>,
             pc' \in InPipeline => ShouldRun(pipeline'.condition, lastExit)
      PROVE  ListInv'
  BY <1>1 DEF ListInv, AndOrLists
<1>2. CASE SkipStep
  <2>1. PICK condition \in NextCondition :
          /\ ~ShouldRun(condition, lastExit)
          /\ steps' = Append(steps, [condition |-> condition, exit |-> Skipped])
    BY <1>2 DEF SkipStep
  <2> DEFINE e == [condition |-> condition, exit |-> Skipped]
  <2>2. e \in StepType /\ e.condition = condition /\ e.exit = Skipped
        /\ condition \in {"always", "on_success", "on_failure"}
    BY DEF NextCondition, StepType, Conditions
  <2>3. LeftOut(condition, lastExit = 0) /\ condition # "always"
    BY <2>1, <2>2 DEF ShouldRun, LeftOut
  <2>4. (lastExit = 0) <=> StepValue(lastExit = 0, e)
    <3>1. Skipped # 0
      BY DEF Skipped
    <3> HIDE DEF e
    <3> QED BY <2>2, <2>3, <3>1 DEF StepValue, LeftOut
  <2>5. lastExit' = lastExit /\ pc' \notin InPipeline
    BY <1>2 DEF SkipStep, InPipeline
  <2> HIDE DEF e
  <2>6. AndOrLists'
    BY <2>1, <2>2, <2>3, <2>4, <2>5, StepAdded DEF e
  <2> QED BY <2>5, <2>6 DEF ListInv
<1>3. CASE StartStep
  BY <1>1, <1>3 DEF StartStep, LimitError, OpenPipeline, NoPipeline, InPipeline
<1>4. CASE End \/ Refuse \/ HandlerRaises \/ WriteFails \/ ExternalTimesOut
  BY <1>1, <1>4 DEF End, Refuse, HandlerRaises, WriteFails, ExternalTimesOut, Raise,
                    LimitError, InPipeline
<1>5. CASE StartCommand
  BY <1>1, <1>5 DEF StartCommand, LimitError, InPipeline, ListInv
<1>6. CASE Deadline
  BY <1>1, <1>6 DEF Deadline, ListInv
<1>7. CASE CommandEnds
  <2>1. PICK result \in Success(command.kind) \cup Failure(command.kind) :
          /\ result.exit \in ExitCodes
          /\ LimitError(OverLimit) \/ ClosePipeline(result) \/ NextCommand(result)
    BY <1>7, CommandCases
  <2>2. ShouldRun(pipeline.condition, lastExit)
    BY <1>7 DEF CommandEnds, ListInv, InPipeline
  <2>3. CASE LimitError(OverLimit)
    BY <1>1, <2>3 DEF LimitError, InPipeline
  <2>4. CASE NextCommand(result)
    BY <1>1, <2>2, <2>4 DEF NextCommand
  <2>5. CASE ClosePipeline(result)
    <3> DEFINE e == [condition |-> pipeline.condition, exit |-> result.exit]
    <3>1. steps' = Append(steps, e) /\ lastExit' = result.exit /\ pc' = "step"
      BY <2>5 DEF ClosePipeline
    <3>2. /\ e \in StepType /\ e.condition = pipeline.condition /\ e.exit = result.exit
          /\ e.condition \in {"always", "on_success", "on_failure"}
      <4>1. pipeline.condition \in Conditions
        BY PipelineFields DEF ControlInv
      <4> QED BY <2>1, <4>1 DEF StepType, Conditions
    <3> HIDE DEF e
    <3>3. e.exit # Skipped
      BY <2>1, <3>2 DEF ExitCodes, Skipped
    <3>4. ~LeftOut(e.condition, lastExit = 0)
      BY <2>2, <3>2 DEF LeftOut, ShouldRun
    <3>5. (lastExit' = 0) <=> StepValue(lastExit = 0, e)
      BY <2>2, <3>1, <3>2 DEF StepValue, ShouldRun
    <3>6. AndOrLists'
      BY <3>1, <3>2, <3>3, <3>4, <3>5, StepAdded
    <3> QED BY <3>1, <3>6 DEF ListInv, InPipeline
  <2> QED BY <2>1, <2>3, <2>4, <2>5
<1> QED BY <1>2, <1>3, <1>4, <1>5, <1>6, <1>7 DEF Next

\* `;`, `&&` and `||`: a step is left out exactly when the list before it decides
\* the value, and the code of the program is the value of its last list.
THEOREM ListsDecide == Spec => []AndOrLists
<1>1. Init => ListInv
  <2>1. ASSUME Init PROVE ListInv
    <3>1. steps = <<>> /\ Len(steps) = 0 /\ DOMAIN steps = {} /\ lastExit = 0 /\ pc = "step"
      BY <2>1 DEF Init
    <3>2. steps \in Seq(StepType)
      BY <3>1
    <3>3. ListValue(steps)[0] = TRUE
      BY <3>2, ListSteps DEF Valued
    <3> QED BY <3>1, <3>3 DEF ListInv, AndOrLists, InPipeline
  <2> QED BY <2>1
<1>2. ControlInv /\ CountInv /\ ListInv /\ [Next]_vars => ListInv'
  <2>1. ASSUME ListInv, UNCHANGED vars PROVE ListInv'
    BY <2>1 DEF ListInv, AndOrLists, vars
  <2> QED BY <2>1, ListStep
<1>3. ListInv => AndOrLists
  BY DEF ListInv
<1> QED BY Counted, <1>1, <1>2, <1>3, PTL DEF Spec

-----------------------------------------------------------------------------
(***************************************************************************)
(* What is returned: the outputs of the log, one after the other.          *)
(***************************************************************************)

\* No texts are joined to an empty one.
LEMMA FlattenNone == FlattenSeq(<<>>) = <<>>
<1> DEFINE none == <<>>
<1>1. none \in Seq(Seq(Chunk)) /\ \A i \in 1..Len(none) : none[i] = <<>>
  OBVIOUS
<1> HIDE DEF none
<1>2. FlattenSeq(none) = <<>>
  BY <1>1, FlattenEmpty
<1> QED BY <1>2 DEF none

\* One element more, and one text more.
OneLonger(longer, s, e) == longer = Append(s, e)
TextLonger(whole, text, more) == whole = text \o more

\* A sequence given by its elements, with one element more.
LEMMA SeqContinued ==
  ASSUME NEW T, NEW k \in Nat, NEW f \in [1..k -> T], NEW n, n = k + 1,
         NEW g \in [1..n -> T], Agree(g, f, k)
  PROVE  f \in Seq(T) /\ g \in Seq(T) /\ OneLonger(g, f, g[n])
<1>1. f \in Seq(T) /\ g \in Seq(T) /\ Len(f) = k /\ Len(g) = n
  OBVIOUS
<1>2. g[n] \in T
  OBVIOUS
<1>3. /\ Append(f, g[n]) \in Seq(T) /\ Len(Append(f, g[n])) = n
      /\ \A i \in 1..k : Append(f, g[n])[i] = f[i]
      /\ Append(f, g[n])[n] = g[n]
  BY <1>1, <1>2, AppendProperties
<1>4. \A i \in 1..n : g[i] = Append(f, g[n])[i]
  BY <1>3 DEF Agree
<1>5. g = Append(f, g[n])
  BY <1>1, <1>3, <1>4, SeqEqual
<1> QED BY <1>1, <1>5 DEF OneLonger

\* The outputs of a log l of which n steps came to their end.
Ends(l, n, i) == l[i].step <= n /\ (i < Len(l) => l[i + 1].step # l[i].step)
ErrorOf(l, i) == IF l[i].err = 0 THEN <<>> ELSE <<[by |-> i, size |-> l[i].err]>>
OutOf(l, n) == [i \in 1..Len(l) |->
                  IF Ends(l, n, i) /\ l[i].exit = 0 THEN l[i].visible ELSE <<>>]
ErrOf(l, n) == [i \in 1..Len(l) |-> IF l[i].step <= n THEN ErrorOf(l, i) ELSE <<>>]
AllErr(l) == [i \in 1..Len(l) |-> ErrorOf(l, i)]

\* The entries of a log at step n + 1, or before it when ended is TRUE.
EntriesAt(l, n, ended) ==
  /\ Len(l) <= MaxCommands
  /\ \A i \in 1..Len(l) : /\ l[i].visible \in Seq(Chunk) /\ l[i].err \in 0..1
                          /\ l[i].step \in 1..(IF ended THEN n ELSE n + 1)
  /\ \A i, j \in 1..Len(l) : i <= j => l[i].step <= l[j].step

\* The texts of the outputs are texts.
LEMMA OutputTypes ==
  ASSUME NEW l, Len(l) \in Nat, NEW n \in Nat, NEW ended \in BOOLEAN, EntriesAt(l, n, ended),
         NEW m \in Nat
  PROVE  /\ OutOf(l, m) \in [1..Len(l) -> Seq(Chunk)]
         /\ ErrOf(l, m) \in [1..Len(l) -> Seq(Chunk)]
         /\ AllErr(l) \in [1..Len(l) -> Seq(Chunk)]
<1>1. ASSUME NEW i \in 1..Len(l) PROVE ErrorOf(l, i) \in Seq(Chunk) /\ l[i].visible \in Seq(Chunk)
  <2>1. l[i].err \in 0..1 /\ l[i].visible \in Seq(Chunk) /\ i <= MaxCommands
    BY ShellAssumption DEF EntriesAt
  <2>2. l[i].err # 0 => [by |-> i, size |-> l[i].err] \in Chunk
    BY <2>1, ShellAssumption DEF Chunk
  <2> QED BY <2>1, <2>2 DEF ErrorOf
<1>2. <<>> \in Seq(Chunk)
  OBVIOUS
<1> QED BY <1>1, <1>2 DEF OutOf, ErrOf, AllErr

\* An entry more at step n + 1, that ends the step or does not.
LEMMA OutputsContinue ==
  ASSUME NEW l, l \in Seq(Entries(l)), NEW n \in Nat, EntriesAt(l, n, FALSE),
         Len(l) < MaxCommands,
         NEW e, e.visible \in Seq(Chunk), e.err \in 0..1, e.step = n + 1, NEW m \in {n, n + 1}
  PROVE  LET a == Append(l, e)
             err == ErrorOf(a, Len(l) + 1) IN
         /\ EntriesAt(a, n, FALSE) /\ EntriesAt(a, n + 1, TRUE)
         /\ Agree(OutOf(a, m), OutOf(l, n), Len(l))
         /\ OutOf(a, n)[Len(l) + 1] = <<>> /\ ErrOf(a, n)[Len(l) + 1] = <<>>
         /\ OutOf(a, n + 1)[Len(l) + 1] = IF e.exit = 0 THEN e.visible ELSE <<>>
         /\ Agree(ErrOf(a, n), ErrOf(l, n), Len(l)) /\ Agree(AllErr(a), AllErr(l), Len(l))
         /\ AllErr(a)[Len(l) + 1] = err
         /\ ErrOf(a, n + 1) = AllErr(a)
         /\ err = IF e.err = 0 THEN <<>> ELSE <<[by |-> Len(l) + 1, size |-> e.err]>>
<1> DEFINE a == Append(l, e)
           k == Len(l)
<1>1. k \in Nat /\ Len(a) = k + 1 /\ a[k + 1] = e /\ \A i \in 1..k : a[i] = l[i]
  BY Appended
<1> HIDE DEF a
<1>2. \A i \in 1..k : /\ l[i].visible \in Seq(Chunk) /\ l[i].err \in 0..1
                      /\ l[i].step \in 1..(n + 1)
  BY DEF EntriesAt
<1>3. \A i, j \in 1..k : i <= j => l[i].step <= l[j].step
  BY DEF EntriesAt
<1>4. \A i \in 1..(k + 1) : i \in 1..k \/ i = k + 1
  BY <1>1
<1>5. \A i \in 1..(k + 1) : /\ a[i].visible \in Seq(Chunk) /\ a[i].err \in 0..1
                            /\ a[i].step \in 1..(n + 1)
  BY <1>1, <1>2, <1>4
<1>6. \A i, j \in 1..(k + 1) : i <= j => a[i].step <= a[j].step
  <2> SUFFICES ASSUME NEW i \in 1..(k + 1), NEW j \in 1..(k + 1), i <= j
               PROVE  a[i].step <= a[j].step
    OBVIOUS
  <2>1. CASE j = k + 1
    BY <1>1, <1>5, <2>1
  <2>2. CASE j \in 1..k
    <3>1. i \in 1..k
      BY <1>1, <2>2
    <3> QED BY <1>1, <1>3, <2>2, <3>1
  <2> QED BY <1>4, <2>1, <2>2
<1>7. EntriesAt(a, n, FALSE) /\ EntriesAt(a, n + 1, TRUE)
  <2>1. Len(a) <= MaxCommands
    BY <1>1, ShellAssumption
  <2> QED BY <1>1, <1>5, <1>6, <2>1 DEF EntriesAt
<1>8. ASSUME NEW i \in 1..k PROVE Ends(a, m, i) <=> Ends(l, n, i)
  <2>1. i < Len(a) /\ l[i].step \in 1..(n + 1)
    BY <1>1, <1>2
  <2>2. CASE i < k
    <3>1. i + 1 \in 1..k
      BY <1>1, <2>2
    <3>2. l[i].step <= l[i + 1].step /\ l[i + 1].step \in 1..(n + 1)
      BY <1>1, <1>2, <1>3, <3>1
    <3>3. a[i] = l[i] /\ a[i + 1] = l[i + 1]
      BY <1>1, <3>1
    <3> QED BY <1>1, <2>1, <2>2, <3>2, <3>3 DEF Ends
  <2>3. CASE i = k
    <3>1. a[i + 1].step = n + 1 /\ a[i] = l[i]
      BY <1>1, <2>3
    <3> QED BY <1>1, <2>1, <2>3, <3>1 DEF Ends
  <2> QED BY <1>1, <2>2, <2>3
<1>9. Agree(OutOf(a, m), OutOf(l, n), k)
  BY <1>1, <1>4, <1>8 DEF OutOf, Agree
<1>10. /\ OutOf(a, n)[k + 1] = <<>> /\ ErrOf(a, n)[k + 1] = <<>>
       /\ OutOf(a, n + 1)[k + 1] = IF e.exit = 0 THEN e.visible ELSE <<>>
  <2>1. k + 1 \in 1..Len(a) /\ ~(k + 1 < Len(a))
    BY <1>1
  <2>2. ~Ends(a, n, k + 1) /\ Ends(a, n + 1, k + 1) /\ ~(a[k + 1].step <= n)
    BY <1>1, <2>1 DEF Ends
  <2> QED BY <1>1, <2>1, <2>2 DEF OutOf, ErrOf
<1>11. Agree(ErrOf(a, n), ErrOf(l, n), k) /\ Agree(AllErr(a), AllErr(l), k)
  BY <1>1 DEF ErrOf, AllErr, ErrorOf, Agree
<1>12. /\ AllErr(a)[k + 1] = ErrorOf(a, k + 1)
       /\ ErrorOf(a, k + 1) = IF e.err = 0 THEN <<>> ELSE <<[by |-> k + 1, size |-> e.err]>>
  BY <1>1 DEF AllErr, ErrorOf
<1>13. ErrOf(a, n + 1) = AllErr(a)
  <2>1. \A i \in 1..Len(a) : a[i].step <= n + 1
    BY <1>1, <1>5
  <2> QED BY <2>1 DEF ErrOf, AllErr
<1> QED BY <1>7, <1>9, <1>10, <1>11, <1>12, <1>13 DEF a

\* A text more is joined at the end.
LEMMA FlattenContinued ==
  ASSUME NEW T, NEW k \in Nat, NEW f \in [1..k -> Seq(T)], NEW g \in [1..(k + 1) -> Seq(T)],
         Agree(g, f, k)
  PROVE  FlattenSeq(f) \in Seq(T) /\ TextLonger(FlattenSeq(g), FlattenSeq(f), g[k + 1])
<1>1. f \in Seq(Seq(T)) /\ g = Append(f, g[k + 1])
  <2> DEFINE U == Seq(T)
             n == k + 1
  <2>1. k \in Nat /\ n = k + 1 /\ f \in [1..k -> U] /\ g \in [1..n -> U] /\ Agree(g, f, k)
    OBVIOUS
  <2> HIDE DEF U, n
  <2>2. f \in Seq(U) /\ OneLonger(g, f, g[n])
    BY <2>1, SeqContinued
  <2> QED BY <2>2 DEF U, n, OneLonger
<1>2. g[k + 1] \in Seq(T)
  OBVIOUS
<1> DEFINE e == g[k + 1]
<1>3. FlattenSeq(f) \in Seq(T) /\ FlattenSeq(Append(f, e)) = FlattenSeq(f) \o e
  <2> HIDE DEF e
  <2>1. e \in Seq(T)
    BY <1>2 DEF e
  <2> QED BY <1>1, <2>1, FlattenAppend
<1> QED BY <1>1, <1>3 DEF TextLonger

\* A step that is left out has no output.
LEMMA OutputsSkip ==
  ASSUME NEW l, Len(l) \in Nat, NEW n \in Nat, EntriesAt(l, n, TRUE)
  PROVE  /\ OutOf(l, n + 1) = OutOf(l, n) /\ ErrOf(l, n + 1) = ErrOf(l, n)
         /\ EntriesAt(l, n + 1, TRUE)
<1>1. \A i \in 1..Len(l) : l[i].step \in 1..n
  BY DEF EntriesAt
<1>2. \A i \in 1..Len(l) : l[i].step <= n /\ l[i].step <= n + 1 /\ l[i].step \in 1..(n + 1)
  BY <1>1
<1>3. OutOf(l, n + 1) = OutOf(l, n)
  BY <1>2 DEF OutOf, Ends
<1>4. ErrOf(l, n + 1) = ErrOf(l, n)
  BY <1>2 DEF ErrOf
<1>5. EntriesAt(l, n + 1, TRUE)
  BY <1>2 DEF EntriesAt
<1> QED BY <1>3, <1>4, <1>5

\* What bash returns is the output of the steps; with what the pipeline at work
\* wrote to stderr, it is all that was written there.
TextInv ==
  /\ EntriesAt(log, Len(steps), pc = "step")
  /\ stdout = FlattenSeq(OutOf(log, Len(steps)))
  /\ stderr = FlattenSeq(ErrOf(log, Len(steps)))
  /\ pc \notin {"done", "raised"} => stderr \o pipeline.stderr = FlattenSeq(AllErr(log))

\* Every step keeps what is returned.
LEMMA TextStep ==
  ASSUME ControlInv, CountInv, TypeInv, OutputInv, TextInv, Next
  PROVE  TextInv'
<1> DEFINE n == Len(steps)
           k == Len(log)
<1>1. /\ n \in Nat /\ k \in Nat /\ log \in Seq(Entries(log)) /\ (pc = "step") \in BOOLEAN
      /\ stdout \in Seq(Chunk) /\ stderr \in Seq(Chunk) /\ pipeline.stderr \in Seq(Chunk)
      /\ budget \in BudgetType
  BY PipelineFields DEF ControlInv, TypeInv
<1>2. EntriesAt(log, n, FALSE)
  <2>1. ASSUME EntriesAt(log, n, TRUE) PROVE EntriesAt(log, n, FALSE)
    BY <1>1, <2>1 DEF EntriesAt
  <2> QED BY <2>1 DEF TextInv
<1>3. ASSUME UNCHANGED <<stdout, stderr, steps, log>>, pc' # "step",
             \/ pc' \in {"done", "raised"}
             \/ pc \notin {"done", "raised"} /\ pipeline'.stderr = pipeline.stderr
      PROVE  TextInv'
  BY <1>2, <1>3 DEF TextInv
<1>4. CASE SkipStep
  <2>1. PICK e : steps' = Append(steps, e)
    BY <1>4 DEF SkipStep
  <2>2. Len(steps') = n + 1
    <3>1. PICK S : steps \in Seq(S)
      BY DEF ControlInv
    <3> DEFINE T == S \cup {e}
    <3>2. steps \in Seq(T) /\ e \in T
      BY <3>1
    <3> HIDE DEF T
    <3> QED BY <2>1, <3>2, AppendProperties
  <2>3. pc = "step" /\ UNCHANGED <<pc, pipeline, stdout, stderr, log>>
    BY <1>4 DEF SkipStep
  <2>4. EntriesAt(log, n, TRUE)
    BY <2>3 DEF TextInv
  <2>5. /\ OutOf(log, n + 1) = OutOf(log, n) /\ ErrOf(log, n + 1) = ErrOf(log, n)
        /\ EntriesAt(log, n + 1, TRUE)
    BY <1>1, <2>4, OutputsSkip
  <2> QED BY <2>2, <2>3, <2>5 DEF TextInv
<1>5. CASE StartStep
  <2>1. UNCHANGED <<steps, log, stdout, stderr>> /\ pc = "step" /\ pipeline = NoPipeline
    BY <1>5 DEF StartStep, LimitError, OutputInv, InPipeline
  <2>2. pc' = "done" \/ (pc' = "command" /\ pipeline'.stderr = NoPipeline.stderr)
    BY <1>5 DEF StartStep, LimitError, OpenPipeline, NoPipeline
  <2> QED BY <1>3, <2>1, <2>2
<1>6. CASE End \/ Refuse \/ HandlerRaises \/ WriteFails \/ ExternalTimesOut
  BY <1>3, <1>6 DEF End, Refuse, HandlerRaises, WriteFails, ExternalTimesOut, Raise,
                    LimitError
<1>7. CASE StartCommand
  BY <1>3, <1>7 DEF StartCommand, LimitError
<1>8. CASE Deadline
  BY <1>8 DEF Deadline, TextInv
<1>9. CASE CommandEnds
  <2>1. PICK result \in Success(command.kind) \cup Failure(command.kind) :
          /\ Logged(result)
          /\ LimitError(OverLimit) \/ ClosePipeline(result) \/ NextCommand(result)
          /\ Visible(result.out) \in Seq(Chunk)
          /\ Text(result.err) \in Seq(Chunk)
    BY <1>9, CommandCases
  <2>2. PICK e : /\ log' = Append(log, e) /\ e.step = n + 1
                 /\ e.visible = Visible(result.out) /\ e.err = result.err
                 /\ e.exit = result.exit
    BY <2>1 DEF Logged
  <2>3. /\ e.visible \in Seq(Chunk) /\ e.err \in 0..1 /\ k < MaxCommands
        /\ pc \notin {"done", "raised"}
    <3>1. pc = "running" /\ command.kind \in Kinds
      BY <1>9 DEF CommandEnds, ControlInv
    <3>2. result.err \in 0..1
      BY <3>1, ResultTypes
    <3>3. k < budget.commands /\ budget.commands <= MaxCommands /\ budget.commands \in Nat
          /\ MaxCommands \in Nat
      BY <1>1, <3>1, ShellAssumption, BudgetFields DEF CountInv
    <3> QED BY <1>1, <2>1, <2>2, <3>1, <3>2, <3>3
  <2> DEFINE err == ErrorOf(log', k + 1)
  <2>4. /\ Len(log') = k + 1
        /\ EntriesAt(log', n, FALSE) /\ EntriesAt(log', n + 1, TRUE)
        /\ Agree(OutOf(log', n), OutOf(log, n), k)
        /\ Agree(OutOf(log', n + 1), OutOf(log, n), k)
        /\ OutOf(log', n)[k + 1] = <<>> /\ ErrOf(log', n)[k + 1] = <<>>
        /\ OutOf(log', n + 1)[k + 1] = IF e.exit = 0 THEN e.visible ELSE <<>>
        /\ Agree(ErrOf(log', n), ErrOf(log, n), k)
        /\ Agree(AllErr(log'), AllErr(log), k)
        /\ AllErr(log')[k + 1] = err
        /\ ErrOf(log', n + 1) = AllErr(log')
        /\ err = IF e.err = 0 THEN <<>> ELSE <<[by |-> k + 1, size |-> e.err]>>
    <3>1. Len(log') = k + 1
      BY <1>1, <2>2, Appended
    <3>2. n \in {n, n + 1} /\ n + 1 \in {n, n + 1}
      OBVIOUS
    <3> HIDE DEF n
    <3>3. /\ log \in Seq(Entries(log)) /\ n \in Nat /\ EntriesAt(log, n, FALSE)
          /\ Len(log) < MaxCommands
          /\ e.visible \in Seq(Chunk) /\ e.err \in 0..1 /\ e.step = n + 1
      BY <1>1, <1>2, <2>2, <2>3
    <3> DEFINE a == Append(log, e)
    <3>4. /\ EntriesAt(a, n, FALSE) /\ EntriesAt(a, n + 1, TRUE)
          /\ Agree(OutOf(a, n), OutOf(log, n), k)
          /\ OutOf(a, n)[k + 1] = <<>> /\ ErrOf(a, n)[k + 1] = <<>>
          /\ OutOf(a, n + 1)[k + 1] = IF e.exit = 0 THEN e.visible ELSE <<>>
          /\ Agree(ErrOf(a, n), ErrOf(log, n), k)
          /\ Agree(AllErr(a), AllErr(log), k)
          /\ AllErr(a)[k + 1] = ErrorOf(a, k + 1)
          /\ ErrOf(a, n + 1) = AllErr(a)
          /\ ErrorOf(a, k + 1) = IF e.err = 0 THEN <<>> ELSE <<[by |-> k + 1, size |-> e.err]>>
      BY <3>2, <3>3, OutputsContinue
    <3>5. Agree(OutOf(a, n + 1), OutOf(log, n), k)
      BY <3>2, <3>3, OutputsContinue
    <3>6. a = log'
      BY <2>2
    <3> HIDE DEF a
    <3> QED BY <3>1, <3>4, <3>5, <3>6
  <2>5. err = Text(result.err)
    BY <2>2, <2>4 DEF Text
  <2>6. /\ OutOf(log, n) \in [1..k -> Seq(Chunk)] /\ ErrOf(log, n) \in [1..k -> Seq(Chunk)]
        /\ AllErr(log) \in [1..k -> Seq(Chunk)]
    BY <1>1, <1>2, OutputTypes
  <2>7. /\ OutOf(log', n) \in [1..(k + 1) -> Seq(Chunk)]
        /\ ErrOf(log', n) \in [1..(k + 1) -> Seq(Chunk)]
        /\ OutOf(log', n + 1) \in [1..(k + 1) -> Seq(Chunk)]
        /\ AllErr(log') \in [1..(k + 1) -> Seq(Chunk)]
    <3>1. Len(log') \in Nat /\ n + 1 \in Nat /\ TRUE \in BOOLEAN /\ FALSE \in BOOLEAN
      BY <1>1, <2>4
    <3> DEFINE l == log'
    <3>2. Len(l) \in Nat /\ Len(l) = k + 1 /\ EntriesAt(l, n, FALSE) /\ n \in Nat /\ n + 1 \in Nat
      BY <1>1, <2>4, <3>1
    <3> HIDE DEF l, n
    <3> QED BY <3>1, <3>2, OutputTypes DEF l
  <2>8. /\ FlattenSeq(OutOf(log', n)) = FlattenSeq(OutOf(log, n)) \o <<>>
        /\ FlattenSeq(ErrOf(log', n)) = FlattenSeq(ErrOf(log, n)) \o <<>>
        /\ FlattenSeq(OutOf(log', n + 1)) =
             FlattenSeq(OutOf(log, n)) \o (IF e.exit = 0 THEN e.visible ELSE <<>>)
        /\ FlattenSeq(AllErr(log')) = FlattenSeq(AllErr(log)) \o err
    <3>1. TextLonger(FlattenSeq(OutOf(log', n)), FlattenSeq(OutOf(log, n)), OutOf(log', n)[k + 1])
      BY <1>1, <2>4, <2>6, <2>7, FlattenContinued
    <3>2. TextLonger(FlattenSeq(ErrOf(log', n)), FlattenSeq(ErrOf(log, n)), ErrOf(log', n)[k + 1])
      BY <1>1, <2>4, <2>6, <2>7, FlattenContinued
    <3>3. TextLonger(FlattenSeq(OutOf(log', n + 1)), FlattenSeq(OutOf(log, n)), OutOf(log', n + 1)[k + 1])
      BY <1>1, <2>4, <2>6, <2>7, FlattenContinued
    <3>4. TextLonger(FlattenSeq(AllErr(log')), FlattenSeq(AllErr(log)), AllErr(log')[k + 1])
      BY <1>1, <2>4, <2>6, <2>7, FlattenContinued
    <3> HIDE DEF n, k, err
    <3> QED BY <2>4, <3>1, <3>2, <3>3, <3>4 DEF TextLonger
  <2>9. /\ stdout = FlattenSeq(OutOf(log, n)) /\ stderr = FlattenSeq(ErrOf(log, n))
        /\ stderr \o pipeline.stderr = FlattenSeq(AllErr(log))
    BY <2>3 DEF TextInv
  <2> HIDE DEF n, k, err
  <2>10. /\ FlattenSeq(OutOf(log', n)) = stdout /\ FlattenSeq(ErrOf(log', n)) = stderr
         /\ FlattenSeq(OutOf(log', n + 1)) =
              stdout \o (IF e.exit = 0 THEN e.visible ELSE <<>>)
         /\ FlattenSeq(AllErr(log')) = stderr \o PipelineStderr(result)
    <3>1. stdout \o <<>> = stdout /\ stderr \o <<>> = stderr
      BY <1>1, ConcatEmptySeq
    <3>2. (stderr \o pipeline.stderr) \o err = stderr \o (pipeline.stderr \o err)
      <4>1. err \in Seq(Chunk)
        BY <2>1, <2>5
      <4> DEFINE kept == pipeline.stderr
      <4>2. stderr \in Seq(Chunk) /\ kept \in Seq(Chunk)
        BY <1>1
      <4> HIDE DEF kept
      <4>3. (stderr \o kept) \o err = stderr \o (kept \o err)
        BY <4>1, <4>2, ConcatAssociative
      <4> QED BY <4>3 DEF kept
    <3> QED BY <2>5, <2>8, <2>9, <3>1, <3>2 DEF PipelineStderr
  <2>11. CASE LimitError(OverLimit)
    BY <2>4, <2>10, <2>11 DEF LimitError, TextInv, n
  <2>12. CASE NextCommand(result)
    <3>1. /\ UNCHANGED <<stdout, stderr, steps>> /\ pc' = "command"
          /\ pipeline'.stderr = PipelineStderr(result)
      BY <2>12 DEF NextCommand
    <3> QED BY <2>4, <2>10, <3>1 DEF TextInv, n
  <2>13. CASE ClosePipeline(result)
    <3>1. /\ pc' = "step" /\ pipeline' = NoPipeline
          /\ stdout' = IF result.exit = 0 THEN stdout \o Visible(result.out) ELSE stdout
          /\ stderr' = stderr \o PipelineStderr(result)
      BY <2>13 DEF ClosePipeline
    <3>2. Len(steps') = n + 1
      BY <2>13 DEF ClosePipeline, ControlInv, n
    <3>3. stdout' = FlattenSeq(OutOf(log', n + 1))
      <4>1. stdout \o <<>> = stdout
        BY <1>1, ConcatEmptySeq
      <4> QED BY <2>2, <2>10, <3>1, <4>1
    <3>4. stderr' = FlattenSeq(ErrOf(log', n + 1)) /\ stderr' = FlattenSeq(AllErr(log'))
      BY <2>4, <2>10, <3>1
    <3>5. stderr' \o pipeline'.stderr = stderr'
      <4>1. PipelineStderr(result) \in Seq(Chunk)
        BY <1>1, <2>1, ConcatProperties DEF PipelineStderr
      <4>2. stderr' \in Seq(Chunk)
        BY <1>1, <3>1, <4>1, ConcatProperties
      <4>3. pipeline'.stderr = <<>>
        BY <3>1 DEF NoPipeline
      <4> QED BY <4>2, <4>3, ConcatEmptySeq
    <3> QED BY <2>4, <3>1, <3>2, <3>3, <3>4, <3>5 DEF TextInv
  <2> QED BY <2>1, <2>11, <2>12, <2>13
<1> QED BY <1>4, <1>5, <1>6, <1>7, <1>8, <1>9 DEF Next

\* Of each pipeline that succeeded bash returns what its last command left on
\* stdout, and of each that came to its end all of stderr, in order.
THEOREM StepsReturn == Spec => []OutputOfSteps
<1>1. Init => TextInv
  <2>1. ASSUME Init PROVE TextInv
    <3>1. /\ steps = <<>> /\ log = <<>> /\ stdout = <<>> /\ stderr = <<>>
          /\ Len(steps) = 0 /\ Len(log) = 0 /\ pc = "step" /\ pipeline.stderr = <<>>
      BY <2>1 DEF Init, NoPipeline
    <3>2. EntriesAt(log, 0, TRUE)
      BY <3>1, ShellAssumption DEF EntriesAt
    <3>3. OutOf(log, 0) = <<>> /\ ErrOf(log, 0) = <<>> /\ AllErr(log) = <<>>
      BY <3>1 DEF OutOf, ErrOf, AllErr
    <3>4. FlattenSeq(<<>>) = <<>>
      BY FlattenNone
    <3>5. stderr \o pipeline.stderr = <<>>
      BY <3>1
    <3> QED BY <3>1, <3>2, <3>3, <3>4, <3>5 DEF TextInv
  <2> QED BY <2>1
<1>2. ControlInv /\ CountInv /\ TypeInv /\ OutputInv /\ TextInv /\ [Next]_vars => TextInv'
  <2>1. ASSUME TextInv, UNCHANGED vars PROVE TextInv'
    BY <2>1 DEF TextInv, vars
  <2> QED BY <2>1, TextStep
<1>3. ControlInv /\ TextInv => OutputOfSteps
  <2>1. ASSUME ControlInv PROVE DOMAIN log = 1..Len(log)
    BY <2>1 DEF ControlInv
  <2> QED BY <2>1 DEF TextInv, OutputOfSteps, OutOf, ErrOf, Ends, EndsStep, Passed, ErrorOf,
                      ErrorText
<1> QED BY Counted, Typed, OutputCounted, <1>1, <1>2, <1>3, PTL DEF Spec

-----------------------------------------------------------------------------
(***************************************************************************)
(* Files, and the redirections of the log.                                 *)
(***************************************************************************)
Effect == [to: Files, truncates: BOOLEAN, text: Seq(Chunk)]

Cuts(effects, f, n) ==
  \E m \in DOMAIN effects : m > n /\ effects[m].to = f /\ effects[m].truncates
Kept(effects, f) ==
  [n \in DOMAIN effects |->
     IF effects[n].to = f /\ ~Cuts(effects, f, n) THEN effects[n].text ELSE <<>>]

\* What is left, of the text before and of the effects.
LEMMA LeftKept ==
  ASSUME NEW effects, NEW f, NEW before
  PROVE  Left(effects, f, before) =
           (IF Cuts(effects, f, 0) THEN <<>> ELSE before) \o FlattenSeq(Kept(effects, f))
BY DEF Left, Cuts, Kept

\* Texts are joined in either order.
LEMMA Grouped ==
  ASSUME NEW a \in Seq(Chunk), NEW b \in Seq(Chunk), NEW c \in Seq(Chunk)
  PROVE  TextLonger(a \o (b \o c), a \o b, c)
BY ConcatAssociative DEF TextLonger

\* What a file holds after one effect more.
After(e, f, text) ==
  IF e.to # f THEN text ELSE IF e.truncates THEN e.text ELSE text \o e.text

\* An effect more.
LEMMA LeftAppend ==
  ASSUME NEW effects \in Seq(Effect), NEW e \in Effect, NEW f, NEW before \in Seq(Chunk)
  PROVE  /\ Left(effects, f, before) \in Seq(Chunk)
         /\ Left(Append(effects, e), f, before) = After(e, f, Left(effects, f, before))
<1> DEFINE k == Len(effects)
           a == Append(effects, e)
           n == k + 1
           old == Kept(effects, f)
           new == Kept(a, f)
           first == IF Cuts(effects, f, 0) THEN <<>> ELSE before
<1>1. /\ k \in Nat /\ n \in Nat /\ Len(a) = n /\ DOMAIN effects = 1..k /\ DOMAIN a = 1..n
      /\ a[n] = e /\ \A i \in 1..k : a[i] = effects[i]
  BY AppendProperties
<1> HIDE DEF a
<1>2. /\ \A i \in 1..k : effects[i].text \in Seq(Chunk)
      /\ e.text \in Seq(Chunk) /\ <<>> \in Seq(Chunk)
  <2>1. \A x \in Effect : x.text \in Seq(Chunk)
    BY DEF Effect
  <2>2. \A i \in 1..k : effects[i] \in Effect
    OBVIOUS
  <2> QED BY <2>1, <2>2
<1>3. old \in [1..k -> Seq(Chunk)]
  BY <1>1, <1>2 DEF Kept
<1>4. new \in [1..n -> Seq(Chunk)]
  BY <1>1, <1>2 DEF Kept
<1>5. FlattenSeq(old) \in Seq(Chunk) /\ first \in Seq(Chunk)
  <2> HIDE DEF old
  <2>1. old \in Seq(Seq(Chunk))
    BY <1>1, <1>3
  <2>2. FlattenSeq(old) \in Seq(Chunk)
    BY <1>2, <2>1, FlattenAppend
  <2> QED BY <2>2
<1>6. Left(effects, f, before) = first \o FlattenSeq(old)
  BY LeftKept
<1>7. Left(effects, f, before) \in Seq(Chunk)
  <2> HIDE DEF first, old
  <2> QED BY <1>5, <1>6, ConcatProperties
<1>8. Left(a, f, before) = (IF Cuts(a, f, 0) THEN <<>> ELSE before) \o FlattenSeq(new)
  BY LeftKept
<1>9. ~Cuts(a, f, n)
  BY <1>1 DEF Cuts
<1>10. new[n] = IF e.to = f THEN e.text ELSE <<>>
  BY <1>1, <1>9 DEF Kept
<1>11. CASE e.to = f /\ e.truncates
  <2>1. \A i \in 0..k : Cuts(a, f, i)
    BY <1>1, <1>11 DEF Cuts
  <2> DEFINE none == [i \in 1..k |-> <<>>]
  <2>2. none \in [1..k -> Seq(Chunk)] /\ none \in Seq(Seq(Chunk)) /\ Len(none) = k
        /\ \A i \in 1..Len(none) : none[i] = <<>>
    BY <1>1, <1>2
  <2>3. Agree(new, none, k)
    BY <1>1, <2>1 DEF Kept, Agree
  <2> HIDE DEF none, new
  <2>4. FlattenSeq(none) = <<>>
    BY <2>2, FlattenEmpty
  <2>5. TextLonger(FlattenSeq(new), FlattenSeq(none), new[k + 1])
    BY <1>1, <1>4, <2>2, <2>3, FlattenContinued
  <2>6. FlattenSeq(new) = e.text
    BY <1>2, <1>10, <1>11, <2>4, <2>5, ConcatEmptySeq DEF TextLonger
  <2>7. Cuts(a, f, 0)
    BY <1>1, <2>1
  <2>8. Left(a, f, before) = e.text
    BY <1>2, <1>8, <2>6, <2>7, ConcatEmptySeq
  <2> QED BY <1>7, <1>11, <2>8 DEF After, a
<1>12. CASE ~(e.to = f /\ e.truncates)
  <2>1. \A i \in 0..k : Cuts(a, f, i) <=> Cuts(effects, f, i)
    <3>1. \A m \in 1..n : m \in 1..k \/ m = n
      BY <1>1
    <3> QED BY <1>1, <1>12, <3>1 DEF Cuts
  <2>2. Agree(new, old, k)
    <3>1. \A i \in 1..k : i \in 0..k /\ i \in 1..n
      BY <1>1
    <3> QED BY <1>1, <2>1, <3>1 DEF Kept, Agree
  <2>3. (IF Cuts(a, f, 0) THEN <<>> ELSE before) = first
    BY <1>1, <2>1
  <2> HIDE DEF new, old, first
  <2>4. TextLonger(FlattenSeq(new), FlattenSeq(old), new[k + 1])
    BY <1>1, <1>3, <1>4, <2>2, FlattenContinued
  <2> DEFINE more == IF e.to = f THEN e.text ELSE <<>>
             kept == FlattenSeq(old)
  <2>5. more \in Seq(Chunk) /\ kept \in Seq(Chunk) /\ first \in Seq(Chunk)
    BY <1>2, <1>5
  <2>6. Left(a, f, before) = first \o (kept \o more)
    BY <1>8, <1>10, <2>3, <2>4 DEF TextLonger
  <2>7. Left(effects, f, before) = first \o kept
    BY <1>6
  <2>8. first \o (kept \o more) = (first \o kept) \o more
    <3> HIDE DEF more, kept
    <3>1. TextLonger(first \o (kept \o more), first \o kept, more)
      BY <2>5, Grouped
    <3> QED BY <3>1 DEF TextLonger
  <2>9. Left(a, f, before) = Left(effects, f, before) \o more
    BY <2>6, <2>7, <2>8
  <2>10. After(e, f, Left(effects, f, before)) = Left(effects, f, before) \o more
    BY <1>7, <1>12, ConcatEmptySeq DEF After
  <2> QED BY <1>7, <2>9, <2>10 DEF a
<1> QED BY <1>11, <1>12

\* What there is at a path.
Content(fs, f) == IF f \in DOMAIN fs THEN fs[f] ELSE <<>>

\* What a redirection of a command in dir, with this output, does.
EffectOf(r, dir, out) ==
  [to |-> <<dir, r.target>>, truncates |-> r.operator = ">",
   text |-> IF r.operator = "<" THEN <<>> ELSE out]

\* It is an effect.
LEMMA EffectType ==
  ASSUME NEW r \in Redirection, NEW dir \in Dirs, NEW out \in Seq(Chunk)
  PROVE  EffectOf(r, dir, out) \in Effect
<1>1. <<dir, r.target>> \in Files
  BY DEF Files, Redirection
<1>2. (r.operator = ">") \in BOOLEAN
  OBVIOUS
<1>3. (IF r.operator = "<" THEN <<>> ELSE out) \in Seq(Chunk)
  OBVIOUS
<1> QED BY <1>1, <1>2, <1>3 DEF EffectOf, Effect

\* A redirection does to a file what its effect says; an input redirection does
\* nothing.
LEMMA WriteEffect ==
  ASSUME NEW fs \in FileMap, NEW r \in Redirection, NEW text \in Seq(Chunk), cwd \in Dirs,
         NEW f
  PROVE  /\ Content(fs, f) \in Seq(Chunk)
         /\ r.operator # "<" =>
              Content(WriteTo(fs, r, text), f) = After(EffectOf(r, cwd, text), f, Content(fs, f))
         /\ r.operator = "<" => After(EffectOf(r, cwd, text), f, Content(fs, f)) = Content(fs, f)
<1> DEFINE g == FileOf(r)
           e == EffectOf(r, cwd, text)
<1>1. Content(fs, f) \in Seq(Chunk)
  BY DEF Content, FileMap
<1>2. /\ e.to = g /\ e.truncates = (r.operator = ">")
      /\ e.text = IF r.operator = "<" THEN <<>> ELSE text
  BY DEF EffectOf, FileOf
<1>3. r.operator \in {"<", ">", ">>"}
  BY DEF Redirection, Operators
<1>4. ASSUME r.operator # "<"
      PROVE  Content(WriteTo(fs, r, text), f) = After(e, f, Content(fs, f))
  <2> DEFINE old == IF r.operator = ">>" /\ g \in DOMAIN fs THEN fs[g] ELSE <<>>
  <2>1. Content(WriteTo(fs, r, text), f) = IF f = g THEN old \o text ELSE Content(fs, f)
    BY DEF WriteTo, Content
  <2>2. <<>> \o text = text
    BY ConcatEmptySeq
  <2> HIDE DEF e
  <2>3. CASE f = g /\ r.operator = ">"
    BY <1>2, <1>4, <2>1, <2>2, <2>3 DEF After
  <2>4. CASE f = g /\ r.operator = ">>"
    BY <1>2, <1>4, <2>1, <2>4 DEF After, Content
  <2>5. CASE f # g
    BY <1>2, <2>1, <2>5 DEF After
  <2> QED BY <1>3, <1>4, <2>3, <2>4, <2>5
<1>5. ASSUME r.operator = "<" PROVE After(e, f, Content(fs, f)) = Content(fs, f)
  <2> HIDE DEF e
  <2> QED BY <1>1, <1>2, <1>5, ConcatEmptySeq DEF After
<1> QED BY <1>1, <1>4, <1>5

\* Some effects and those of a command's redirections: what is left of the first
\* ones of them, as far as the redirections were followed.
LEMMA SubSeqNext ==
  ASSUME NEW T, NEW s \in Seq(T), NEW n \in Nat, n < Len(s)
  PROVE  /\ s[n + 1] \in T /\ SubSeq(s, 1, n) \in Seq(T)
         /\ OneLonger(SubSeq(s, 1, n + 1), SubSeq(s, 1, n), s[n + 1])
<1> DEFINE a == SubSeq(s, 1, n)
           b == SubSeq(s, 1, n + 1)
<1>1. Len(s) \in Nat /\ s[n + 1] \in T /\ \A i \in 1..Len(s) : s[i] \in T
  OBVIOUS
<1>2. \A i \in 1..n : s[i] \in T
  BY <1>1
<1>3. \A i \in 1..(n + 1) : s[i] \in T
  BY <1>1
<1>4. a \in Seq(T) /\ Len(a) = n /\ \A i \in 1..n : a[i] = s[i]
  BY <1>1, <1>2, SubSeqProperties
<1>5. b \in Seq(T) /\ Len(b) = n + 1 /\ \A i \in 1..(n + 1) : b[i] = s[i]
  BY <1>1, <1>3, SubSeqProperties
<1> HIDE DEF a, b
<1>6. b = Append(a, s[n + 1])
  <2> DEFINE c == Append(a, s[n + 1])
  <2>1. /\ c \in Seq(T) /\ Len(c) = n + 1 /\ \A i \in 1..n : c[i] = a[i]
        /\ c[n + 1] = s[n + 1]
    BY <1>1, <1>4, AppendProperties
  <2>2. \A i \in 1..(n + 1) : b[i] = c[i]
    <3>1. \A i \in 1..(n + 1) : i \in 1..n \/ i = n + 1
      OBVIOUS
    <3> QED BY <1>4, <1>5, <2>1, <3>1
  <2> HIDE DEF c
  <2>3. b = c
    BY <1>5, <2>1, <2>2, SeqEqual
  <2> QED BY <2>3 DEF c
<1> QED BY <1>1, <1>4, <1>6 DEF OneLonger, a, b

\* e are the effects of redirections rs of a command in cwd with this output.
AreEffects(e, rs, text) ==
  Len(e) = Len(rs) /\ \A n \in 1..Len(rs) : e[n] = EffectOf(rs[n], cwd, text)

\* At f there is what the effects h leave of a text.
Holds(fs, h, f, before) == Content(fs, f) = Left(h, f, before)

\* The files that a command leaves hold what its effects leave in them.
LEMMA WrittenEffects ==
  ASSUME files \in FileMap, cwd \in Dirs,
         NEW rs \in Seq(Redirection), NEW text \in Seq(Chunk),
         NEW h \in Seq(Effect), NEW e \in Seq(Effect), AreEffects(e, rs, text),
         NEW f, NEW before \in Seq(Chunk), Holds(files, h, f, before)
  PROVE  Holds(Written(rs, text), h \o e, f, before)
<1> USE DEF AreEffects, Holds
<1> DEFINE k == Len(rs)
           m == Len(h)
           H == h \o e
           Upto(n) == SubSeq(H, 1, m + n)
<1>1. k \in Nat /\ m \in Nat /\ \A n \in 1..k : rs[n] \in Redirection
  OBVIOUS
<1>2. /\ H \in Seq(Effect) /\ Len(H) = m + k
      /\ \A n \in 1..k : H[m + n] = EffectOf(rs[n], cwd, text)
      /\ \A n \in 1..m : H[n] = h[n]
  <2>1. /\ H \in Seq(Effect) /\ Len(H) = m + k
        /\ \A i \in 1..(m + k) : H[i] = IF i <= m THEN h[i] ELSE e[i - m]
    <3> DEFINE z == Len(e)
    <3>1. h \o e \in Seq(Effect) /\ Len(h \o e) = m + z
          /\ \A i \in 1..(m + z) : (h \o e)[i] = IF i <= m THEN h[i] ELSE e[i - m]
      BY ConcatProperties
    <3>2. z = k
      OBVIOUS
    <3> HIDE DEF z, k, m
    <3> QED BY <3>1, <3>2
  <2> HIDE DEF H
  <2>2. ASSUME NEW n \in 1..k PROVE H[m + n] = EffectOf(rs[n], cwd, text)
    <3>1. PICK i \in 1..(m + k) : i = m + n
      <4>1. m \in Nat /\ k \in Nat
        BY <1>1
      <4> HIDE DEF m, k
      <4> QED BY <4>1
    <3>2. ~(i <= m) /\ i - m = n
      BY <1>1, <3>1
    <3> QED BY <2>1, <3>1, <3>2
  <2>3. ASSUME NEW n \in 1..m PROVE H[n] = h[n]
    <3>1. n \in 1..(m + k) /\ n <= m
      BY <1>1
    <3> QED BY <2>1, <3>1
  <2> QED BY <2>1, <2>2, <2>3
<1>3. PICK a : Writing(a, rs, text) /\ Written(rs, text) = a[k]
  BY WrittenSteps
<1> HIDE DEF H
<1> DEFINE S == {n \in 0..k : Content(a[n], f) = Left(Upto(n), f, before)}
<1>4. 0 \in S
  <2>1. Upto(0) = h
    <3>1. \A i \in 1..m : H[i] \in Effect
      BY <1>1, <1>2
    <3>2. /\ SubSeq(H, 1, m) \in Seq(Effect) /\ Len(SubSeq(H, 1, m)) = m
          /\ \A i \in 1..m : SubSeq(H, 1, m)[i] = H[i]
      BY <1>1, <1>2, <3>1, SubSeqProperties
    <3>3. SubSeq(H, 1, m) = h
      BY <1>2, <3>2, SeqEqual
    <3> QED BY <1>1, <3>3
  <2>2. a[0] = files
    BY <1>3 DEF Writing
  <2>3. 0 \in 0..k
    BY <1>1
  <2> HIDE DEF Upto
  <2> QED BY <2>1, <2>2, <2>3
<1>5. ASSUME NEW j \in 0..(k - 1), j \in S PROVE j + 1 \in S
  <2>1. PICK n \in 1..k : n = j + 1
    BY <1>1
  <2>2. n - 1 = j /\ m + j \in Nat /\ m + j < Len(H) /\ (m + j) + 1 = m + n /\ j \in 0..k
    BY <1>1, <1>2, <2>1
  <2> DEFINE w == EffectOf(rs[n], cwd, text)
  <2>3. /\ w \in Effect /\ Upto(j) \in Seq(Effect)
        /\ Upto(n) = Append(Upto(j), w)
    <3> DEFINE u == m + j
    <3>1. u \in Nat /\ u < Len(H)
      BY <2>2
    <3> HIDE DEF u
    <3>2. /\ H[u + 1] \in Effect /\ SubSeq(H, 1, u) \in Seq(Effect)
          /\ OneLonger(SubSeq(H, 1, u + 1), SubSeq(H, 1, u), H[u + 1])
      BY <1>2, <3>1, SubSeqNext
    <3>3. u + 1 = m + n /\ H[m + n] = w
      BY <1>2, <2>2 DEF u
    <3> QED BY <3>2, <3>3 DEF OneLonger, u
  <2> HIDE DEF w
  <2>4. Left(Upto(n), f, before) = After(w, f, Left(Upto(j), f, before))
    <3> DEFINE x == Upto(j)
    <3>1. x \in Seq(Effect)
      BY <2>3
    <3> HIDE DEF x
    <3>2. Left(Append(x, w), f, before) = After(w, f, Left(x, f, before))
      BY <2>3, <3>1, LeftAppend
    <3> QED BY <2>3, <3>2 DEF x
  <2>5. Content(a[j], f) = Left(Upto(j), f, before)
    BY <1>5
  <2>6. a[j] \in FileMap /\ rs[n] \in Redirection
    BY <1>1, <1>3, <2>2 DEF Writing
  <2>7. a[n] = IF rs[n].operator # "<" THEN WriteTo(a[j], rs[n], text) ELSE a[j]
    <3>1. DOMAIN rs = 1..k
      OBVIOUS
    <3> QED BY <1>3, <2>2, <3>1 DEF Writing, Writes
  <2>8. Content(a[n], f) = After(w, f, Content(a[j], f))
    BY <2>6, <2>7, WriteEffect DEF w
  <2>9. Content(a[n], f) = Left(Upto(n), f, before)
    BY <2>4, <2>5, <2>8
  <2> QED BY <2>1, <2>9
<1>6. 0..k \subseteq S
  <2> HIDE DEF S, k
  <2> QED BY <1>1, <1>4, <1>5, BoundedInduction
<1>7. Content(a[k], f) = Left(Upto(k), f, before)
  <2>1. k \in 0..k
    BY <1>1
  <2> HIDE DEF Upto, k
  <2> QED BY <1>6, <2>1
<1>8. Upto(k) = H
  <2>1. \A i \in 1..(m + k) : H[i] \in Effect
    BY <1>1, <1>2
  <2>2. /\ SubSeq(H, 1, m + k) \in Seq(Effect) /\ Len(SubSeq(H, 1, m + k)) = m + k
        /\ \A i \in 1..(m + k) : SubSeq(H, 1, m + k)[i] = H[i]
    BY <1>1, <1>2, <2>1, SubSeqProperties
  <2> QED BY <1>2, <2>2, SeqEqual
<1> QED BY <1>3, <1>7, <1>8 DEF H

\* The largest of some numbers up to a bound.
LEMMA MaxOf ==
  ASSUME NEW n \in Nat, NEW S \in SUBSET (1..n), S # {}
  PROVE  Max(S) \in S /\ \A y \in S : Max(S) >= y
<1> DEFINE Has(V) == \E x \in V : \A y \in V : x >= y
           T == {k \in Nat : \A V \in SUBSET (1..k) : V # {} => Has(V)}
<1>1. 0 \in T
  <2>1. \A V \in SUBSET (1..0) : V = {}
    OBVIOUS
  <2> QED BY <2>1
<1>2. ASSUME NEW k \in Nat, k \in T PROVE k + 1 \in T
  <2>1. SUFFICES ASSUME NEW V \in SUBSET (1..(k + 1)), V # {} PROVE Has(V)
    OBVIOUS
  <2>2. CASE k + 1 \in V
    <3>1. \A y \in V : k + 1 >= y
      OBVIOUS
    <3> QED BY <2>2, <3>1
  <2>3. CASE k + 1 \notin V
    <3>1. V \in SUBSET (1..k)
      <4>1. \A y \in V : y \in 1..(k + 1) /\ y # k + 1
        BY <2>3
      <4> QED BY <4>1
    <3> QED BY <1>2, <2>1, <3>1
  <2> QED BY <2>2, <2>3
<1>3. Nat \subseteq T
  <2> HIDE DEF T
  <2> QED BY <1>1, <1>2, SetInduction
<1>4. \E x \in S : \A y \in S : x >= y
  BY <1>3
<1> QED BY <1>4 DEF Max

\* The directory of command i of a log l.
MovedBy(l, i) == {j \in 1 .. i - 1 : l[j].kind = "cd" /\ l[j].exit = 0}
DirOf(l, i) == IF MovedBy(l, i) = {} THEN Home ELSE l[Max(MovedBy(l, i))].next

\* An entry more leaves the directories of the ones before it, and says which the
\* next one has.
LEMMA DirNext ==
  ASSUME NEW l, l \in Seq(Entries(l)), NEW e
  PROVE  /\ \A i \in 1..(Len(l) + 1) : DirOf(Append(l, e), i) = DirOf(l, i)
         /\ DirOf(Append(l, e), Len(l) + 2) =
              IF e.kind = "cd" /\ e.exit = 0 THEN e.next ELSE DirOf(l, Len(l) + 1)
<1> DEFINE k == Len(l)
           a == Append(l, e)
<1>1. k \in Nat /\ Len(a) = k + 1 /\ a[k + 1] = e /\ \A i \in 1..k : a[i] = l[i]
  BY Appended
<1> HIDE DEF a
<1>2. ASSUME NEW i \in 1..(k + 1)
      PROVE  /\ MovedBy(a, i) = MovedBy(l, i) /\ DirOf(a, i) = DirOf(l, i)
  <2>1. \A j \in 1..(i - 1) : j \in 1..k
    BY <1>1
  <2>2. MovedBy(a, i) = MovedBy(l, i)
    BY <1>1, <2>1 DEF MovedBy
  <2>3. ASSUME MovedBy(l, i) # {} PROVE Max(MovedBy(l, i)) \in 1..k
    <3>1. MovedBy(l, i) \in SUBSET (1..k)
      BY <2>1 DEF MovedBy
    <3>2. Max(MovedBy(l, i)) \in MovedBy(l, i)
      BY <1>1, <2>3, <3>1, MaxOf
    <3> QED BY <3>1, <3>2
  <2> QED BY <1>1, <2>2, <2>3 DEF DirOf
<1>3. MovedBy(a, k + 2) = MovedBy(l, k + 1) \cup
                            (IF e.kind = "cd" /\ e.exit = 0 THEN {k + 1} ELSE {})
  <2>1. \A j \in 1..((k + 2) - 1) : j \in 1..k \/ j = k + 1
    BY <1>1
  <2>2. \A j \in 1..((k + 1) - 1) : j \in 1..k /\ j \in 1..((k + 2) - 1)
    BY <1>1
  <2>3. \A j \in 1..k : j \in 1..((k + 1) - 1) /\ j \in 1..((k + 2) - 1)
    BY <1>1
  <2>4. k + 1 \in 1..((k + 2) - 1)
    BY <1>1
  <2> HIDE DEF k
  <2> QED BY <1>1, <2>1, <2>2, <2>3, <2>4 DEF MovedBy
<1>4. ASSUME e.kind = "cd" /\ e.exit = 0
      PROVE  DirOf(a, k + 2) = e.next
  <2> DEFINE M == MovedBy(a, k + 2)
  <2>1. k + 1 \in M /\ M \in SUBSET (1..(k + 1)) /\ M # {}
    BY <1>1, <1>3, <1>4 DEF MovedBy
  <2> HIDE DEF M
  <2>2. Max(M) \in M /\ Max(M) >= k + 1
    BY <1>1, <2>1, MaxOf
  <2>3. Max(M) = k + 1
    <3> DEFINE max == Max(M)
    <3>1. max \in 1..(k + 1) /\ max >= k + 1
      BY <2>1, <2>2
    <3> HIDE DEF max
    <3>2. max = k + 1
      BY <1>1, <3>1
    <3> QED BY <3>2 DEF max
  <2>4. DirOf(a, k + 2) = a[k + 1].next
    BY <2>1, <2>3 DEF DirOf, M
  <2> QED BY <1>1, <1>4, <2>4
<1>5. ASSUME ~(e.kind = "cd" /\ e.exit = 0)
      PROVE  DirOf(a, k + 2) = DirOf(l, k + 1)
  <2>1. k + 1 \in 1..(k + 1)
    BY <1>1
  <2>2. DirOf(a, k + 1) = DirOf(l, k + 1) /\ MovedBy(a, k + 1) = MovedBy(l, k + 1)
    BY <1>2, <2>1
  <2>3. MovedBy(a, k + 2) = MovedBy(a, k + 1)
    BY <1>3, <1>5, <2>2
  <2>4. DirOf(a, k + 2) = DirOf(a, k + 1)
    BY <2>3 DEF DirOf
  <2> QED BY <1>5, <2>2, <2>4
<1>6. DirOf(a, k + 2) = IF e.kind = "cd" /\ e.exit = 0 THEN e.next ELSE DirOf(l, k + 1)
  BY <1>4, <1>5
<1> QED BY <1>2, <1>6 DEF a

\* The effects of the commands of a log, one after the other.
EffectsOf(l, i) ==
  [n \in 1..Len(l[i].redirections) |-> EffectOf(l[i].redirections[n], DirOf(l, i), l[i].out)]
EachEffects(l) == [i \in 1..Len(l) |-> EffectsOf(l, i)]
History(l) == FlattenSeq(EachEffects(l))

\* Targets are in the directories there are.
DirsInv ==
  /\ \A i \in 1..Len(log) : /\ log[i].redirections \in Seq(Redirection)
                            /\ log[i].out \in Seq(Chunk)
  /\ \A i \in 1..(Len(log) + 1) : DirOf(log, i) \in Dirs
  /\ pc \notin {"done", "raised"} => cwd = DirOf(log, Len(log) + 1)

FirstText(f) == IF f[1] = Home THEN OldText ELSE <<>>

FilesInv ==
  pc # "raised" => \A f \in Files : Content(files, f) = Left(History(log), f, FirstText(f))

\* The effects of a log are effects.
LEMMA EffectsTypes ==
  ASSUME NEW l, l \in Seq(Entries(l)),
         \A i \in 1..Len(l) : l[i].redirections \in Seq(Redirection) /\ l[i].out \in Seq(Chunk),
         \A i \in 1..(Len(l) + 1) : DirOf(l, i) \in Dirs
  PROVE  /\ EachEffects(l) \in [1..Len(l) -> Seq(Effect)]
         /\ Len(l) \in Nat /\ History(l) \in Seq(Effect)
<1>1. ASSUME NEW i \in 1..Len(l) PROVE EffectsOf(l, i) \in Seq(Effect)
  <2> DEFINE rs == l[i].redirections
  <2>1. rs \in Seq(Redirection) /\ l[i].out \in Seq(Chunk) /\ DirOf(l, i) \in Dirs
    OBVIOUS
  <2>2. Len(rs) \in Nat /\ \A n \in 1..Len(rs) : rs[n] \in Redirection
    BY <2>1
  <2>3. \A n \in 1..Len(rs) : EffectOf(rs[n], DirOf(l, i), l[i].out) \in Effect
    BY <2>1, <2>2, EffectType
  <2>4. EffectsOf(l, i) \in [1..Len(rs) -> Effect]
    BY <2>3 DEF EffectsOf
  <2> DEFINE c == Len(rs)
             x == EffectsOf(l, i)
  <2>5. c \in Nat /\ x \in [1..c -> Effect]
    BY <2>2, <2>4
  <2> HIDE DEF c, x
  <2>6. x \in Seq(Effect)
    BY <2>5
  <2> QED BY <2>6 DEF x
<1>2. EachEffects(l) \in [1..Len(l) -> Seq(Effect)]
  BY <1>1 DEF EachEffects
<1>3. EachEffects(l) \in Seq(Seq(Effect))
  BY <1>2
<1>4. FlattenSeq(EachEffects(l)) \in Seq(Effect)
  <2>1. <<>> \in Seq(Effect)
    OBVIOUS
  <2> QED BY <1>3, <2>1, FlattenAppend
<1> QED BY <1>2, <1>4 DEF History

\* A command more adds its effects.
LEMMA HistoryNext ==
  ASSUME NEW l, l \in Seq(Entries(l)), NEW e, NEW dir \in Dirs, dir = DirOf(l, Len(l) + 1),
         \A i \in 1..Len(l) : l[i].redirections \in Seq(Redirection) /\ l[i].out \in Seq(Chunk),
         \A i \in 1..(Len(l) + 1) : DirOf(l, i) \in Dirs,
         e.redirections \in Seq(Redirection), e.out \in Seq(Chunk), e.next \in Dirs
  PROVE  LET a == Append(l, e)
             rs == e.redirections
             w == EffectsOf(a, Len(l) + 1) IN
         /\ \A i \in 1..Len(a) : a[i].redirections \in Seq(Redirection) /\ a[i].out \in Seq(Chunk)
         /\ \A i \in 1..(Len(a) + 1) : DirOf(a, i) \in Dirs
         /\ Len(a) = Len(l) + 1
         /\ w \in Seq(Effect) /\ Len(w) = Len(rs)
         /\ \A n \in 1..Len(rs) : w[n] = EffectOf(rs[n], dir, e.out)
         /\ TextLonger(History(a), History(l), w)
<1> DEFINE k == Len(l)
           a == Append(l, e)
           rs == e.redirections
           w == EffectsOf(a, k + 1)
<1>1. k \in Nat /\ Len(a) = k + 1 /\ a[k + 1] = e /\ a \in Seq(Entries(a))
      /\ \A i \in 1..k : a[i] = l[i]
  BY Appended
<1>2. /\ \A i \in 1..(k + 1) : DirOf(a, i) = DirOf(l, i)
      /\ DirOf(a, k + 2) = IF e.kind = "cd" /\ e.exit = 0 THEN e.next ELSE DirOf(l, k + 1)
  BY DirNext
<1> HIDE DEF a
<1>3. \A i \in 1..(k + 1) : i \in 1..k \/ i = k + 1
  BY <1>1
<1>4. \A i \in 1..Len(a) : a[i].redirections \in Seq(Redirection) /\ a[i].out \in Seq(Chunk)
  BY <1>1, <1>3
<1>5. \A i \in 1..(Len(a) + 1) : DirOf(a, i) \in Dirs
  <2>1. \A i \in 1..(Len(a) + 1) : i \in 1..(k + 1) \/ i = k + 2
    BY <1>1
  <2>2. k + 1 \in 1..(k + 1)
    BY <1>1
  <2>3. DirOf(a, k + 2) \in Dirs
    BY <1>2, <2>2
  <2> QED BY <1>2, <2>1, <2>3
<1>6. EachEffects(a) \in [1..(k + 1) -> Seq(Effect)] /\ EachEffects(l) \in [1..k -> Seq(Effect)]
  BY <1>1, <1>4, <1>5, EffectsTypes
<1>7. Agree(EachEffects(a), EachEffects(l), k) /\ EachEffects(a)[k + 1] = w
  <2>1. ASSUME NEW i \in 1..k PROVE EffectsOf(a, i) = EffectsOf(l, i)
    <3>1. DirOf(a, i) = DirOf(l, i) /\ a[i] = l[i]
      BY <1>1, <1>2
    <3> QED BY <3>1 DEF EffectsOf
  <2>2. \A i \in 1..k : i \in 1..Len(a)
    BY <1>1
  <2>3. k + 1 \in 1..Len(a)
    BY <1>1
  <2> QED BY <2>1, <2>2, <2>3 DEF EachEffects, Agree
<1>8. TextLonger(FlattenSeq(EachEffects(a)), FlattenSeq(EachEffects(l)), EachEffects(a)[k + 1])
  BY <1>1, <1>6, <1>7, FlattenContinued
<1>9. w \in Seq(Effect)
  <2>1. k + 1 \in 1..(k + 1)
    BY <1>1
  <2> QED BY <1>6, <1>7, <2>1
<1>10. Len(w) = Len(rs) /\ \A n \in 1..Len(rs) : w[n] = EffectOf(rs[n], dir, e.out)
  <2>1. DirOf(a, k + 1) = dir
    BY <1>1, <1>2
  <2>2. w = [n \in 1..Len(rs) |-> EffectOf(rs[n], dir, e.out)] /\ Len(rs) \in Nat
    BY <1>1, <2>1 DEF EffectsOf
  <2> HIDE DEF w, rs
  <2> QED BY <2>2
<1> QED BY <1>1, <1>4, <1>5, <1>7, <1>8, <1>9, <1>10 DEF a, History

\* A command changes the directory only when it is a cd that succeeds.
LEMMA NextCwd ==
  ASSUME NEW kind \in Kinds, NEW result \in Success(kind) \cup Failure(kind)
  PROVE  ~(kind = "cd" /\ result.exit = 0) => result.next = cwd
<1>1. CASE kind = "builtin"
  BY <1>1 DEF Success, Failure
<1>2. CASE kind = "cd"
  BY <1>2 DEF Success, Failure
<1>3. CASE kind = "external"
  BY <1>3 DEF Success, Failure
<1> QED BY <1>1, <1>2, <1>3 DEF Kinds

\* Every step keeps the files as the effects of the log leave them.
LEMMA FilesStep ==
  ASSUME ControlInv, CountInv, TypeInv, DirsInv, FilesInv, Next
  PROVE  DirsInv' /\ FilesInv'
<1>1. /\ log \in Seq(Entries(log)) /\ files \in FileMap /\ cwd \in Dirs
      /\ command.redirections \in Seq(Redirection)
  BY DEF ControlInv, TypeInv
<1>2. ASSUME UNCHANGED log, pc' = "raised" \/ (UNCHANGED files /\ pc # "raised"),
             pc' \in {"done", "raised"} \/ (UNCHANGED cwd /\ pc \notin {"done", "raised"})
      PROVE  DirsInv' /\ FilesInv'
  BY <1>2 DEF DirsInv, FilesInv
<1>3. CASE SkipStep \/ End \/ Deadline \/ ExternalTimesOut
  BY <1>2, <1>3 DEF SkipStep, End, Deadline, ExternalTimesOut, LimitError
<1>4. CASE StartStep
  BY <1>2, <1>4 DEF StartStep, LimitError
<1>5. CASE StartCommand
  BY <1>2, <1>5 DEF StartCommand, LimitError
<1>6. CASE Refuse \/ HandlerRaises \/ WriteFails
  BY <1>2, <1>6 DEF Refuse, HandlerRaises, WriteFails, Raise
<1>7. CASE CommandEnds
  <2>1. PICK result \in Success(command.kind) \cup Failure(command.kind) :
          /\ Logged(result)
          /\ files' = Written(command.redirections, Text(result.out))
          /\ \/ LimitError(OverLimit)
             \/ cwd' = result.next
          /\ Text(result.out) \in Seq(Chunk)
    BY <1>7, CommandCases
  <2>2. PICK e : /\ log' = Append(log, e) /\ e.kind = command.kind
                 /\ e.redirections = command.redirections /\ e.out = Text(result.out)
                 /\ e.exit = result.exit /\ e.next = result.next
    BY <2>1 DEF Logged
  <2>3. command.kind \in Kinds /\ pc = "running"
    BY <1>7 DEF CommandEnds, ControlInv
  <2>4. /\ result.next \in Dirs
        /\ ~(e.kind = "cd" /\ e.exit = 0) => result.next = cwd
    BY <1>1, <2>2, <2>3, NextDir, NextCwd
  <2> DEFINE k == Len(log)
             rs == e.redirections
             w == EffectsOf(log', k + 1)
  <2>5. cwd = DirOf(log, k + 1)
    BY <2>3 DEF DirsInv
  <2>6. /\ \A i \in 1..Len(log') : /\ log'[i].redirections \in Seq(Redirection)
                                   /\ log'[i].out \in Seq(Chunk)
        /\ \A i \in 1..(Len(log') + 1) : DirOf(log', i) \in Dirs
        /\ Len(log') = k + 1
        /\ w \in Seq(Effect) /\ Len(w) = Len(rs)
        /\ \A n \in 1..Len(rs) : w[n] = EffectOf(rs[n], cwd, e.out)
        /\ TextLonger(History(log'), History(log), w)
    <3>1. /\ \A i \in 1..Len(log) : /\ log[i].redirections \in Seq(Redirection)
                                    /\ log[i].out \in Seq(Chunk)
          /\ \A i \in 1..(Len(log) + 1) : DirOf(log, i) \in Dirs
      BY DEF DirsInv
    <3>2. /\ e.redirections \in Seq(Redirection) /\ e.out \in Seq(Chunk) /\ e.next \in Dirs
      BY <1>1, <2>1, <2>2, <2>4
    <3> QED BY <1>1, <2>2, <2>5, <3>1, <3>2, HistoryNext
  <2> HIDE DEF w
  <2>7. DirsInv'
    <3>1. DirOf(log', k + 2) = result.next
      BY <1>1, <2>2, <2>4, <2>5, DirNext
    <3>2. k \in Nat /\ Len(log') + 1 = k + 2
      BY <1>1, <2>6
    <3>3. pc' \notin {"done", "raised"} => cwd' = DirOf(log', Len(log') + 1)
      <4>1. pc' \notin {"done", "raised"} => cwd' = result.next
        BY <2>1 DEF LimitError
      <4> QED BY <3>1, <3>2, <4>1
    <3> QED BY <2>6, <3>3 DEF DirsInv
  <2>8. ASSUME NEW f \in Files
        PROVE  Content(files', f) = Left(History(log'), f, FirstText(f))
    <3> DEFINE before == FirstText(f)
               h == History(log)
               text == Text(result.out)
               written == Written(rs, text)
    <3>1. before \in Seq(Chunk)
      <4>1. [by |-> 0, size |-> 1] \in Chunk
        BY ShellAssumption DEF Chunk
      <4> QED BY <4>1 DEF FirstText, OldText
    <3>2. h \in Seq(Effect)
      <4>1. /\ \A i \in 1..Len(log) : /\ log[i].redirections \in Seq(Redirection)
                                      /\ log[i].out \in Seq(Chunk)
            /\ \A i \in 1..(Len(log) + 1) : DirOf(log, i) \in Dirs
        BY DEF DirsInv
      <4> QED BY <1>1, <4>1, EffectsTypes
    <3>3. Holds(files, h, f, before)
      BY <2>3 DEF FilesInv, Holds
    <3>4. /\ rs \in Seq(Redirection) /\ text \in Seq(Chunk) /\ text = e.out
      BY <1>1, <2>1, <2>2
    <3>5. files' = written
      BY <2>1, <2>2
    <3> HIDE DEF before, h, text
    <3>6. w \in Seq(Effect) /\ AreEffects(w, rs, text)
      BY <2>6, <3>4 DEF AreEffects
    <3> HIDE DEF rs
    <3>7. Holds(written, h \o w, f, before)
      BY <1>1, <3>1, <3>2, <3>3, <3>4, <3>6, WrittenEffects
    <3>8. History(log') = h \o w
      BY <2>6 DEF TextLonger, h
    <3> HIDE DEF written
    <3> QED BY <3>5, <3>7, <3>8 DEF before, Holds
  <2> QED BY <2>7, <2>8 DEF FilesInv
<1> QED BY <1>3, <1>4, <1>5, <1>6, <1>7 DEF Next

\* A file holds what was redirected to it since it was last truncated, in order;
\* a target is one of the directory that the last successful cd chose.
THEOREM RedirectionsHold == Spec => []FilesHold
<1>1. Init => DirsInv /\ FilesInv
  <2>1. ASSUME Init PROVE DirsInv /\ FilesInv
    <3>1. /\ log = <<>> /\ Len(log) = 0 /\ cwd = Home /\ Home \in Dirs
          /\ files = [f \in {Home} \X Names |-> OldText]
      BY <2>1, ShellAssumption DEF Init
    <3>2. \A i \in 1..1 : MovedBy(log, i) = {}
      BY DEF MovedBy
    <3>3. \A i \in 1..(Len(log) + 1) : DirOf(log, i) = Home
      BY <3>1, <3>2 DEF DirOf
    <3>4. DirsInv
      <4>1. 1 \in 1..(Len(log) + 1) /\ Len(log) + 1 = 1
        BY <3>1
      <4> QED BY <3>1, <3>3, <4>1 DEF DirsInv
    <3>5. History(log) = <<>>
      <4>1. EachEffects(log) = <<>>
        BY <3>1 DEF EachEffects
      <4> QED BY <4>1, FlattenNone DEF History
    <3>6. ASSUME NEW f \in Files PROVE Content(files, f) = Left(History(log), f, FirstText(f))
      <4>1. FirstText(f) \in Seq(Chunk)
        <5>1. [by |-> 0, size |-> 1] \in Chunk
          BY ShellAssumption DEF Chunk
        <5> QED BY <5>1 DEF FirstText, OldText
      <4> DEFINE none == <<>>
      <4>2. Left(none, f, FirstText(f)) = FirstText(f)
        <5>1. ~Cuts(none, f, 0)
          BY DEF Cuts
        <5>2. Kept(none, f) = <<>>
          BY DEF Kept
        <5>3. Left(none, f, FirstText(f)) =
                (IF Cuts(none, f, 0) THEN <<>> ELSE FirstText(f)) \o FlattenSeq(Kept(none, f))
          BY LeftKept
        <5> QED BY <4>1, <5>1, <5>2, <5>3, FlattenNone, ConcatEmptySeq
      <4>3. f[1] = Home <=> f \in {Home} \X Names
        BY DEF Files
      <4>4. Content(files, f) = FirstText(f)
        BY <3>1, <4>3 DEF Content, FirstText
      <4> QED BY <3>5, <4>2, <4>4
    <3> QED BY <3>4, <3>6 DEF FilesInv
  <2> QED BY <2>1
<1>2. ControlInv /\ CountInv /\ TypeInv /\ DirsInv /\ FilesInv /\ [Next]_vars
        => DirsInv' /\ FilesInv'
  <2>1. ASSUME DirsInv, FilesInv, UNCHANGED vars PROVE DirsInv' /\ FilesInv'
    BY <2>1 DEF DirsInv, FilesInv, vars
  <2> QED BY <2>1, FilesStep
<1>3. ControlInv /\ TypeInv /\ DirsInv /\ FilesInv => FilesHold
  <2>1. ASSUME ControlInv, TypeInv, DirsInv, FilesInv PROVE FilesHold
    <3>1. DOMAIN log = 1..Len(log)
      BY <2>1 DEF ControlInv
    <3>2. \A i \in 1..Len(log) : DOMAIN log[i].redirections = 1..Len(log[i].redirections)
      BY <2>1 DEF DirsInv
    <3>3. \A i \in 1..Len(log) : DirAt(i) = DirOf(log, i)
      BY DEF DirAt, DirOf, MovedBy
    <3>4. \A i \in 1..Len(log) : Effects(i) = EffectsOf(log, i)
      BY <3>2, <3>3 DEF Effects, EffectsOf, EffectOf
    <3>5. FlattenSeq([i \in DOMAIN log |-> Effects(i)]) = History(log)
      <4>1. [i \in DOMAIN log |-> Effects(i)] = EachEffects(log)
        BY <3>1, <3>4 DEF EachEffects
      <4> QED BY <4>1 DEF History
    <3>6. DOMAIN files \subseteq Files
      BY <2>1 DEF TypeInv, FileMap
    <3>7. ASSUME pc # "raised", NEW f \in DOMAIN files
          PROVE  files[f] = Left(History(log), f, IF f[1] = Home THEN OldText ELSE <<>>)
      BY <2>1, <3>6, <3>7 DEF FilesInv, Content, FirstText
    <3> QED BY <3>5, <3>7 DEF FilesHold
  <2> QED BY <2>1
<1> QED BY Counted, Typed, <1>1, <1>2, <1>3, PTL DEF Spec
=============================================================================
