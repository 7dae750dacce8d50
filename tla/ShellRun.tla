------------------------------ MODULE ShellRun ------------------------------
(***************************************************************************)
(* One call of the bash tool (py_agent_tools/builtin.py): the pipelines of  *)
(* a parsed program run one after the other, each if its condition allows,  *)
(* their commands run one after the other, redirections read and write      *)
(* files, and a budget of time, pipelines, commands and output ends it all. *)
(*                                                                          *)
(* The executor never looks ahead in the program, so a step or a command of *)
(* the program is chosen when the executor reaches it.  A text is a         *)
(* sequence of chunks, each a non-empty output of a command.  What commands *)
(* do by themselves to files (mkdir, cp, mv, external ones) is left out, and *)
(* so are the message of a limit, and stderr pipes, which the parser of the *)
(* bash tool does not accept.                                               *)
(***************************************************************************)
EXTENDS Naturals, FiniteSets, SequencesExt

CONSTANTS
  Dirs,          \* the directories cd may reach; relative targets depend on them
  Home,          \* the executor's own cwd, where every program starts
  Names,         \* targets of redirections
  MaxSteps,      \* ShellLimits.max_pipelines, checked by the parser
  MaxInPipeline, \* ShellLimits.max_commands_per_pipeline, checked by the parser
  MaxRedirections, \* ShellLimits.max_redirections_per_command, by the parser
  MaxPipelines, MaxCommands, MaxOutput, \* BashExecutionLimits
  MaxSize,       \* bound: the size of one output to stdout (1 to stderr)
  Disruptions    \* subset of {"refuse", "disk", "deadline"}

ASSUME ShellAssumption ==
  /\ Home \in Dirs
  /\ {MaxSteps, MaxInPipeline, MaxPipelines, MaxCommands} \subseteq Nat \ {0}
  /\ {MaxRedirections, MaxOutput, MaxSize} \subseteq Nat
  /\ Disruptions \subseteq {"refuse", "disk", "deadline"}

VARIABLES
  pc,       \* "step", "command": the heads of the two loops; "running": in a
            \* command's handler; "done": returned; "raised": an exception
  steps,    \* the steps passed, each with its condition and exit code
  lastExit, \* last_exit_code
  cwd,      \* runtime_cwd
  pipeline, \* the pipeline at work: its condition, input and stderr
  command,  \* the command at work: its kind, redirections and input
  budget,   \* _ShellExecutionBudget: pipelines, commands, output
  late,     \* no time remains
  stdout, stderr, exitCode, \* what bash returns
  files,    \* a function from the files there are to their texts
  log       \* history: one record for each command that came to its end

vars == <<pc, steps, lastExit, cwd, pipeline, command, budget, late,
          stdout, stderr, exitCode, files, log>>

Conditions == {"always", "on_success", "on_failure"}
Operators == {"<", ">", ">>"}
Kinds == {"builtin", "cd", "external"}
Files == Dirs \X Names
Skipped == 1000    \* the exit code recorded of a step that did not run
TimedOut == 124
OverLimit == 125
ExitCodes == {0, 1} \* a failure is any other code than 0

Chunk == [by: 0 .. MaxCommands + 1, size: 1 .. MaxSize + 1]
Redirection == [operator: Operators, target: Names]
Redirections == BoundedSeq(Redirection, MaxRedirections)
NoPipeline == [condition |-> "always", place |-> 0, input |-> <<>>, stderr |-> <<>>]
NoCommand == [kind |-> "builtin", redirections |-> <<>>, input |-> <<>>]

\* What a handler returns.  Built-in commands write to stderr only when they
\* fail, with a usage error; cd alone changes the directory, and a cd that fails
\* is like any built-in command that fails.
Success(kind) ==
  CASE kind = "builtin" -> [exit: {0}, out: 0 .. MaxSize, err: {0}, next: {cwd}]
    [] kind = "cd" -> [exit: {0}, out: {0}, err: {0}, next: Dirs]
    [] kind = "external" ->
         [exit: {0}, out: 0 .. MaxSize, err: 0 .. 1, next: {cwd}]

Failure(kind) ==
  CASE kind = "builtin" -> [exit: {1}, out: {0}, err: {1}, next: {cwd}]
    [] kind = "cd" -> {}
    [] kind = "external" ->
         [exit: {1}, out: 0 .. MaxSize, err: 0 .. 1, next: {cwd}]

\* Every target is a file in Home at first, and there is none elsewhere.
OldText == <<[by |-> 0, size |-> 1]>>

Init ==
  /\ pc = "step" /\ steps = <<>> /\ lastExit = 0 /\ cwd = Home
  /\ pipeline = NoPipeline /\ command = NoCommand
  /\ budget = [pipelines |-> 0, commands |-> 0, output |-> 0] /\ late = FALSE
  /\ stdout = <<>> /\ stderr = <<>> /\ exitCode = 0 /\ log = <<>>
  /\ files = [f \in {Home} \X Names |-> OldText]

\* Mutant of TimeRemains: ensure_time_remaining before an external command only.
TimeRemainsOutside == late => command.kind # "external"

TimeRemains == ~late

\* Mutant of ShouldRun: `||` runs after a success.
ShouldRunAny(condition, code) == condition = "on_success" => code = 0

ShouldRun(condition, code) ==
  \/ condition = "always"
  \/ condition = "on_success" /\ code = 0
  \/ condition = "on_failure" /\ code # 0

\* Mutant of LimitError: a limit ends its pipeline only.
LimitErrorGoesOn(code) ==
  /\ pc' = "step" /\ exitCode' = code
  /\ pipeline' = NoPipeline /\ command' = NoCommand
  /\ UNCHANGED <<steps, lastExit, cwd, stdout, stderr>>

\* _ShellExecutionLimitError caught: what earlier pipelines gave is returned,
\* what the pipeline at work gave is not.
LimitError(code) ==
  /\ pc' = "done" /\ exitCode' = code
  /\ pipeline' = NoPipeline /\ command' = NoCommand
  /\ UNCHANGED <<steps, lastExit, cwd, stdout, stderr>>

-----------------------------------------------------------------------------
(* The loop over the steps of the program. *)

NextCondition == IF steps = <<>> THEN {"always"} ELSE Conditions

SkipStep ==
  /\ pc = "step" /\ Len(steps) < MaxSteps
  /\ \E condition \in NextCondition :
       /\ ~ShouldRun(condition, lastExit)
       /\ steps' = Append(steps, [condition |-> condition, exit |-> Skipped])
  /\ UNCHANGED <<pc, lastExit, cwd, pipeline, command, budget, late, stdout,
                 stderr, exitCode, files, log>>

OpenPipeline(condition) ==
  /\ pipeline' = [NoPipeline EXCEPT !.condition = condition]
  /\ pc' = "command"

StartStep ==
  /\ pc = "step" /\ Len(steps) < MaxSteps
  /\ \E condition \in NextCondition :
       /\ ShouldRun(condition, lastExit)
       /\ IF ~TimeRemains
          THEN LimitError(TimedOut) /\ UNCHANGED budget
          ELSE /\ budget' = [budget EXCEPT !.pipelines = @ + 1]
               /\ IF budget'.pipelines > MaxPipelines
                  THEN LimitError(OverLimit)
                  ELSE /\ OpenPipeline(condition)
                       /\ UNCHANGED <<steps, lastExit, cwd, command, stdout,
                                      stderr, exitCode>>
  /\ UNCHANGED <<late, files, log>>

\* The steps are exhausted; the parser lets no empty program through.
End ==
  /\ pc = "step" /\ steps # <<>>
  /\ pc' = "done" /\ exitCode' = lastExit
  /\ UNCHANGED <<steps, lastExit, cwd, pipeline, command, budget, late, stdout,
                 stderr, files, log>>

-----------------------------------------------------------------------------
(* The loop over the commands of a pipeline. *)

FileOf(redirection) == <<cwd, redirection.target>>
Reads(redirections) == {n \in DOMAIN redirections : redirections[n].operator = "<"}
Writes(redirections) == {n \in DOMAIN redirections : redirections[n].operator # "<"}
Readable(redirections) ==
  \A n \in Reads(redirections) : FileOf(redirections[n]) \in DOMAIN files

CommandInput(redirections) ==
  IF Reads(redirections) = {} THEN pipeline.input
  ELSE files[FileOf(redirections[Max(Reads(redirections))])]

NoteCommand == budget' = [budget EXCEPT !.commands = @ + 1]

\* Budget first, then the redirections: a target that the policy refuses or an
\* input that is no file raises a ToolError, which nothing in the program catches.
StartCommand ==
  /\ pc = "command"
  /\ IF ~TimeRemains
     THEN LimitError(TimedOut) /\ UNCHANGED budget
     ELSE /\ NoteCommand
          /\ IF budget'.commands > MaxCommands
             THEN LimitError(OverLimit)
             ELSE /\ \E kind \in Kinds, redirections \in Redirections :
                       /\ Readable(redirections)
                       /\ command' = [kind |-> kind, redirections |-> redirections,
                                      input |-> CommandInput(redirections)]
                  /\ pc' = "running"
                  /\ UNCHANGED <<steps, lastExit, cwd, pipeline, stdout, stderr,
                                 exitCode>>
  /\ UNCHANGED <<late, files, log>>

Raise ==
  /\ pc' = "raised"
  /\ pipeline' = NoPipeline /\ command' = NoCommand
  /\ UNCHANGED <<steps, lastExit, cwd, late, stdout, stderr, exitCode, log>>

Refuse ==
  /\ pc = "command" /\ TimeRemains /\ budget.commands < MaxCommands
  /\ \E redirections \in Redirections :
       \/ ~Readable(redirections)
       \/ "refuse" \in Disruptions /\ redirections # <<>>
  /\ NoteCommand /\ Raise
  /\ UNCHANGED files

\* A handler that raises: a path the policy refuses, options it cannot parse; or
\* an external program that the system does not execute or whose output is no text.
HandlerRaises ==
  /\ pc = "running" /\ "refuse" \in Disruptions
  /\ command.kind = "external" => TimeRemains
  /\ Raise
  /\ UNCHANGED <<budget, files>>

\* Mutant of WriteTo: every write truncates.
WriteToAnew(fs, redirection, text) ==
  LET f == FileOf(redirection)
  IN  [g \in DOMAIN fs \cup {f} |-> IF g = f THEN text ELSE fs[g]]

\* A target takes the output: after what it holds, or in its place.
WriteTo(fs, redirection, text) ==
  LET f == FileOf(redirection)
      old == IF redirection.operator = ">>" /\ f \in DOMAIN fs THEN fs[f] ELSE <<>>
  IN  [g \in DOMAIN fs \cup {f} |-> IF g = f THEN old \o text ELSE fs[g]]

\* _apply_output_redirections: each target takes the output, in their order.
Written(redirections, text) ==
  LET after[n \in 0 .. Len(redirections)] ==
        IF n = 0 THEN files
        ELSE IF n \in Writes(redirections)
        THEN WriteTo(after[n - 1], redirections[n], text)
        ELSE after[n - 1]
  IN  after[Len(redirections)]

Text(size) == IF size = 0 THEN <<>> ELSE <<[by |-> Len(log) + 1, size |-> size]>>
Visible(size) == IF Writes(command.redirections) = {} THEN Text(size) ELSE <<>>

\* Mutant of NoteOutput: stderr is returned without being counted.
NoteOutputStdout(result) ==
  budget' = [budget EXCEPT !.output =
               @ + (IF Visible(result.out) = <<>> THEN 0 ELSE result.out)]

\* What is noted of a result: visible stdout first, then stderr.
NoteOutput(result) ==
  LET out == IF Visible(result.out) = <<>> THEN 0 ELSE result.out
      noted == budget.output + out
  IN  budget' = [budget EXCEPT !.output =
                   IF noted > MaxOutput THEN noted ELSE noted + result.err]

Logged(result) ==
  log' = Append(log, [step |-> Len(steps) + 1, place |-> pipeline.place + 1,
                      kind |-> command.kind, dir |-> cwd, redirections |-> command.redirections,
                      input |-> command.input, out |-> Text(result.out),
                      visible |-> Visible(result.out), err |-> result.err,
                      exit |-> result.exit, next |-> result.next, late |-> late])

WriteFails ==
  /\ pc = "running" /\ "disk" \in Disruptions
  /\ command.kind = "external" => TimeRemains
  /\ \E size \in 0 .. MaxSize, n \in Writes(command.redirections) :
       /\ command.kind = "cd" => size = 0
       /\ files' = Written(SubSeq(command.redirections, 1, n - 1), Text(size))
  /\ Raise
  /\ UNCHANGED budget

PipelineStderr(result) == pipeline.stderr \o Text(result.err)

\* Mutant of ClosePipeline: the stdout of a failed pipeline is kept.
ClosePipelineKeeps(result) ==
  /\ pc' = "step"
  /\ stdout' = stdout \o Visible(result.out)
  /\ stderr' = stderr \o PipelineStderr(result)
  /\ lastExit' = result.exit
  /\ steps' = Append(steps, [condition |-> pipeline.condition, exit |-> result.exit])
  /\ pipeline' = NoPipeline

\* The end of a pipeline; of one that failed, stdout is dropped.
ClosePipeline(result) ==
  /\ pc' = "step"
  /\ stdout' = IF result.exit = 0 THEN stdout \o Visible(result.out) ELSE stdout
  /\ stderr' = stderr \o PipelineStderr(result)
  /\ lastExit' = result.exit
  /\ steps' = Append(steps, [condition |-> pipeline.condition, exit |-> result.exit])
  /\ pipeline' = NoPipeline

\* Mutant of NextCommand: the pipe is fed with redirected output too.
NextCommandTees(result) ==
  /\ pc' = "command" /\ pipeline.place + 1 < MaxInPipeline
  /\ pipeline' = [condition |-> pipeline.condition, place |-> pipeline.place + 1,
                   input |-> Text(result.out), stderr |-> PipelineStderr(result)]
  /\ UNCHANGED <<stdout, stderr, lastExit, steps>>

NextCommand(result) ==
  /\ pc' = "command" /\ pipeline.place + 1 < MaxInPipeline
  /\ pipeline' = [condition |-> pipeline.condition, place |-> pipeline.place + 1,
                   input |-> Visible(result.out), stderr |-> PipelineStderr(result)]
  /\ UNCHANGED <<stdout, stderr, lastExit, steps>>

\* A handler returns, its output is written and counted, and the pipeline goes
\* on if the command succeeded and was not the last.
CommandEnds ==
  /\ pc = "running"
  /\ command.kind = "external" => TimeRemains
  /\ \E result \in Success(command.kind) \cup Failure(command.kind) :
       /\ files' = Written(command.redirections, Text(result.out))
       /\ Logged(result)
       /\ NoteOutput(result)
       /\ IF budget'.output > MaxOutput
          THEN LimitError(OverLimit)
          ELSE /\ \/ ClosePipeline(result)
                  \/ result.exit = 0 /\ NextCommand(result)
               /\ cwd' = result.next /\ command' = NoCommand
               /\ UNCHANGED exitCode
  /\ UNCHANGED late

\* subprocess.run with the time that remains, or none remaining any more.
ExternalTimesOut ==
  /\ pc = "running" /\ command.kind = "external" /\ ~TimeRemains
  /\ LimitError(TimedOut)
  /\ UNCHANGED <<budget, late, files, log>>

\* Time passes; all that is read of it is whether some remains.
Deadline ==
  /\ pc \notin {"done", "raised"} /\ "deadline" \in Disruptions /\ ~late
  /\ late' = TRUE
  /\ UNCHANGED <<pc, steps, lastExit, cwd, pipeline, command, budget, stdout,
                 stderr, exitCode, files, log>>

Next ==
  \/ SkipStep \/ StartStep \/ End
  \/ StartCommand \/ Refuse \/ HandlerRaises \/ CommandEnds \/ WriteFails
  \/ ExternalTimesOut \/ Deadline

Spec == Init /\ [][Next]_vars
-----------------------------------------------------------------------------
(* Properties. *)

TypeBudget ==
  /\ budget.pipelines \in 0 .. MaxPipelines + 1
  /\ budget.commands \in 0 .. MaxCommands + 1
  /\ budget.output \in 0 .. MaxOutput + MaxSize + 1

\* The state is what the code's variables can hold; a counter passes its limit
\* by the one call that exceeds it.
TypeOK ==
  /\ pc \in {"step", "command", "running", "done", "raised"}
  /\ steps \in Seq([condition: Conditions, exit: ExitCodes \cup {Skipped}])
  /\ lastExit \in ExitCodes /\ exitCode \in ExitCodes \cup {TimedOut, OverLimit}
  /\ cwd \in Dirs /\ late \in BOOLEAN
  /\ pipeline \in [condition: Conditions, place: 0 .. MaxInPipeline - 1,
                   input: Seq(Chunk), stderr: Seq(Chunk)]
  /\ command.kind \in Kinds /\ command.redirections \in Seq(Redirection)
  /\ TypeBudget
  /\ {stdout, stderr} \subseteq Seq(Chunk)
  /\ DOMAIN files \subseteq Files

Size(text) ==
  LET upTo[n \in 0 .. Len(text)] ==
        IF n = 0 THEN 0 ELSE upTo[n - 1] + text[n].size
  IN  upTo[Len(text)]

\* BashExecutionLimits bounds what runs, whatever the program is: the commands
\* that came to their end and the pipelines they ran in; and the time limit
\* stops the program at the command that overruns it: after a command that
\* ended late no other one ends, in its pipeline or in a later one.
WithinLimits ==
  /\ Len(log) <= MaxCommands
  /\ Cardinality({log[i].step : i \in DOMAIN log}) <= MaxPipelines
  /\ \A i \in DOMAIN log : log[i].late => i = Len(log)

\* They bound the whole call: what runs and what is returned of its output.
Bounded == WithinLimits /\ Size(stdout) + Size(stderr) <= MaxOutput

\* The values of the and-or lists that end with the steps of a list, read as
\* Boolean expressions that associate to the left; a step that did not run has
\* none.
ListValue(list) ==
  LET value[k \in 0 .. Len(list)] ==
        IF k = 0 THEN TRUE
        ELSE CASE list[k].condition = "always" -> list[k].exit = 0
               [] list[k].condition = "on_success" ->
                    value[k - 1] /\ list[k].exit = 0
               [] list[k].condition = "on_failure" ->
                    value[k - 1] \/ list[k].exit = 0
  IN  value

\* `;`, `&&` and `||`: a step is left out exactly when the list before it
\* decides the value, and the code of the program is the value of its last list.
AndOrLists ==
  /\ \A k \in DOMAIN steps :
       steps[k].exit = Skipped <=>
         \/ steps[k].condition = "on_success" /\ ~ListValue(steps)[k - 1]
         \/ steps[k].condition = "on_failure" /\ ListValue(steps)[k - 1]
  /\ lastExit = 0 <=> ListValue(steps)[Len(steps)]

Passed(i) == log[i].step <= Len(steps)
EndsStep(i) == Passed(i) /\ (i < Len(log) => log[i + 1].step # log[i].step)
ErrorText(i) == IF log[i].err = 0 THEN <<>> ELSE <<[by |-> i, size |-> log[i].err]>>

\* What bash returns, after an end and after a limit: of each pipeline that
\* succeeded, what its last command left on stdout; of each pipeline that came
\* to its end, all of stderr; both in the order in which they were written.
OutputOfSteps ==
  /\ stdout = FlattenSeq([i \in DOMAIN log |->
                IF EndsStep(i) /\ log[i].exit = 0 THEN log[i].visible ELSE <<>>])
  /\ stderr = FlattenSeq([i \in DOMAIN log |->
                IF Passed(i) THEN ErrorText(i) ELSE <<>>])

\* A command without an input redirection reads what the command before it in
\* its pipeline left on stdout, or nothing; and that command succeeded.
PipesFeed ==
  \A i \in DOMAIN log : Reads(log[i].redirections) = {} =>
    IF log[i].place = 1 THEN log[i].input = <<>>
    ELSE /\ log[i - 1].step = log[i].step /\ log[i - 1].exit = 0
         /\ log[i].input = log[i - 1].visible

DirAt(i) ==
  LET moved == {j \in 1 .. i - 1 : log[j].kind = "cd" /\ log[j].exit = 0}
  IN  IF moved = {} THEN Home ELSE log[Max(moved)].next

\* What the redirections of command i did to their targets; those of input did
\* nothing.
Effects(i) ==
  [n \in DOMAIN log[i].redirections |->
     LET r == log[i].redirections[n] IN
     [to |-> <<DirAt(i), r.target>>, truncates |-> r.operator = ">",
      text |-> IF r.operator = "<" THEN <<>> ELSE log[i].out]]

\* What is left of some effects in file f, where there was a text before.
Left(effects, f, before) ==
  LET Cut(n) == \E m \in DOMAIN effects : /\ m > n
                                          /\ effects[m].to = f /\ effects[m].truncates
  IN  (IF Cut(0) THEN <<>> ELSE before)
      \o FlattenSeq([n \in DOMAIN effects |->
                       IF effects[n].to = f /\ ~Cut(n) THEN effects[n].text ELSE <<>>])

\* A file holds what was redirected to it since it was last truncated, in
\* order, by commands that succeed and commands that fail; a target is one of
\* the directory that the last successful cd of the program chose, in whatever
\* pipeline.  (An exception may leave the files in the middle of a command.)
FilesHold ==
  pc # "raised" =>
    \A f \in DOMAIN files :
      files[f] = Left(FlattenSeq([i \in DOMAIN log |-> Effects(i)]), f,
                      IF f[1] = Home THEN OldText ELSE <<>>)
=============================================================================
