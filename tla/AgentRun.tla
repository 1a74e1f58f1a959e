------------------------------ MODULE AgentRun ------------------------------
(***************************************************************************)
(* One activity that runs the coding agent (piagent): attempts that feed   *)
(* one Pi session, each a loop of pi processes that goes on while a run    *)
(* trailed off with a compaction of its context.                           *)
(*                                                                         *)
(* Pi's events are read one at a time.  Texts and token counts are small   *)
(* numbers, 0 for none; what the heartbeats show is left out.              *)
(***************************************************************************)
EXTENDS Integers

CONSTANTS
  maxResumes,  \* resumes of one attempt
  MaxAttempts, \* attempts of the activity
  MaxEvents    \* events of one pi process

VARIABLES
  step,      \* "idle", "running", "exited", "returned" or "failed"
  attempt,   \* attempts begun
  resumes,   \* resumes of this attempt
  input,     \* what the process was sent: the task or "continue"
  told,      \* the session has the task
  events,    \* events read from this process
  progress,  \* what apply keeps of them
  res,       \* what runLoop has so far
  spent,     \* tokens the processes of this attempt used
  trailing   \* the last thing the agent did was to compact its context

vars == <<step, attempt, resumes, input, told, events, progress, res, spent, trailing>>

Fresh == [tokens |-> 0, compacted |-> FALSE, final |-> 0]
Nothing == [output |-> 0, tokens |-> 0]

Init ==
  /\ step = "idle" /\ attempt = 0 /\ resumes = 0 /\ input = "none" /\ told = FALSE
  /\ events = 0 /\ progress = Fresh /\ res = Nothing /\ spent = 0 /\ trailing = FALSE

\* runAgentInSession and runLoop: every attempt sends the task, in the session
\* that the workflow run's attempts share.
RunAgent ==
  /\ step = "idle" /\ attempt < MaxAttempts
  /\ step' = "running" /\ attempt' = attempt + 1 /\ resumes' = 0 /\ input' = "task"
  /\ events' = 0 /\ progress' = Fresh /\ res' = Nothing /\ spent' = 0 /\ trailing' = FALSE
  /\ UNCHANGED told

\* Pi takes its input before it does anything.
Told == told' = (told \/ input = "task")

\* progress.apply.  Work of the agent: a turn, a message, a tool.
Applied(kind, tokens, text) ==
  [tokens    |-> progress.tokens + (IF kind = "message" THEN tokens ELSE 0),
   compacted |-> FALSE,
   final     |-> IF kind = "message" /\ text # 0 THEN text ELSE progress.final]

Work(kind, tokens, text) ==
  /\ step = "running" /\ events < MaxEvents
  /\ events' = events + 1 /\ progress' = Applied(kind, tokens, text) /\ Told
  /\ spent' = spent + (IF kind = "message" THEN tokens ELSE 0) /\ trailing' = FALSE
  /\ UNCHANGED <<step, attempt, resumes, input, res>>

\* A compaction ends: one Pi retries after, one that was aborted or failed, or
\* one that reached the threshold and ends a run that is not interactive.
Compacted(reason) == progress.compacted \/ reason = "threshold"

Compact(reason) ==
  /\ step = "running" /\ events < MaxEvents
  /\ events' = events + 1 /\ progress' = [progress EXCEPT !.compacted = Compacted(reason)] /\ Told
  /\ trailing' = (trailing \/ reason = "threshold")
  /\ UNCHANGED <<step, attempt, resumes, input, res, spent>>

\* runOnce returns: the process is over.
Exit ==
  /\ step = "running" /\ step' = "exited" /\ Told
  /\ UNCHANGED <<attempt, resumes, input, events, progress, res, spent, trailing>>

\* Mutants of Took and Answer: a resume starts the result over; an attempt at the
\* cap answers with what there is.
TookLastOnly == [output |-> progress.final, tokens |-> progress.tokens]
Took ==
  [output |-> IF progress.final # 0 THEN progress.final ELSE res.output,
   tokens |-> res.tokens + progress.tokens]

AnswerAnyway == "returned"
Answer == IF progress.compacted THEN "attempt failed" ELSE "returned"

Resume ==
  /\ step = "exited" /\ progress.compacted /\ resumes < maxResumes
  /\ res' = Took /\ resumes' = resumes + 1 /\ input' = "continue"
  /\ step' = "running" /\ events' = 0 /\ progress' = Fresh /\ trailing' = FALSE
  /\ UNCHANGED <<attempt, told, spent>>

Retried == IF attempt < MaxAttempts THEN "idle" ELSE "failed"

Return ==
  /\ step = "exited" /\ (progress.compacted => resumes = maxResumes)
  /\ res' = Took /\ step' = IF Answer = "returned" THEN "returned" ELSE Retried
  /\ UNCHANGED <<attempt, resumes, input, told, events, progress, spent, trailing>>

\* Pi cannot be started or exits with an error, or the attempt is cancelled or
\* times out and Pi is interrupted.
Fail ==
  /\ step = "running" /\ step' = Retried
  /\ UNCHANGED <<attempt, resumes, input, told, events, progress, res, spent, trailing>>

Next ==
  \/ RunAgent \/ Exit \/ Resume \/ Return \/ Fail
  \/ \E kind \in {"turn", "message", "tool"}, tokens, text \in {0, 1} : Work(kind, tokens, text)
  \/ \E reason \in {"threshold", "retrying", "aborted"} : Compact(reason)

Spec == Init /\ [][Next]_vars

-----------------------------------------------------------------------------
\* An answer is one of an agent that had the task and was done with it: its
\* last process did not trail off in a compaction, and every token of the
\* attempt, resumes and all, is counted (runLoop: "the task is known to be
\* unfinished: fail rather than return partial output as success").
AnswersFinishedWork ==
  step = "returned" => told /\ ~trailing /\ res.tokens = spent

=============================================================================
