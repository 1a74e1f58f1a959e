----------------------------- MODULE ReviewLoop -----------------------------
(***************************************************************************)
(* The local review loop (codereview.ReviewWorkflow): passes that continue *)
(* as new, each implementing the previous pass's review in the developer's *)
(* own checkout and reviewing again.                                       *)
(*                                                                         *)
(* A step is one attempt of one activity, or the workflow code between two *)
(* of them.  An attempt may fail before or after taking effect, and may    *)
(* take effect while its completion is lost, so that it is retried; a      *)
(* cancelled pass fails the step it is in.                                 *)
(***************************************************************************)
EXTENDS WorkingTree, ReviewBounds

VARIABLES
  repo,      \* the developer's checkout
  pc,        \* the step the running pass is in
  steered,   \* Settings: the loop stops for the operator
  summary,   \* ReviewInput.Summary
  pass,      \* ReviewInput.Pass
  resets,    \* ReviewInput.Resets
  payload,   \* ReviewInput.Payload is not blank
  total,     \* tokens carried across passes, this pass's included
  rec,       \* the pass's record: its tokens and its ending
  cp,        \* Checkpoint.Stashed
  attempt,   \* attempts made of the activity in progress
  agentRan,  \* an agent ran in this run
  cancelled, \* a cancellation was requested
  outcome,   \* what the loop returned
  announced, \* notifications the loop sent about its end
  spent,     \* observer: tokens agents reported
  recorded,  \* observer: tokens the settled rows sum to
  unsettled, \* observer: some pass's terminal write was lost
  touched    \* observer: an agent committed in this pass

inputVars == <<steered, summary, pass, resets, payload>>
costVars  == <<total, spent, recorded, unsettled>>
endVars   == <<outcome, announced>>
vars == <<repo, pc, inputVars, rec, cp, attempt, agentRan, cancelled, costVars,
          endVars, touched>>

NoRecord == [tokens |-> 0, ending |-> "none"]

Endings == {"converged", "operator-accepted", "operator-stopped", "pass-cap"}

\* The loop starts in a clean or a dirty checkout, with or without an older
\* stash entry of the developer's, with steering and summaries on or off.
Init ==
  /\ repo \in {[tree |-> t, stash |-> s, ahead |-> FALSE] :
                 t \in {{}, {"mine"}}, s \in {<<>>, <<{"older"}>>}}
  /\ pc = "start"
  /\ steered \in BOOLEAN /\ summary \in BOOLEAN
  /\ pass = 0 /\ resets = 0 /\ payload = FALSE
  /\ total = 0 /\ spent = 0 /\ recorded = 0 /\ unsettled = FALSE
  /\ rec = NoRecord /\ cp = FALSE /\ attempt = 0 /\ agentRan = FALSE
  /\ cancelled = FALSE
  /\ outcome = "running" /\ announced = {}
  /\ touched = FALSE

-----------------------------------------------------------------------------
(* An attempt of an activity, under the retry policy of its step.          *)

Succeeds == ~cancelled /\ attempt' = 0

\* Mutant of Retries: the policy has no MaximumAttempts.
RetriesForever(limit) == ~cancelled /\ attempt' = attempt

Retries(limit) == ~cancelled /\ attempt + 1 < limit /\ attempt' = attempt + 1
GivesUp(limit) == (cancelled \/ attempt + 1 >= limit) /\ attempt' = 0

\* The step's failure is retried in place, or fails the pass.
Fails(limit) ==
  \/ Retries(limit) /\ UNCHANGED <<pc, outcome>>
  \/ GivesUp(limit) /\ pc' = "settle" /\ outcome' = "failed"

-----------------------------------------------------------------------------
(* The pass.                                                               *)

\* startReviewState, then the instructions and settings: all must succeed.
\* A failed start write returns before the record's settlement is deferred.
StartPass ==
  /\ pc = "start"
  /\ \/ /\ ~cancelled
        /\ pc' = IF ~payload THEN "review" ELSE IF steered THEN "pause" ELSE "checkpoint"
        /\ UNCHANGED endVars
     \/ pc' = "settle" /\ outcome' = "failed" /\ UNCHANGED announced
     \/ /\ pc' = "ended" /\ outcome' = "failed"
        /\ announced' = announced \cup {"failure"}
  /\ UNCHANGED <<repo, inputVars, rec, cp, attempt, agentRan, cancelled, costVars, touched>>

\* The operator's answer to the round, or the session's failure.
Pause ==
  /\ pc = "pause"
  /\ \/ pc' = "checkpoint" /\ ~cancelled /\ UNCHANGED <<rec, outcome>>
     \/ /\ pc' = "complete" /\ ~cancelled
        /\ rec' = [rec EXCEPT !.ending = "operator-stopped"]
        /\ UNCHANGED outcome
     \/ pc' = "settle" /\ outcome' = "failed" /\ UNCHANGED rec
  /\ UNCHANGED <<repo, inputVars, cp, attempt, agentRan, cancelled, costVars,
                 announced, touched>>

\* Mutant of MarkHeadAndStash: the dirty tree is not stashed.
MarkHeadOnly ==
  /\ pc = "checkpoint"
  /\ repo' = [repo EXCEPT !.ahead = FALSE]
  /\ \/ Succeeds /\ cp' = FALSE /\ pc' = "implement" /\ UNCHANGED outcome
     \/ Fails(QuickAttempts) /\ UNCHANGED cp
  /\ UNCHANGED <<inputVars, rec, agentRan, cancelled, costVars, announced, touched>>

\* MarkHeadAndStash: the attempt that succeeds decides what was stashed; one
\* whose completion is lost has stashed all the same.
MarkHeadAndStash ==
  /\ pc = "checkpoint"
  /\ LET marked == [repo EXCEPT !.ahead = FALSE] IN
       \/ /\ HasChanges(repo) => CanStash(repo)
          /\ repo' = IF HasChanges(repo) THEN Stash(marked) ELSE marked
          /\ \/ Succeeds /\ cp' = HasChanges(repo) /\ pc' = "implement" /\ UNCHANGED outcome
             \/ Fails(QuickAttempts) /\ UNCHANGED cp
       \/ Fails(QuickAttempts) /\ UNCHANGED <<repo, cp>>
  /\ UNCHANGED <<inputVars, rec, agentRan, cancelled, costVars, announced, touched>>

\* RunImplementAgent: a failed attempt leaves what it did in the checkout.
RunImplementAgent ==
  /\ pc = "implement"
  /\ repo' \in AgentTurns(repo)
  /\ touched' = (touched \/ repo'.ahead)
  /\ \/ /\ Succeeds /\ pc' = "advance" /\ agentRan' = TRUE
        /\ total' = total + 1 /\ spent' = spent + 1
        /\ rec' = [rec EXCEPT !.tokens = @ + 1]
        /\ UNCHANGED outcome
     \/ Fails(AgentAttempts) /\ UNCHANGED <<agentRan, total, spent, rec>>
  /\ UNCHANGED <<inputVars, cp, cancelled, recorded, unsettled, announced>>

\* Mutant of EnsureHeadAdvanced: the tree, not HEAD, tells whether work was done.
EnsureTreeChanged ==
  /\ pc = "advance" /\ Succeeds
  /\ IF HasChanges(repo)
       THEN pc' = "review" /\ UNCHANGED <<rec, repo>>
       ELSE /\ pc' = "complete" /\ rec' = [rec EXCEPT !.ending = "converged"]
            /\ repo' = IF cp /\ CanPop(repo) THEN StashPop(repo) ELSE repo
  /\ UNCHANGED <<inputVars, cp, agentRan, cancelled, costVars, endVars, touched>>

\* EnsureHeadAdvanced: new commits go on to the review; none, once the stash
\* is back, is convergence.  A lost completion pops again.
EnsureHeadAdvanced ==
  /\ pc = "advance"
  /\ \/ /\ repo.ahead /\ Succeeds /\ pc' = "review"
        /\ UNCHANGED <<repo, rec, outcome>>
     \/ /\ ~repo.ahead /\ (cp => CanPop(repo))
        /\ repo' = IF cp THEN StashPop(repo) ELSE repo
        /\ \/ /\ Succeeds /\ pc' = "complete" /\ UNCHANGED outcome
              /\ rec' = [rec EXCEPT !.ending = "converged"]
           \/ Fails(QuickAttempts) /\ UNCHANGED rec
     \/ /\ Fails(QuickAttempts) /\ UNCHANGED rec
        /\ \/ UNCHANGED repo
           \/ ~repo.ahead /\ cp /\ CanPop(repo) /\ repo' = PopConflict(repo)
  /\ UNCHANGED <<inputVars, cp, agentRan, cancelled, costVars, announced, touched>>

\* RunReviewAgent reads the branch; its output is the next pass's payload.
RunReviewAgent ==
  /\ pc = "review"
  /\ \/ /\ Succeeds /\ pc' = (IF cp THEN "restore" ELSE "next") /\ agentRan' = TRUE
        /\ total' = total + 1 /\ spent' = spent + 1
        /\ rec' = [rec EXCEPT !.tokens = @ + 1]
        /\ payload' \in BOOLEAN
        /\ UNCHANGED outcome
     \/ Fails(AgentAttempts) /\ UNCHANGED <<agentRan, total, spent, rec, payload>>
  /\ UNCHANGED <<repo, steered, summary, pass, resets, cp, cancelled, recorded,
                 unsettled, announced, touched>>

\* RestoreStash, once and best-effort, before the pass ends.
RestoreStash ==
  /\ pc = "restore" /\ pc' = "next"
  /\ \/ CanPop(repo) /\ repo' \in {StashPop(repo), PopConflict(repo)}
     \/ UNCHANGED repo
  /\ UNCHANGED <<inputVars, rec, cp, attempt, agentRan, cancelled, costVars, endVars, touched>>

\* The next pass inherits everything this one carried.
ContinueAsNew(n) ==
  /\ pass' = n /\ pc' = "settle" /\ outcome' = "continued"
  /\ UNCHANGED <<steered, summary, payload>>

\* The end of the pass: the next one, or the end the budget brings.
EndPass ==
  /\ pc = "next"
  /\ IF pass + 1 < MaxReviewPasses
       THEN ContinueAsNew(pass + 1) /\ UNCHANGED <<resets, rec>>
       ELSE IF steered
         THEN pc' = "limit" /\ UNCHANGED <<inputVars, outcome, rec>>
         ELSE /\ pc' = "complete" /\ rec' = [rec EXCEPT !.ending = "pass-cap"]
              /\ UNCHANGED <<inputVars, outcome>>
  /\ UNCHANGED <<repo, cp, attempt, agentRan, cancelled, costVars, announced, touched>>

\* The operator's answer at the pass limit.  A stop ends the loop without the
\* completion notification the other endings send.
PassLimit ==
  /\ pc = "limit"
  /\ \/ /\ ~cancelled /\ resets < MaxResets /\ resets' = resets + 1
        /\ ContinueAsNew(0) /\ UNCHANGED rec
     \/ /\ ~cancelled /\ pc' = "complete"
        /\ rec' = [rec EXCEPT !.ending = "operator-accepted"]
        /\ UNCHANGED <<inputVars, outcome>>
     \/ /\ ~cancelled /\ pc' = "settle" /\ outcome' = "operator-stopped"
        /\ rec' = [rec EXCEPT !.ending = "operator-stopped"]
        /\ UNCHANGED inputVars
     \/ /\ pc' = "settle" /\ outcome' = "failed" /\ UNCHANGED <<inputVars, rec>>
  /\ UNCHANGED <<repo, cp, attempt, agentRan, cancelled, costVars, announced, touched>>

\* notifyComplete: only a cancellation of the summary fails the pass.
NotifyComplete ==
  /\ pc = "complete" /\ pc' = "settle"
  /\ \/ /\ cancelled /\ summary /\ agentRan
        /\ outcome' = "failed" /\ UNCHANGED announced
     \/ /\ ~(cancelled /\ summary /\ agentRan)
        /\ outcome' = rec.ending /\ announced' = announced \cup {"complete"}
  /\ UNCHANGED <<repo, inputVars, rec, cp, attempt, agentRan, cancelled, costVars, touched>>

\* Mutant of SettlePass: the row carries the inclusive total.
SettlePassTotal ==
  /\ pc = "settle"
  /\ recorded' = recorded + total
  /\ IF outcome = "continued" THEN outcome' = "running" /\ pc' = "start"
                              ELSE pc' = "ended" /\ UNCHANGED outcome
  /\ rec' = NoRecord /\ cp' = FALSE /\ agentRan' = FALSE /\ touched' = FALSE
  /\ UNCHANGED <<repo, inputVars, attempt, cancelled, total, spent, unsettled, announced>>

\* finishReviewState, on a disconnected context; then the failure notice, or
\* the next pass in a run of its own, which a cancellation of this one that
\* only best-effort steps noticed does not reach.  A lost terminal write
\* changes neither.
SettlePass ==
  /\ pc = "settle"
  /\ \/ recorded' = recorded + rec.tokens /\ UNCHANGED unsettled
     \/ unsettled' = TRUE /\ UNCHANGED recorded
  /\ IF outcome = "continued"
       THEN /\ outcome' = "running" /\ pc' = "start" /\ cancelled' = FALSE
            /\ rec' = NoRecord /\ cp' = FALSE /\ agentRan' = FALSE /\ touched' = FALSE
            /\ UNCHANGED announced
       ELSE /\ pc' = "ended"
            /\ announced' = IF outcome = "failed" THEN announced \cup {"failure"}
                                                  ELSE announced
            /\ UNCHANGED <<outcome, rec, cp, agentRan, cancelled, touched>>
  /\ UNCHANGED <<repo, inputVars, attempt, total, spent>>

Cancel ==
  /\ pc # "ended" /\ ~cancelled
  /\ cancelled' = TRUE
  /\ UNCHANGED <<repo, pc, inputVars, rec, cp, attempt, agentRan, costVars, endVars, touched>>

Ended == pc = "ended" /\ UNCHANGED vars

Step ==
  \/ StartPass \/ Pause \/ MarkHeadAndStash \/ RunImplementAgent
  \/ EnsureHeadAdvanced \/ RunReviewAgent \/ RestoreStash \/ EndPass
  \/ PassLimit \/ NotifyComplete \/ SettlePass

Next == Step \/ Cancel \/ Ended

Spec == Init /\ [][Next]_vars

\* The worker keeps running the pass and its activities end or time out; the
\* operator may leave a question unanswered for ever.
Unattended == Step /\ pc \notin {"pause", "limit"}

FairSpec == Spec /\ WF_vars(Unattended)

-----------------------------------------------------------------------------
(* What the loop promises.                                                 *)

\* The developer's uncommitted work survives every failure, retry, conflict
\* and cancellation: what the checkout or the stash held, one of them holds
\* after any step; no agent commit takes it in and no pop drops it.
DevelopersWorkSurvives ==
  [][\A kind \in {"mine", "older"} : Holds(repo, kind) => Holds(repo, kind)']_vars

\* A loop reports convergence only when no attempt of the pass's agent, a
\* failed and retried one included, committed anything.
ConvergedMeansUnchanged ==
  (rec.ending = "converged" \/ outcome = "converged") => ~touched

\* The rows of a settled loop sum to what its agents spent, and so does the
\* total it carried from pass to pass: nothing is counted twice or dropped.
TokensAddUp ==
  /\ total = spent
  /\ pc = "ended" /\ ~unsettled => recorded = spent

\* What a settled loop says of itself is so: it converged on unchanged work, and
\* its rows count what it spent.
RowsTellTheTruth == ConvergedMeansUnchanged /\ TokensAddUp

\* The loop cannot run forever: again and again it ends or asks a human.
NeverRunsAway == []<>(pc \in {"pause", "limit", "ended"})

-----------------------------------------------------------------------------
(* Statements of the code's comments that the code does not keep.          *)

\* workflow.go:1073: on convergence EnsureHeadAdvanced "already restored any
\* stash on this path, so return without further cleanup".
ConvergedRestoresStash == outcome = "converged" => "mine" \notin Stashed(repo)

=============================================================================
