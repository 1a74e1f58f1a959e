----------------------------- MODULE PilotLoop ------------------------------
(***************************************************************************)
(* The remote review loop: OpenPRWorkflow, which publishes a branch and    *)
(* asks for a review, and PilotWorkflow, whose passes wait out the review, *)
(* have an agent address the unresolved threads, push, answer and resolve  *)
(* them, ask for the next review and continue as new.                      *)
(*                                                                         *)
(* A step is one attempt of one activity, as in ReviewLoop.  Reviewers     *)
(* comment and Copilot delivers its review at any time.                    *)
(***************************************************************************)
EXTENDS WorkingTree, Naturals, FiniteSetsExt, ExecutionRecord

CONSTANTS
  MaxThreads,     \* bound: threads anyone opens on the pull request
  PageSize,       \* threads(first: 100) of ghcli's query
  QuickAttempts,  \* RetryPolicy.MaximumAttempts of the git and gh steps
  AgentAttempts   \* RetryPolicy.MaximumAttempts of the agent step

ASSUME PilotAssumption ==
  /\ MaxThreads \in Nat /\ PageSize \in Nat \ {0}
  /\ QuickAttempts \in Nat \ {0} /\ AgentAttempts \in Nat \ {0}
  /\ Details = {"undecided", "addressed", "nothing", "stopped"}

\* Threads are numbered in the order they were opened, as the query lists them.
Threads == 1..MaxThreads

VARIABLES
  threads,   \* the pull request's threads: absent, open or resolved
  answered,  \* threads that carry a reply of the pilot
  review,    \* Copilot is a requested reviewer and has not delivered
  prs,       \* open pull requests whose head is the branch
  repo,      \* the checkout
  unpushed,  \* the checkout has commits the remote branch misses
  mode,      \* PilotInput: chain, and whether the loop is steered
  pc,        \* the step the running pass is in
  loaded,    \* LoadCommentsResult.Threads
  cp,        \* Checkpoint.Stashed
  attempt,   \* attempts made of the activity in progress
  detail,    \* rec.Addressed and rec.Ending
  cancelled, \* a cancellation was requested
  outcome,   \* what the loop returned
  announced  \* notifications sent about its end

hub == <<threads, answered, review, prs>>
work == <<repo, unpushed, cp>>
run == <<mode, detail, announced>>
vars == <<hub, work, run, recordVars, pc, loaded, attempt, cancelled, outcome>>

\* The branch has commits to publish when the run begins with OpenPRWorkflow.
\* A pilot of its own begins on any pull request somebody opened by hand.
Init ==
  /\ mode \in [chain : BOOLEAN, steered : BOOLEAN]
  /\ pc \in {"open", "start"}
  /\ prs \in 0..2
  /\ unpushed = (pc = "open")
  /\ repo \in [tree : {{}, {"mine"}}, stash : {<<>>}, ahead : {FALSE}]
  /\ threads = [t \in Threads |-> "absent"]
  /\ answered = {} /\ review = FALSE
  /\ loaded = {} /\ cp = FALSE /\ attempt = 0
  /\ detail = "undecided" /\ row = NoRow /\ late = {}
  /\ cancelled = FALSE /\ outcome = "running" /\ announced = {}

Running(status) == [status |-> status, waiting |-> FALSE, detail |-> detail]

-----------------------------------------------------------------------------
(* An attempt of an activity under its step's retry policy.                *)

Goes(step) == ~cancelled /\ attempt' = 0 /\ pc' = step /\ UNCHANGED outcome

\* The step's failure is retried, or fails the pass and goes where it settles.
FailsTo(limit, step) ==
  \/ /\ ~cancelled /\ attempt + 1 < limit /\ attempt' = attempt + 1
     /\ UNCHANGED <<pc, outcome>>
  \/ /\ cancelled \/ attempt + 1 >= limit
     /\ attempt' = 0 /\ pc' = step /\ outcome' = "failed"

Fails(limit) == FailsTo(limit, "settle")

-----------------------------------------------------------------------------
(* OpenPRWorkflow.                                                         *)

\* Exactly one open pull request for the branch.
FindOpen == prs = 1

\* Find the branch's pull request or create it: one that an earlier attempt or
\* somebody else opened meanwhile is taken, several are refused.
EnsureOpen == prs < 2 /\ prs' = 1

\* OpenPR: push, then ensure the pull request.
OpenPR ==
  /\ pc = "open"
  /\ \/ /\ unpushed' = FALSE /\ EnsureOpen
        /\ Goes("ask") \/ FailsTo(QuickAttempts, "opened")
     \/ /\ unpushed' \in {unpushed, FALSE} /\ UNCHANGED prs
        /\ FailsTo(QuickAttempts, "opened")
  /\ UNCHANGED <<threads, answered, review, repo, cp, run, recordVars, loaded, cancelled>>

AskFirstReview ==
  /\ pc = "ask"
  /\ \/ review' = TRUE /\ (Goes("opened") \/ FailsTo(QuickAttempts, "opened"))
     \/ FailsTo(QuickAttempts, "opened") /\ UNCHANGED review
  /\ UNCHANGED <<threads, answered, prs, work, run, recordVars, loaded, cancelled>>

\* Its notice, and the pilot that follows in the develop pipeline.
Opened ==
  /\ pc = "opened"
  /\ IF outcome = "failed"
       THEN pc' = "ended" /\ announced' = announced \cup {"failure"}
       ELSE pc' = "start" /\ announced' = announced \cup {"ready"}
  /\ UNCHANGED <<hub, work, mode, detail, recordVars, loaded, attempt, cancelled, outcome>>

-----------------------------------------------------------------------------
(* The pass.                                                               *)

\* startPilotState, then the instructions and the settings: all must succeed.
\* A failed start write returns before the row's settlement is deferred.
StartPass ==
  /\ pc = "start"
  /\ \/ /\ ~cancelled /\ Recorded(Running("running"))
        /\ pc' = "determine" /\ UNCHANGED <<outcome, announced>>
     \/ /\ Recorded(Running("running"))
        /\ pc' = "settle" /\ outcome' = "failed" /\ UNCHANGED announced
     \/ /\ Unrecorded(Running("running"))
        /\ pc' = "ended" /\ outcome' = "failed"
        /\ announced' = announced \cup {"failure"}
  /\ UNCHANGED <<hub, work, mode, detail, loaded, attempt, cancelled>>

DeterminePR ==
  /\ pc = "determine"
  /\ (FindOpen /\ Goes("poll")) \/ Fails(QuickAttempts)
  /\ UNCHANGED <<hub, work, run, recordVars, loaded, cancelled>>

\* Copilot is still among the reviewers GitHub waits for.
ReviewOngoing == review

\* CheckOngoingReview, until nothing is pending.  While it is, the pass sleeps
\* on a timer that only a cancellation cuts short.
CheckOngoingReview ==
  /\ pc = "poll"
  /\ (~ReviewOngoing /\ Goes("load")) \/ Fails(QuickAttempts)
  /\ UNCHANGED <<hub, work, run, recordVars, loaded, cancelled>>

\* The first threads of the pull request, resolved ones included.
page == {t \in Threads : threads[t] # "absent" /\ t <= PageSize}

\* Those of them that are not resolved.
UnresolvedThreads == {t \in page : threads[t] = "open"}

LoadUnresolvedComments ==
  /\ pc = "load"
  /\ \/ /\ loaded' = UnresolvedThreads
        /\ Goes(IF UnresolvedThreads = {} THEN "conclude"
                ELSE IF mode.steered THEN "pause" ELSE "checkpoint")
     \/ Fails(QuickAttempts) /\ UNCHANGED loaded
  /\ UNCHANGED <<threads, answered, review, prs, work, run, recordVars, cancelled>>

\* recordPilotWaiting, best-effort, before and after the session.
RecordWaiting(waiting) ==
  LET w == [status |-> "running", waiting |-> waiting, detail |-> detail] IN
    (~cancelled /\ Recorded(w)) \/ Unrecorded(w)

StartWaiting ==
  /\ pc = "pause" /\ pc' = "wait" /\ RecordWaiting(TRUE)
  /\ UNCHANGED <<hub, work, run, loaded, attempt, cancelled, outcome>>

\* The operator lets the pass go on, stops the loop, or the session fails.
StopWaiting ==
  /\ pc = "wait" /\ RecordWaiting(FALSE)
  /\ \/ ~cancelled /\ pc' = "checkpoint" /\ UNCHANGED <<detail, outcome>>
     \/ ~cancelled /\ pc' = "conclude" /\ detail' = "stopped" /\ UNCHANGED outcome
     \/ pc' = "settle" /\ outcome' = "failed" /\ UNCHANGED detail
  /\ UNCHANGED <<hub, work, mode, announced, loaded, attempt, cancelled>>

MarkHeadAndStash ==
  /\ pc = "checkpoint"
  /\ LET marked == [repo EXCEPT !.ahead = FALSE] IN
       \/ /\ HasChanges(repo) => CanStash(repo)
          /\ repo' = IF HasChanges(repo) THEN Stash(marked) ELSE marked
          /\ \/ Goes("agent") /\ cp' = HasChanges(repo)
             \/ Fails(QuickAttempts) /\ UNCHANGED cp
       \/ Fails(QuickAttempts) /\ UNCHANGED <<repo, cp>>
  /\ UNCHANGED <<hub, unpushed, run, recordVars, loaded, cancelled>>

\* RunAgent: a failed attempt leaves what it did in the checkout.
RunAgent ==
  /\ pc = "agent"
  /\ repo' \in AgentTurns(repo) /\ unpushed' = (unpushed \/ repo'.ahead)
  /\ Goes("advance") \/ Fails(AgentAttempts)
  /\ UNCHANGED <<hub, cp, run, recordVars, loaded, cancelled>>

\* EnsureHeadAdvanced: no commits is an error nothing retries, once the stash
\* is back; a pop that fails is retried.
EnsureHeadAdvanced ==
  /\ pc = "advance"
  /\ \/ repo.ahead /\ Goes("push") /\ UNCHANGED repo
     \/ /\ ~repo.ahead /\ (cp => CanPop(repo))
        /\ repo' = IF cp THEN StashPop(repo) ELSE repo
        /\ Fails(1) \/ Fails(QuickAttempts)
     \/ /\ Fails(QuickAttempts)
        /\ \/ UNCHANGED repo
           \/ ~repo.ahead /\ cp /\ CanPop(repo) /\ repo' = PopConflict(repo)
  /\ UNCHANGED <<hub, unpushed, cp, run, recordVars, loaded, cancelled>>

\* Mutant of PushBranch: a push that keeps failing is only logged.
PushBestEffort ==
  /\ pc = "push" /\ unpushed' \in {unpushed, FALSE} /\ Goes("answer")
  /\ UNCHANGED <<hub, repo, cp, run, recordVars, loaded, cancelled>>

PushBranch ==
  /\ pc = "push"
  /\ \/ unpushed' = FALSE /\ (Goes("answer") \/ Fails(QuickAttempts))
     \/ Fails(QuickAttempts) /\ UNCHANGED unpushed
  /\ UNCHANGED <<hub, repo, cp, run, recordVars, loaded, cancelled>>

\* Mutant of ReplyAndResolve: done with the first thread it resolves.
ReplyAndResolveOne ==
  /\ pc = "answer" /\ (Goes("request") \/ Fails(1))
  /\ \E t \in loaded :
       /\ answered' = answered \cup {t}
       /\ threads' = [threads EXCEPT ![t] = "resolved"]
  /\ UNCHANGED <<review, prs, work, run, recordVars, loaded, cancelled>>

\* ReplyAndResolve: thread after thread, the reply before the resolution; an
\* attempt may fail between any two of them, and the next begins again.
ReplyAndResolve ==
  /\ pc = "answer"
  /\ \E done \in SUBSET loaded :
       /\ \A t \in done, s \in loaded : s < t => s \in done
       /\ threads' = [t \in Threads |-> IF t \in done THEN "resolved" ELSE threads[t]]
       /\ \/ done = loaded /\ answered' = answered \cup loaded /\ Goes("request")
          \/ /\ Fails(QuickAttempts)
             /\ \/ answered' = answered \cup done
                \/ done # loaded /\ answered' = answered \cup done \cup {Min(loaded \ done)}
  /\ UNCHANGED <<review, prs, work, run, recordVars, loaded, cancelled>>

RequestCopilotReview ==
  /\ pc = "request"
  /\ \/ review' = TRUE /\ (Goes("restore") \/ Fails(QuickAttempts))
     \/ Fails(QuickAttempts) /\ UNCHANGED review
  /\ UNCHANGED <<threads, answered, prs, work, run, recordVars, loaded, cancelled>>

\* RestoreStash, once and best-effort: the pass has addressed its comments.
RestoreStash ==
  /\ pc = "restore" /\ pc' = "conclude" /\ detail' = "addressed"
  /\ \/ cp /\ CanPop(repo) /\ repo' \in {StashPop(repo), PopConflict(repo)}
     \/ UNCHANGED repo
  /\ UNCHANGED <<hub, unpushed, cp, mode, announced, recordVars, loaded, attempt, cancelled, outcome>>

\* Mutant of Conclude: a chain goes on whether or not there was a comment.
ConcludeAlwaysChains ==
  /\ pc = "conclude" /\ pc' = "settle"
  /\ detail' = IF detail = "undecided" THEN "nothing" ELSE detail
  /\ outcome' = IF mode.chain THEN "continued" ELSE "complete"
  /\ UNCHANGED <<hub, work, mode, announced, recordVars, loaded, attempt, cancelled>>

\* The end of a pass: the next one, or the completion notice.  Only a summary
\* of the agent's run, when one was asked for, can be cancelled and fail the pass.
Conclude ==
  /\ pc = "conclude" /\ pc' = "settle"
  /\ detail' = IF detail = "undecided" THEN "nothing" ELSE detail
  /\ \/ /\ cancelled /\ detail = "addressed"
        /\ outcome' = "failed" /\ UNCHANGED announced
     \/ /\ IF mode.chain /\ detail = "addressed"
             THEN outcome' = "continued" /\ UNCHANGED announced
             ELSE /\ announced' = announced \cup {"complete"}
                  /\ outcome' = IF detail = "stopped" THEN "stopped" ELSE "complete"
  /\ UNCHANGED <<hub, work, mode, recordVars, loaded, attempt, cancelled>>

\* finishPilotState, on a disconnected context; then the failure notice, or
\* the next pass, a run with a row of its own: row and late are that one's from
\* here on, and the settlement of the pass that goes on is no longer followed.
\* A lost write changes neither.
SettlePass ==
  /\ pc = "settle"
  /\ LET w == Running(IF outcome = "failed" THEN "failed" ELSE "succeeded") IN
       IF outcome = "continued"
         THEN /\ pc' = "start" /\ outcome' = "running" /\ cancelled' = FALSE
              /\ loaded' = {} /\ cp' = FALSE
              /\ detail' = "undecided" /\ row' = NoRow /\ late' = {}
              /\ UNCHANGED announced
         ELSE /\ Recorded(w) \/ Unrecorded(w)
              /\ pc' = "ended"
              /\ announced' = IF outcome = "failed" THEN announced \cup {"failure"} ELSE announced
              /\ UNCHANGED <<loaded, cp, detail, cancelled, outcome>>
  /\ UNCHANGED <<hub, repo, unpushed, mode, attempt>>

Step ==
  \/ OpenPR \/ AskFirstReview \/ Opened \/ StartPass \/ DeterminePR \/ CheckOngoingReview
  \/ LoadUnresolvedComments \/ StartWaiting \/ MarkHeadAndStash \/ RunAgent
  \/ EnsureHeadAdvanced \/ PushBranch \/ ReplyAndResolve \/ RequestCopilotReview
  \/ RestoreStash \/ Conclude \/ SettlePass

-----------------------------------------------------------------------------
(* Everybody else.                                                         *)

others == <<answered, prs, work, run, recordVars, pc, loaded, attempt, cancelled, outcome>>

\* Copilot delivers the review it was asked for, with or without new threads.
DeliverReview ==
  /\ review /\ review' = FALSE
  /\ \E new \in SUBSET {t \in Threads : threads[t] = "absent"} :
       /\ \A t \in new, s \in Threads : s < t => s \in new \/ threads[s] # "absent"
       /\ threads' = [t \in Threads |-> IF t \in new THEN "open" ELSE threads[t]]
  /\ UNCHANGED <<others>>

\* A person opens a thread.
OpenThread ==
  /\ \E t \in Threads :
       /\ threads[t] = "absent" /\ \A s \in Threads : s < t => threads[s] # "absent"
       /\ threads' = [threads EXCEPT ![t] = "open"]
  /\ UNCHANGED <<review, others>>

Cancel ==
  /\ pc # "ended" /\ ~cancelled /\ cancelled' = TRUE
  /\ UNCHANGED <<hub, work, run, recordVars, pc, loaded, attempt, outcome>>

LateCommit == LateWrite /\ UNCHANGED <<hub, work, run, pc, loaded, attempt, cancelled, outcome>>

Ended == pc = "ended" /\ UNCHANGED vars

Next ==
  \/ Step \/ StopWaiting \/ DeliverReview \/ OpenThread \/ Cancel
  \/ LateCommit \/ Ended

Spec == Init /\ [][Next]_vars

\* The worker keeps running the pass and its activities end or time out.
\* Nobody has to deliver a review or to answer.
FairSpec == Spec /\ WF_vars(Step) /\ WF_vars(StopWaiting /\ cancelled)

-----------------------------------------------------------------------------
(* What the loop promises.                                                 *)

\* A thread the pilot resolves carries its reply, was among those the agent of
\* this pass was given, and the commits the reply names are on the remote
\* branch, whatever was retried or failed on the way.
ResolvedMeansAnswered ==
  [][\A t \in Threads :
       threads[t] = "open" /\ threads'[t] = "resolved" =>
         t \in answered' \cap loaded /\ repo.ahead /\ ~unpushed]_vars

\* A row never unsettles, whatever writes are repeated or arrive late, and a
\* settled run asks nobody for input.
SettledRowStands ==
  [][Settled(row) /\ row' # NoRow => row' = row /\ ~row.waiting]_vars

\* A row's claim holds: "addressed" means every thread the pass loaded was
\* resolved, "nothing" that it loaded none, and a pass that failed on the way
\* claims neither.
RowTellsAddressed ==
  row # NoRow =>
    /\ row.detail = "addressed" => loaded # {} /\ \A t \in loaded : threads[t] = "resolved"
    /\ row.detail = "nothing" => loaded = {}

\* Both: what the row says of the pass is so, and stands once it is settled.
RowTellsTheTruth == []RowTellsAddressed /\ SettledRowStands

\* The loop ends once reviews get delivered and questions answered: every pass
\* but the last resolves what it loaded, so it cannot go round for ever.
PilotEnds == []<>~review /\ []<>(pc # "wait") => <>(pc = "ended")

=============================================================================
