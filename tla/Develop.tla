------------------------------ MODULE Develop -------------------------------
(***************************************************************************)
(* One develop run (codereview.DevelopWorkflow): a branch is created in    *)
(* the checkout or in a worktree of its own, seeded with the branches it   *)
(* depends on, developed by the agent and handed to the tail the caller    *)
(* asked for: a detached review, an awaited one, or the remote pipeline.   *)
(*                                                                         *)
(* A step is one attempt of one activity.  An attempt may fail before or   *)
(* after it took effect; what a failed one left behind, the next one       *)
(* finds.  The supervised children are followed only to how they end.      *)
(***************************************************************************)
EXTENDS Naturals, FiniteSets, RetryPolicies

CONSTANTS
  Aliases,         \* names RandomBranchAlias may come up with
  MaxDeps,         \* bound: branches a node depends on
  BranchAttempts   \* RetryPolicy.MaximumAttempts of CreateBranch

Asked  == "the branch asked for"
Main   == "the branch checked out"
NoName == ""

ASSUME DevelopAssumption ==
  /\ {Asked, Main, NoName} \cap Aliases = {}
  /\ MaxDeps \in Nat
  /\ {BranchAttempts, QuickAttempts, AgentAttempts} \subseteq Nat \ {0}

Names == Aliases \cup {Asked}
Tails == {"detached", "await", "remote"}

VARIABLES
  named,     \* DevelopInput.Branch is given
  worktree,  \* DevelopInput.WorktreesDir is given
  tail,      \* what follows the development
  deps,      \* how many MergeBranches there are
  refs,      \* branches of the repository
  home,      \* the branch checked out in WorkDir
  trees,     \* branches with a worktree under WorktreesDir
  saved,     \* the alias kept in the activity's heartbeat
  created,   \* observer: branches this run created
  branch,    \* the branch the run develops on
  repo,      \* the working directory the run develops in
  next,      \* the dependency being merged
  pc, attempt, cancelled,
  outcome,   \* what the workflow returned
  verdict,   \* of the review: "asked" once it is handed over
  pr,        \* the pull request the pipeline knows of
  row,       \* the run's execution row
  quiet,     \* failureNotified
  told       \* failure notices the workflow sent

inputVars  == <<named, worktree, tail, deps>>
branchVars == <<refs, home, trees, saved, created, branch>>
tailVars   == <<verdict, pr, row, quiet, told>>
vars == <<inputVars, branchVars, repo, next, pc, attempt, cancelled, outcome, tailVars>>

\* The tree of the working directory, its merge in progress, the dependencies
\* reachable from HEAD and whether HEAD is past the base.
Repositories == [tree    : SUBSET {"mine", "agents", "conflict"},
                 merging : BOOLEAN,
                 merged  : SUBSET (1..MaxDeps),
                 ahead   : BOOLEAN]

\* Names may be taken already, checked out or by a worktree; the checkout may
\* hold uncommitted work.
Init ==
  /\ named \in BOOLEAN /\ worktree \in BOOLEAN /\ tail \in Tails /\ deps \in 0..MaxDeps
  /\ refs \in {{Main} \cup taken : taken \in SUBSET Names}
  /\ home \in refs
  /\ trees \in SUBSET (refs \ {home, Main})
  /\ saved = NoName /\ created = {} /\ branch = NoName
  /\ repo \in {[tree |-> t, merging |-> FALSE, merged |-> {}, ahead |-> FALSE] :
                 t \in {{}, {"mine"}}}
  /\ next = 1 /\ pc = "start" /\ attempt = 0 /\ cancelled = FALSE
  /\ outcome = "running" /\ verdict = "none"
  /\ pr = FALSE
  /\ row = [status |-> "none", pr |-> FALSE]
  /\ quiet = FALSE /\ told = 0

-----------------------------------------------------------------------------
(* Attempts.                                                               *)

Succeeds == ~cancelled /\ attempt' = 0

\* Mutant of Retries: the policy has no MaximumAttempts.
RetriesForever(limit) == ~cancelled /\ attempt' = attempt

Retries(limit) == ~cancelled /\ attempt + 1 < limit /\ attempt' = attempt + 1
GivesUp(limit) == (cancelled \/ attempt + 1 >= limit) /\ attempt' = 0

Return(result) == pc' = "settle" /\ outcome' = result

\* A failed attempt is retried in place, or fails the run.
Fails(limit) ==
  \/ Retries(limit) /\ UNCHANGED <<pc, outcome>>
  \/ GivesUp(limit) /\ Return("failed")

\* A non-retryable error.
Refuses == attempt' = 0 /\ Return("failed")

-----------------------------------------------------------------------------
(* The branch.                                                             *)

\* startDevelopState: the run refuses to work unrecorded, and says so.
RecordStart ==
  /\ pc = "start"
  /\ \/ /\ ~cancelled /\ pc' = "branch"
        /\ row' = [row EXCEPT !.status = "running"]
        /\ UNCHANGED <<outcome, told>>
     \/ /\ pc' = "ended" /\ outcome' = "failed" /\ told' = told + 1
        /\ row' \in {row, [row EXCEPT !.status = "running"]}
  /\ UNCHANGED <<inputVars, branchVars, repo, next, attempt, cancelled, verdict, pr, quiet>>

\* The run goes on in the directory of the branch it found or created.
Enters(name) ==
  /\ Succeeds
  /\ branch' = name
  /\ pc' = IF deps > 0 THEN "merge" ELSE "develop"
  /\ UNCHANGED outcome

\* Mutant of KeepsAlias: the alias is not kept for the next attempt.
ForgetsAlias(name) == saved' = saved

\* generatedAlias: the name is in the heartbeat before anything is created.
KeepsAlias(name) == saved' = IF named THEN saved ELSE name

\* replaceGeneratedAlias, on a collision.
ReplacesAlias == saved' \in Aliases

\* The names an attempt may use: the one asked for, the one kept, or a new one.
Candidates == IF named THEN {Asked} ELSE IF saved # NoName THEN {saved} ELSE Aliases

\* An earlier attempt's branch or an existing one: the run stands on it already.
\* The worktree of a fresh alias is not looked for.
Present(name) ==
  IF worktree THEN (named \/ saved # NoName) /\ name \in trees ELSE home = name

\* The branch is there: adopted on a retry, refused on the first attempt, and
\* replaced when a fresh alias happens to name the branch checked out.
AdoptBranch(name) ==
  /\ Present(name)
  /\ \/ (named => attempt > 0) /\ (named \/ saved # NoName)
        /\ Enters(name) /\ UNCHANGED <<saved, repo>>
     \/ named /\ attempt = 0 /\ Refuses /\ UNCHANGED <<branch, saved, repo>>
     \/ ~named /\ saved = NoName /\ ReplacesAlias /\ Fails(BranchAttempts)
        /\ UNCHANGED <<branch, repo>>
  /\ UNCHANGED <<refs, home, trees, created>>

\* CreateBranch in the checkout, which must be clean, or createWorktree, whose
\* tree starts clean.  A name that is taken is final when it was asked for.  The
\* probe for a worktree may fail, and reads as none; git may fail between the
\* branch and its worktree.
AddBranch(name) ==
  /\ worktree \/ ~Present(name)
  /\ LET taken == name \in refs \/ name \in trees IN
       \/ /\ ~worktree /\ repo.tree # {} /\ KeepsAlias(name) /\ Refuses
          /\ UNCHANGED <<refs, home, trees, created, branch, repo>>
       \/ /\ worktree \/ repo.tree = {}
          /\ taken
          /\ IF named THEN Refuses /\ UNCHANGED saved ELSE Fails(BranchAttempts) /\ ReplacesAlias
          /\ UNCHANGED <<refs, home, trees, created, branch, repo>>
       \/ /\ worktree \/ repo.tree = {}
          /\ ~taken /\ KeepsAlias(name)
          /\ refs' = refs \cup {name} /\ created' = created \cup {name}
          /\ IF worktree
               THEN trees' = trees \cup {name} /\ repo' = [repo EXCEPT !.tree = {}]
                    /\ UNCHANGED home
               ELSE home' = name /\ UNCHANGED <<trees, repo>>
          /\ Enters(name) \/ (Fails(BranchAttempts) /\ UNCHANGED branch)
       \/ /\ worktree /\ ~taken /\ KeepsAlias(name)
          /\ refs' = refs \cup {name} /\ created' = created \cup {name}
          /\ Fails(BranchAttempts) /\ UNCHANGED <<home, trees, branch, repo>>

CreateBranch ==
  /\ pc = "branch"
  /\ \E name \in Candidates :
       \/ AdoptBranch(name)
       \/ AddBranch(name)
       \/ /\ Fails(BranchAttempts) /\ (KeepsAlias(name) \/ UNCHANGED saved)
          /\ UNCHANGED <<refs, home, trees, created, branch, repo>>
  /\ UNCHANGED <<inputVars, next, cancelled, tailVars>>

-----------------------------------------------------------------------------
(* The seed.                                                               *)

\* A dependency is in: the next one, or the agent's turn.
Seeded == next' = next + 1 /\ pc' = IF next < deps THEN "merge" ELSE "develop"

\* MergeDependency: git merges, or stops on a conflict.  A conflict an earlier
\* attempt left is reported as this one's.
MergeDependency ==
  /\ pc = "merge"
  /\ \/ Fails(QuickAttempts) /\ UNCHANGED <<repo, next>>
     \/ /\ ~repo.merging
        /\ repo' = [repo EXCEPT !.merged = @ \cup {next}]
        /\ \/ Succeeds /\ Seeded /\ UNCHANGED outcome
           \/ Fails(QuickAttempts) /\ UNCHANGED next
     \/ /\ next \notin repo.merged
        /\ repo' = [repo EXCEPT !.tree = @ \cup {"conflict"}, !.merging = TRUE]
        /\ \/ Succeeds /\ pc' = "resolve" /\ UNCHANGED outcome
           \/ Fails(QuickAttempts)
        /\ UNCHANGED next
  /\ UNCHANGED <<inputVars, branchVars, cancelled, tailVars>>

\* Whatever the agent makes of the merge: nothing, a resolution it commits or
\* forgets to, files of its own, or git merge --abort.
Resolutions ==
  {r \in Repositories :
     /\ r.ahead = repo.ahead
     /\ r.tree \subseteq repo.tree \cup {"agents", "conflict"}
     /\ r.merged \in {repo.merged, repo.merged \cup {next}}
     /\ "conflict" \in r.tree => r.merging
     /\ r.merging => next \notin r.merged}

\* Mutant of Resolved: a tree without conflicts or changes passes for a merge.
ResolvedUnproven(r) == r.tree = {}

\* ResolveMergeConflict's checks: no conflict, no change, and the branch is in HEAD.
Resolved(r) == r.tree = {} /\ next \in r.merged

ResolveMergeConflict ==
  /\ pc = "resolve"
  /\ \E r \in Resolutions :
       /\ repo' = r
       /\ \/ Resolved(r) /\ Succeeds /\ Seeded
          \/ Retries(AgentAttempts) /\ UNCHANGED <<pc, next>>
          \/ GivesUp(AgentAttempts) /\ pc' = "abort" /\ UNCHANGED next
  /\ UNCHANGED <<inputVars, branchVars, cancelled, outcome, tailVars>>

\* git merge --abort, or nothing when there is no merge to abort.  What the
\* agent left untracked stays.
Aborted ==
  IF repo.merging
    THEN {[repo EXCEPT !.merging = FALSE, !.tree = @ \ drop] :
            drop \in {{"conflict"}, {"conflict", "agents"}}}
    ELSE {repo}

\* Mutant of AbortMerge: the abort's own error is dropped.
AbortMergeUnchecked ==
  /\ pc = "abort"
  /\ repo' \in Aborted \cup {repo}
  /\ attempt' = 0 /\ Return("blocked") /\ quiet' = TRUE /\ told' = told + 1
  /\ UNCHANGED <<inputVars, branchVars, next, cancelled, verdict, pr, row>>

\* Mutant of AbortMerge: the generic failure notice is not stood down.
AbortMergeToldTwice ==
  /\ pc = "abort"
  /\ \/ repo' \in Aborted /\ Succeeds /\ Return("blocked") /\ told' = told + 1
     \/ repo' \in Aborted \cup {repo} /\ Fails(QuickAttempts) /\ UNCHANGED told
  /\ UNCHANGED <<inputVars, branchVars, next, cancelled, verdict, pr, row, quiet>>

\* Only a confirmed abort blocks the node, with a notice of its own.
AbortMerge ==
  /\ pc = "abort"
  /\ \/ /\ repo' \in Aborted
        /\ Succeeds /\ Return("blocked") /\ quiet' = TRUE /\ told' = told + 1
     \/ /\ repo' \in Aborted \cup {repo}
        /\ Fails(QuickAttempts) /\ UNCHANGED <<quiet, told>>
  /\ UNCHANGED <<inputVars, branchVars, next, cancelled, verdict, pr, row>>

-----------------------------------------------------------------------------
(* The development.                                                        *)

\* The agent commits or not, and leaves what it likes.
RunDevelopAgent ==
  /\ pc = "develop"
  /\ \E tree \in SUBSET (repo.tree \cup {"agents"}), ahead \in {repo.ahead, TRUE} :
       repo' = [repo EXCEPT !.tree = tree, !.ahead = ahead]
  /\ \/ Succeeds /\ pc' = "ensure" /\ UNCHANGED outcome
     \/ Fails(AgentAttempts)
  /\ UNCHANGED <<inputVars, branchVars, next, cancelled, tailVars>>

EnsureDeveloped ==
  /\ pc = "ensure"
  /\ \/ repo.ahead /\ repo.tree = {} /\ Succeeds /\ pc' = "summarize" /\ UNCHANGED outcome
     \/ ~(repo.ahead /\ repo.tree = {}) /\ Refuses
     \/ Fails(QuickAttempts)
  /\ UNCHANGED <<inputVars, branchVars, repo, next, cancelled, tailVars>>

\* summarizeForWebhook: only a cancellation fails it, and only if it was asked
\* for.  The tail takes the failure notices over.
Summarize ==
  /\ pc = "summarize"
  /\ \/ /\ pc' = tail /\ verdict' = "asked" /\ quiet' = (tail # "detached")
        /\ UNCHANGED outcome
     \/ cancelled /\ Return("failed") /\ UNCHANGED <<verdict, quiet>>
  /\ UNCHANGED <<inputVars, branchVars, repo, next, attempt, cancelled, pr, row, told>>

-----------------------------------------------------------------------------
(* The tails.                                                              *)

\* An abandoned review: the run ends once the child has started.
StartReview ==
  /\ pc = "detached"
  /\ \/ ~cancelled /\ Return("succeeded")
     \/ Return("failed")
  /\ UNCHANGED <<inputVars, branchVars, repo, next, attempt, cancelled, tailVars>>

\* developAndAwaitReview: only convergence lets dependents start.
AwaitReview ==
  /\ pc = "await"
  /\ \/ ~cancelled /\ verdict' = "converged" /\ Return("succeeded")
     \/ ~cancelled /\ verdict' = "unconverged" /\ Return("blocked")
     \/ Return("failed") /\ UNCHANGED verdict
  /\ UNCHANGED <<inputVars, branchVars, repo, next, attempt, cancelled, pr, row, quiet, told>>

\* developWithRemote's own notice.
RemoteFails == Return("failed") /\ told' = told + 1

\* The pipeline goes on whatever the review said, short of an error.
RemoteReview ==
  /\ pc = "remote"
  /\ \/ /\ ~cancelled /\ pc' = "openpr" /\ verdict' \in {"converged", "unconverged"}
        /\ UNCHANGED <<outcome, told>>
     \/ RemoteFails /\ UNCHANGED verdict
  /\ UNCHANGED <<inputVars, branchVars, repo, next, attempt, cancelled, pr, row, quiet>>

\* OpenPRWorkflow: a failed one hands no link over, even if it opened the PR.
RemoteOpenPR ==
  /\ pc = "openpr"
  /\ \/ ~cancelled /\ pc' = "pilot" /\ pr' = TRUE /\ UNCHANGED <<outcome, told>>
     \/ RemoteFails /\ UNCHANGED pr
  /\ UNCHANGED <<inputVars, branchVars, repo, next, attempt, cancelled, verdict, row, quiet>>

RemotePilot ==
  /\ pc = "pilot"
  /\ \/ ~cancelled /\ Return("succeeded") /\ UNCHANGED told
     \/ RemoteFails
  /\ UNCHANGED <<inputVars, branchVars, repo, next, attempt, cancelled, verdict, pr, row, quiet>>

\* Mutant of Settlement: the link is recorded by a pipeline that succeeded only.
SettlementOfSuccess ==
  IF outcome = "succeeded" THEN [status |-> "succeeded", pr |-> pr]
                           ELSE [status |-> "failed", pr |-> FALSE]

Settlement == [status |-> IF outcome = "succeeded" THEN "succeeded" ELSE "failed",
               pr     |-> pr]

\* finishDevelopState on a disconnected context, whose failure changes nothing;
\* then the generic notice, unless it was stood down.
Settle ==
  /\ pc = "settle" /\ pc' = "ended"
  /\ row' \in {row, Settlement}
  /\ told' = IF outcome # "succeeded" /\ ~quiet THEN told + 1 ELSE told
  /\ UNCHANGED <<inputVars, branchVars, repo, next, attempt, cancelled, outcome, verdict, pr,
                 quiet>>

Cancel ==
  /\ pc \notin {"settle", "ended"} /\ ~cancelled
  /\ cancelled' = TRUE
  /\ UNCHANGED <<inputVars, branchVars, repo, next, pc, attempt, outcome, tailVars>>

Ended == pc = "ended" /\ UNCHANGED vars

TailStep == StartReview \/ AwaitReview \/ RemoteReview \/ RemoteOpenPR \/ RemotePilot

Step ==
  \/ RecordStart \/ CreateBranch \/ MergeDependency \/ ResolveMergeConflict \/ AbortMerge
  \/ RunDevelopAgent \/ EnsureDeveloped \/ Summarize \/ Settle

Next == Step \/ TailStep \/ Cancel \/ Ended

Spec == Init /\ [][Next]_vars

\* Activities end or time out, and a cancelled child's future resolves; an
\* uncancelled child may wait for its operator or its reviewers.
FairSpec == Spec /\ WF_vars(Step) /\ WF_vars(cancelled /\ TailStep)

-----------------------------------------------------------------------------
(* What a develop run promises.                                            *)

Seeding    == {"start", "branch", "merge", "resolve", "abort"}
Developing == {"develop", "ensure", "summarize"}
Tailing    == {"detached", "await", "remote", "openpr", "pilot"}

\* In the checkout, no sequence of failed attempts and lost completions leaves a
\* second branch behind: the alias of the first is found again (generatedAlias).
NoOrphanInPlace == ~worktree => Cardinality(created) <= 1

\* A node blocked while it was seeded is left clean, as its notice says: no
\* merge is in progress and no conflict markers are in its tree.
BlockedMeansClean ==
  outcome = "blocked" => ~repo.merging /\ "conflict" \notin repo.tree

\* A run that did not succeed is announced exactly once, by the notice of the
\* place it failed in, unless the awaited review was there to announce it.
TellsFailureOnce ==
  pc = "ended" =>
    told = IF outcome = "succeeded" \/ (tail = "await" /\ verdict # "none") THEN 0 ELSE 1

\* The link to a pull request the pipeline knew of survives the pipeline's
\* later failure or cancellation in every settled row.
KnownPRRecorded == row.status \in {"succeeded", "failed"} /\ pr => row.pr

\* What a run leaves for its operator to act on is true: its one notice, the
\* state of a blocked node, and the link to its pull request.
SettlesTruthfully == BlockedMeansClean /\ TellsFailureOnce /\ KnownPRRecorded

\* Only a child still running can hold an uncancelled run up, and nothing a
\* cancelled one.
OnlyChildrenHoldIt == []<>(pc = "ended" \/ (pc \in Tailing /\ ~cancelled))

\* A detached or remote run is followed to its review only.
StageNow ==
  CASE pc \in Seeding    -> "seeding"
    [] pc \in Developing -> "developing"
    [] pc \in Tailing    -> "reviewing"
    [] OTHER -> IF outcome = "succeeded" /\ tail # "await" THEN "reviewing" ELSE outcome

\* What the branch holds that the run has accepted, by git's account of it.
WorkNow ==
  IF branch # NoName /\ next > deps
    THEN repo.merged \cup {d \in {0} : verdict # "none" /\ repo.ahead /\ repo.tree = {}}
    ELSE {}

Lifecycle == INSTANCE NodeLifecycle
  WITH Own <- 0, needs <- 1..deps, stage <- StageNow, work <- WorkNow,
       verdict <- IF tail = "await" /\ verdict # "asked" THEN verdict ELSE "none"

\* The run implements a node's lifecycle: whatever the agent does to a merge,
\* and whichever attempts are lost, nothing is developed on a seed that misses a
\* dependency, nothing is reviewed that holds no committed work of its own, and
\* an awaited run succeeds only if its review converged.
KeepsLifecycle == Lifecycle!Spec

=============================================================================
