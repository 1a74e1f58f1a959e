-------------------------- MODULE DevelopAndReview --------------------------
(***************************************************************************)
(* The two workflows that change a checkout, checked side by side: a       *)
(* develop run (Develop, extended) and a local review loop (ReviewLoop).   *)
(* `subject` says which of them a behaviour is about, and only that one    *)
(* takes steps.                                                            *)
(***************************************************************************)
EXTENDS Develop, ReviewBounds

VARIABLES
  subject,
  checkout, at, attempts, abandoned, result,  \* the loop's repo, pc, attempt, cancelled, outcome
  steered, summary, pass, resets, payload, total, rec, cp, agentRan, announced, spent, recorded,
  unsettled, touched

Review == INSTANCE ReviewLoop
  WITH repo <- checkout, pc <- at, attempt <- attempts, cancelled <- abandoned, outcome <- result

reviewVars == <<checkout, at, attempts, abandoned, result, steered, summary, pass, resets, payload,
                total, rec, cp, agentRan, announced, spent, recorded, unsettled, touched>>

-----------------------------------------------------------------------------
(* One subject at a time.                                                  *)

\* The inputs of the workflow that is not the subject do not matter: one of them.
OneInput ==
  /\ subject # "develop" =>
       /\ named = FALSE /\ worktree = FALSE /\ tail = "await" /\ deps = 0
       /\ refs = {Main} /\ home = Main /\ trees = {}
       /\ repo = [tree |-> {}, merging |-> FALSE, merged |-> {}, ahead |-> FALSE]
  /\ subject # "review" =>
       /\ checkout = [tree |-> {}, stash |-> <<>>, ahead |-> FALSE]
       /\ steered = FALSE /\ summary = FALSE

InitBoth == subject \in {"develop", "review"} /\ OneInput /\ Init /\ Review!Init

NextBoth ==
  \/ subject = "develop" /\ Next /\ UNCHANGED <<subject, reviewVars>>
  \/ subject = "review" /\ Review!Next /\ UNCHANGED <<subject, vars>>

\* Each workflow's own fairness, which asks nothing of the one that stands still.
Fairness ==
  /\ WF_vars(subject = "develop" /\ Step) /\ WF_vars(subject = "develop" /\ cancelled /\ TailStep)
  /\ WF_reviewVars(subject = "review" /\ Review!Unattended)

BothSpec == InitBoth /\ [][NextBoth]_<<subject, vars, reviewVars>> /\ Fairness

-----------------------------------------------------------------------------
(* What each promises.                                                     *)

\* A loop's rows and its outcome tell what its agents did and spent
\* (ReviewWorkflow, terminalReview).
RowsTellTheTruth == Review!RowsTellTheTruth

\* No failure, retry or conflict loses the developer's work (MarkHeadAndStash,
\* EnsureHeadAdvanced).
DevelopersWorkSurvives == Review!DevelopersWorkSurvives

\* The loop ends or asks a human, where it is the subject (ReviewWorkflow).
NeverRunsAway == subject = "review" => Review!NeverRunsAway

\* Only its children may hold a develop run up, where it is the subject
\* (DevelopWorkflow).
DevelopGoesOn == subject = "develop" => OnlyChildrenHoldIt

=============================================================================
