------------------------------- MODULE Fleet --------------------------------
(***************************************************************************)
(* One fleet execution (fleet.FleetWorkflow): the plan's nodes are run in  *)
(* dependency layers, each as a child develop workflow awaiting its own    *)
(* review, and each result gates the nodes behind it.                      *)
(*                                                                         *)
(* The children run concurrently with the fleet and with each other.  A    *)
(* child is followed through its seeding, development and review; how it   *)
(* does each is DevelopWorkflow's own business.  A future and its child    *)
(* are kept apart, because a cancelled fleet's futures resolve before the  *)
(* children do.                                                            *)
(***************************************************************************)
EXTENDS FleetPlan, Sequences

CONSTANT MaxAttempts   \* RetryPolicy.MaximumAttempts of the fleet's activities

ASSUME FleetAssumption == MaxAttempts \in Nat \ {0}

VARIABLES
  plan,      \* FleetInput.Plan
  worktrees, \* FleetInput.WorktreesDir is given
  pc,        \* the step the fleet workflow is in
  attempt,   \* attempts made of the activity in progress
  depth,     \* the layer of each node, once TopoLayers computed it
  layer,     \* the layer being run
  started,   \* the layer's children still to be awaited, in order
  results,   \* NodeResult.Status of the nodes that have one
  order,     \* the sequence the nodes settled in
  child,     \* where each child develop workflow stands
  future,    \* what each child's future resolved to
  cancelled, \* the fleet was asked to cancel
  outcome,   \* what the fleet returned
  row        \* the fleet's execution row

runVars == <<depth, layer, started, results, order>>
vars == <<plan, worktrees, pc, attempt, runVars, child, future, cancelled, outcome, row>>

Unsettled == "unsettled"
Statuses  == {"succeeded", "failed", "blocked", "skipped"}
Live      == {"seeding", "developing", "reviewing"}

NoRow == [status |-> "none", nodes |-> <<>>]

Init ==
  /\ plan \in Plans /\ worktrees \in BOOLEAN
  /\ pc = "start" /\ attempt = 0
  /\ depth = [n \in plan.nodes |-> 0] /\ layer = 0 /\ started = <<>>
  /\ results = [n \in plan.nodes |-> Unsettled] /\ order = <<>>
  /\ child = [n \in plan.nodes |-> "none"]
  /\ future = [n \in plan.nodes |-> "none"]
  /\ cancelled = FALSE /\ outcome = "running"
  /\ row = NoRow

-----------------------------------------------------------------------------
(* Activities.                                                             *)

Succeeds == ~cancelled /\ attempt' = 0

Retries  == ~cancelled /\ attempt + 1 < MaxAttempts /\ attempt' = attempt + 1
GivesUp  == (cancelled \/ attempt + 1 = MaxAttempts) /\ attempt' = 0

Return(result) == pc' = "settle" /\ outcome' = result

\* startFleetState: refusing to run unrecorded, with no settlement to follow.
RecordStart ==
  /\ pc = "start"
  /\ \/ /\ Succeeds /\ row' = [row EXCEPT !.status = "running"]
        /\ pc' = "plan" /\ UNCHANGED outcome
     \/ /\ row' \in {row, [row EXCEPT !.status = "running"]}
        /\ \/ Retries /\ UNCHANGED <<pc, outcome>>
           \/ GivesUp /\ pc' = "ended" /\ outcome' = "failed"
  /\ UNCHANGED <<plan, worktrees, runVars, child, future, cancelled>>

\* The worktrees directory, then TopoLayers, which rejects an invalid plan.
TopoLayers ==
  /\ pc = "plan"
  /\ IF worktrees /\ ValidatePlan(plan)
       THEN depth' \in Depths(plan) /\ pc' = "base" /\ UNCHANGED outcome
       ELSE Return("failed") /\ UNCHANGED depth
  /\ UNCHANGED <<plan, worktrees, attempt, layer, started, results, order, child, future,
                 cancelled, row>>

ResolveBase ==
  /\ pc = "base"
  /\ \/ Succeeds /\ pc' = "layer" /\ UNCHANGED outcome
     \/ Retries /\ UNCHANGED <<pc, outcome>>
     \/ GivesUp /\ Return("failed")
  /\ UNCHANGED <<plan, worktrees, runVars, child, future, cancelled, row>>

-----------------------------------------------------------------------------
(* Layers.                                                                 *)

\* The nodes of a set in sorted order.
Sorted(nodes) ==
  [i \in 1..Cardinality(nodes) |->
     CHOOSE n \in nodes : Cardinality({m \in nodes : m < n}) = i - 1]

\* Mutants of blockingDependency: a blocked dependency lets its dependents run;
\* a failure anywhere in the plan stops every node.
BlockedByFailure(n) == \E d \in plan.deps[n] : results[d] \in {"failed", "skipped"}
BlockedByAnyFailure(n) == \E d \in plan.nodes : results[d] \in {"failed", "blocked", "skipped"}

\* blockingDependency: some dependency has no result, or did not succeed.
blockingDependency(n) == \E d \in plan.deps[n] : results[d] # "succeeded"

LayerNodes(i) == {n \in plan.nodes : depth[n] = i}

\* A layer is entered: a node behind a dependency that did not succeed is
\* skipped; the others are started, which a cancelled fleet refuses at once.
StartLayer ==
  /\ pc = "layer" /\ LayerNodes(layer) # {}
  /\ LET skipped == {n \in LayerNodes(layer) : blockingDependency(n)}
         run     == LayerNodes(layer) \ skipped
     IN /\ results' = [n \in plan.nodes |-> IF n \in skipped THEN "skipped" ELSE results[n]]
        /\ order' = order \o Sorted(skipped)
        /\ started' = Sorted(run)
        /\ child' = [n \in plan.nodes |-> IF n \in run /\ ~cancelled THEN "seeding"
                                                                     ELSE child[n]]
        /\ future' = [n \in plan.nodes |->
                        IF n \in run THEN IF cancelled THEN "failed" ELSE "pending"
                                     ELSE future[n]]
  /\ pc' = "await"
  /\ UNCHANGED <<plan, worktrees, attempt, depth, layer, cancelled, outcome, row>>

\* The next child's future has resolved.
AwaitChild ==
  /\ pc = "await" /\ started # <<>>
  /\ LET n == Head(started) IN
       /\ future[n] # "pending"
       /\ results' = [results EXCEPT ![n] = future[n]]
       /\ order' = Append(order, n)
  /\ started' = Tail(started)
  /\ UNCHANGED <<plan, worktrees, pc, attempt, depth, layer, child, future, cancelled,
                 outcome, row>>

NextLayer ==
  /\ pc = "await" /\ started = <<>>
  /\ layer' = layer + 1 /\ pc' = "layer"
  /\ UNCHANGED <<plan, worktrees, attempt, depth, started, results, order, child, future,
                 cancelled, outcome, row>>

\* Mutant of Finish: ctx.Err() is not looked at.
FinishRegardless ==
  /\ pc = "layer" /\ LayerNodes(layer) = {}
  /\ Return("completed")
  /\ UNCHANGED <<plan, worktrees, attempt, runVars, child, future, cancelled, row>>

\* Every layer has settled: a cancelled run returns its cancellation, any other
\* is summarized, whatever its nodes did.
Finish ==
  /\ pc = "layer" /\ LayerNodes(layer) = {}
  /\ Return(IF cancelled THEN "cancelled" ELSE "completed")
  /\ UNCHANGED <<plan, worktrees, attempt, runVars, child, future, cancelled, row>>

\* FleetState at the terminal write: rec.Nodes is set once the layers are done.
Breakdown == [i \in 1..Len(order) |-> [id |-> order[i], status |-> results[order[i]]]]

\* Mutant of Settlement: rec.Nodes is set after the cancellation check.
SettlementAfterCheck ==
  [status |-> IF outcome = "completed" THEN "succeeded" ELSE "failed",
   nodes  |-> IF outcome = "completed" THEN Breakdown ELSE <<>>]

Settlement ==
  [status |-> IF outcome = "completed" THEN "succeeded" ELSE "failed",
   nodes  |-> IF outcome = "failed" THEN <<>> ELSE Breakdown]

\* finishFleetState, on a disconnected context; a failed write changes nothing
\* else.  The workflow then closes, and children still open are terminated.
Settle ==
  /\ pc = "settle"
  /\ \/ attempt' = 0 /\ row' = Settlement /\ pc' = "ended"
     \/ /\ row' \in {row, Settlement}
        /\ \/ attempt + 1 < MaxAttempts /\ attempt' = attempt + 1 /\ UNCHANGED pc
           \/ attempt + 1 = MaxAttempts /\ attempt' = 0 /\ pc' = "ended"
  /\ child' = [n \in plan.nodes |-> IF pc' = "ended" /\ child[n] \in Live THEN "terminated"
                                                                        ELSE child[n]]
  /\ UNCHANGED <<plan, worktrees, runVars, future, cancelled, outcome>>

-----------------------------------------------------------------------------
(* The children.                                                           *)

\* Mutant of EndChild: the parent is not told.
EndChildUnheard(n, ending) == child' = [child EXCEPT ![n] = ending] /\ UNCHANGED future

\* A child ends; its future takes the ending unless it had resolved already.
EndChild(n, ending) ==
  /\ child' = [child EXCEPT ![n] = ending]
  /\ future' = [future EXCEPT ![n] = IF @ = "pending" THEN ending ELSE @]

\* DevelopWorkflow in its AwaitReview mode: a seed conflict nobody resolved and
\* a review that did not converge block the node, anything else fails it.
ChildStep(n) ==
  /\ \/ /\ child[n] = "seeding"
        /\ \/ child' = [child EXCEPT ![n] = "developing"] /\ UNCHANGED future
           \/ plan.deps[n] # {} /\ EndChild(n, "blocked")
           \/ EndChild(n, "failed")
     \/ /\ child[n] = "developing"
        /\ \/ child' = [child EXCEPT ![n] = "reviewing"] /\ UNCHANGED future
           \/ EndChild(n, "failed")
  /\ UNCHANGED <<plan, worktrees, pc, attempt, runVars, cancelled, outcome, row>>

\* The review converges, ends without converging, or fails.  A steered review
\* asks an operator and may stay here for ever.
ReviewEnds(n) ==
  /\ child[n] = "reviewing"
  /\ \E ending \in {"succeeded", "blocked", "failed"} : EndChild(n, ending)
  /\ UNCHANGED <<plan, worktrees, pc, attempt, runVars, cancelled, outcome, row>>

Cancel ==
  /\ pc # "ended" /\ ~cancelled
  /\ cancelled' = TRUE
  /\ UNCHANGED <<plan, worktrees, pc, attempt, runVars, child, future, outcome, row>>

\* Mutant of FutureCancelled: the future waits for its child's cancellation.
FutureWaitsForChild(n) ==
  /\ cancelled /\ future[n] = "pending" /\ child[n] \notin Live
  /\ future' = [future EXCEPT ![n] = "failed"]
  /\ UNCHANGED <<plan, worktrees, pc, attempt, runVars, child, cancelled, outcome, row>>

\* A cancelled fleet's pending future resolves as cancelled without waiting for
\* its child, which the fleet counts as a failure.
FutureCancelled(n) ==
  /\ cancelled /\ future[n] = "pending"
  /\ future' = [future EXCEPT ![n] = "failed"]
  /\ UNCHANGED <<plan, worktrees, pc, attempt, runVars, child, cancelled, outcome, row>>

Ended == pc = "ended" /\ UNCHANGED vars

FleetStep ==
  \/ RecordStart \/ TopoLayers \/ ResolveBase \/ StartLayer \/ AwaitChild
  \/ NextLayer \/ Finish \/ Settle
  \/ \E n \in plan.nodes : FutureCancelled(n)

ChildrenStep == \E n \in plan.nodes : ChildStep(n)

Next ==
  \/ FleetStep \/ ChildrenStep \/ Cancel \/ Ended
  \/ \E n \in plan.nodes : ReviewEnds(n)

Spec == Init /\ [][Next]_vars

\* The worker keeps running the fleet and its children, whose activities end or
\* time out; a review may wait for its operator.
FairSpec == Spec /\ WF_vars(FleetStep) /\ WF_vars(ChildrenStep)

-----------------------------------------------------------------------------
(* What a fleet promises.                                                  *)

\* A node is developed only on top of finished, reviewed work: while its child
\* exists, every node it depends on, directly or not, ended in success.
RunsOnReviewedWork ==
  \A n \in plan.nodes : child[n] # "none" =>
    \A d \in plan.deps[n] : child[d] = "succeeded"

\* A run that reports completion reports every node once, as what its child
\* really did: no cancellation passes for a failure and nobody is forgotten.  A
\* node was skipped exactly where a dependency settled without success, so that
\* a failure stops what depends on it and nothing else.
CompletedTellsTheTruth ==
  outcome = "completed" =>
    /\ Len(order) = Cardinality(plan.nodes)
    /\ \A n \in plan.nodes :
         /\ \E i \in 1..Len(order) : order[i] = n
         /\ IF \E d \in plan.deps[n] : results[d] # "succeeded"
              THEN results[n] = "skipped" /\ child[n] = "none"
              ELSE results[n] = child[n]

\* A settled row holds the breakdown of every run that reached its nodes, a
\* cancelled one included: a skipped node is recorded there and nowhere else.
RowHoldsBreakdown ==
  row.status \in {"succeeded", "failed"} /\ outcome # "failed" =>
    /\ Len(row.nodes) = Cardinality(plan.nodes)
    /\ \A i \in 1..Len(row.nodes) : row.nodes[i].status = results[row.nodes[i].id]

\* Why a node runs on reviewed work: a success recorded by the fleet is its
\* future's, a future's is its child's, and no layer is entered twice.
LayerOrder ==
  /\ pc \in {"base", "layer", "await"} => WellFormed(plan)
  /\ pc \in {"start", "plan", "base"} =>
       \A n \in plan.nodes : child[n] = "none" /\ future[n] = "none" /\ results[n] = Unsettled
  /\ \A n \in plan.nodes :
       /\ results[n] = "succeeded" => future[n] = "succeeded"
       /\ future[n] = "succeeded" => child[n] = "succeeded"
       /\ future[n] # "none" => depth[n] <= layer /\ (pc = "layer" => depth[n] < layer)
       /\ child[n] # "none" => future[n] # "none" /\ WellFormed(plan)

\* Nothing but a review that waits holds a fleet up.
OnlyReviewsHoldTheFleet ==
  []<>(pc = "ended" \/ \E n \in plan.nodes : child[n] = "reviewing")

\* A cancelled fleet ends, whatever its children wait for.
CancelEndsFleet == cancelled ~> pc = "ended"

\* Both: a fleet ends, unless a review it was not cancelled in still waits.
FleetEnds == OnlyReviewsHoldTheFleet /\ CancelEndsFleet

=============================================================================
