--------------------------- MODULE FleetOverview ----------------------------
(***************************************************************************)
(* A fleet as the agent hub shows it: its plan's nodes, each with a status *)
(* derived from its own execution, from the fleet's recorded breakdown or  *)
(* from the nodes it runs after, and one status for the whole.             *)
(***************************************************************************)
EXTENDS FleetPlan, Overview

NotSucceeding == {"failed", "paused", "waiting-input"}

\* A node that never started, told from the nodes it runs after.
statusFromDependencies(plan, statuses, n) ==
  LET of(d) == IF d \in DOMAIN statuses THEN statuses[d] ELSE "" IN
    IF \E d \in plan.deps[n] : of(d) \in NotSucceeding THEN "paused"
    ELSE IF \A d \in plan.deps[n] : of(d) = "done" THEN "todo"
    ELSE "waiting"

\* The nodes a dependency order reaches: those that every set closed under it
\* holds.  A node is placed as soon as every node it depends on is; an edge out
\* of the plan counts as satisfied, and a node on a cycle, or behind one, is
\* never placed.
dependencyOrder(plan) ==
  LET Closed(placed) ==
        \A n \in plan.nodes : plan.deps[n] \cap plan.nodes \subseteq placed => n \in placed
  IN {n \in plan.nodes : \A placed \in SUBSET plan.nodes : Closed(placed) => n \in placed}

\* outcomes maps the nodes that have one to it.
DeriveNodeStatuses(plan, outcomes) ==
  LET ordered == dependencyOrder(plan)
      status[n \in plan.nodes] ==
        IF n \in DOMAIN outcomes THEN WorkStatus(outcomes[n])
        ELSE IF n \notin ordered THEN "waiting"
        ELSE statusFromDependencies(plan, [d \in plan.deps[n] \cap plan.nodes |-> status[d]], n)
  IN status

AggregateStatus(statuses) ==
  LET some(s) == \E n \in DOMAIN statuses : statuses[n] = s
      all(s)  == \A n \in DOMAIN statuses : statuses[n] = s
      worst   == <<"failed", "waiting-input", "in-progress", "paused">>
  IN IF \E s \in ToSet(worst) : some(s) THEN SelectSeq(worst, some)[1]
     ELSE IF DOMAIN statuses # {} /\ all("done") THEN "done"
     ELSE IF some("done") THEN "in-progress"
     ELSE "todo"

NodeProgress(statuses) ==
  [done |-> Cardinality({n \in DOMAIN statuses : statuses[n] = "done"}),
   total |-> Cardinality(DOMAIN statuses)]

\* Mutant of fleetStatus: the nodes alone decide.
fleetStatusOfNodes(parent, statuses) == AggregateStatus(statuses)

fleetStatus(parent, statuses) ==
  IF parent.outcome = "failed" THEN "failed"
  ELSE IF Running(parent) /\ AggregateStatus(statuses) = "done" THEN "in-progress"
  ELSE AggregateStatus(statuses)

\* The queue of what has not started: runnable nodes, then waiting ones.
UpNext(plan, statuses) ==
  LET those(s) == SetToSortSeq({n \in plan.nodes : statuses[n] = s}, LAMBDA a, b : a < b)
  IN those("todo") \o those("waiting")

\* How the execution of a node stands: its rows newest first, what the live
\* listing has of it, and the orchestrator's word on what is in neither.
nodeOutcome(n, tree, live, known) ==
  LET chain == FoldLeft(merge, noChain, NewestFirst(RowsOf(tree, n)))
  IN IF n \in IdsOf(live) THEN (CHOOSE e \in live : e.id = n).outcome
     ELSE IF Running(chain.latest) THEN settle(chain.latest, known).outcome
     ELSE chain.latest.outcome

\* Each node's outcome: its own execution's, and over it the breakdown of the
\* fleet's row, except that a node still running belongs to a newer attempt.
nodeExecutions(breakdown, tree, live, known) ==
  LET executed == IdsOf(tree) \cup IdsOf(live)
      own      == [n \in executed |-> nodeOutcome(n, tree, live, known)]
  IN [n \in executed \cup DOMAIN breakdown |->
        IF n \in DOMAIN breakdown /\ ~(n \in executed /\ own[n] = "running")
          THEN breakdown[n] ELSE own[n]]

\* The published fleet; a plan the store lost leaves the fleet's own status.
buildFleet(parent, breakdown, tree, live, known, plan) ==
  IF plan.nodes = {}
    THEN [running |-> Running(parent), status |-> WorkStatus(parent.outcome),
          progress |-> [done |-> 0, total |-> 0], nodes |-> <<>>]
    ELSE LET statuses == DeriveNodeStatuses(plan, nodeExecutions(breakdown, tree, live, known))
         IN [running |-> Running(parent), status |-> fleetStatus(parent, statuses),
             progress |-> NodeProgress(statuses), nodes |-> statuses]

=============================================================================
