------------------------------ MODULE FleetView -----------------------------
(***************************************************************************)
(* A fleet while it runs, seen through the agent hub at every step: the    *)
(* rows its children left, the orchestrator's running children, the        *)
(* fleet's own row, and what the hub publishes of them.                    *)
(***************************************************************************)
EXTENDS Fleet, FleetOverview

\* One execution of the tree.  The fleet itself goes by the number 0.
Execution(id, out) ==
  [id |-> id, run |-> 1, start |-> id, outcome |-> out, tokens |-> 0, label |-> Unsaid,
   waiting |-> FALSE, class |-> IF id = 0 THEN "fleet" ELSE "fleet-node", parent |-> Unsaid,
   detached |-> FALSE, schedule |-> Unsaid, plan |-> Unsaid, place |-> Unsaid]

\* A child's own row knows success and failure only; a child that was
\* terminated never settled the row it wrote when it started.
recordedOutcome(n) ==
  CASE child[n] = "succeeded" -> "succeeded"
    [] child[n] \in {"failed", "blocked"} -> "failed"
    [] OTHER -> "running"

Tree == {Execution(n, recordedOutcome(n)) : n \in {m \in plan.nodes : child[m] # "none"}}

RunningChildren == {Execution(n, "running") : n \in {m \in plan.nodes : child[m] \in Live}}

\* What the orchestrator answers of one execution: it closed, as it closed.
Known ==
  [n \in {m \in plan.nodes : child[m] \in {"terminated", "succeeded", "failed", "blocked"}} |->
     [Execution(n, IF child[n] = "succeeded" THEN "succeeded" ELSE "failed") EXCEPT !.run = 1]]

\* The fleet's own execution: running until it closed, then as its row says,
\* and as the orchestrator says where the row was never settled.
parentOutcome ==
  IF pc # "ended" THEN "running"
  ELSE IF row.status \in {"succeeded", "failed"} THEN row.status
  ELSE IF outcome = "completed" THEN "succeeded" ELSE "failed"

recordedBreakdown ==
  [n \in {row.nodes[i].id : i \in 1..Len(row.nodes)} |->
     (CHOOSE i \in 1..Len(row.nodes) : row.nodes[i].id = n)]

breakdown == [n \in DOMAIN recordedBreakdown |-> row.nodes[recordedBreakdown[n]].status]

\* The plan is found through the handle the fleet's row carries.
planFor == IF row.status = "none" THEN [plan EXCEPT !.nodes = {}, !.deps = <<>>] ELSE plan

Published == buildFleet(Execution(0, parentOutcome), breakdown, Tree, RunningChildren, Known, planFor)

-----------------------------------------------------------------------------
\* What an operator saw of a node may become, and nothing else.
Becomes(status) ==
  CASE status = "waiting"       -> {"waiting", "todo", "paused", "in-progress", "failed"}
    [] status = "todo"          -> {"todo", "in-progress", "failed"}
    [] status = "in-progress"   -> {"in-progress", "done", "failed"}
    [] status = "failed"        -> {"failed", "waiting-input"}
    [] OTHER                    -> {status}

\* A viewer of an uncancelled fleet never sees it take something back: a node
\* that was done, skipped or waiting for a human stays so, a failed one at most
\* turns out to be recoverable, a fleet shown done stays done, and it is shown
\* done only when every node is.  Once it completed, no node is left to come,
\* whether or not the fleet's breakdown reached the record.
\* (agenthub/service.go: buildFleet, nodeExecutions; domain.go: DeriveNodeStatuses)
PublishedMovesForward ==
  [][~cancelled' => \A before \in {Published}, after \in {Published'} :
       before.nodes # <<>> =>
         /\ \A n \in plan.nodes : after.nodes[n] \in Becomes(before.nodes[n])
         /\ before.status = "done" =>
              /\ after.status = "done" /\ ~before.running
              /\ \A n \in plan.nodes : child[n] = "succeeded"
         /\ pc' = "ended" /\ outcome = "completed" =>
              \A n \in plan.nodes :
                after.nodes[n] \in {"done", "failed", "paused", "waiting-input"}]_vars

=============================================================================
