--------------------------- MODULE PlanAlgorithms ---------------------------
(***************************************************************************)
(* The two recursions a plan goes through, findCycle's depth-first search  *)
(* and TopoLayers' memoised depths, taken one step at a time and compared  *)
(* with what FleetPlan says of the same plan.                              *)
(*                                                                         *)
(* A call in progress is an entry of `stack`, with the dependencies it has *)
(* still to look at.  The code looks at nodes and dependencies in the      *)
(* order the plan lists them; here a step takes any that is left, so every *)
(* order of every plan is a behaviour.                                     *)
(***************************************************************************)
EXTENDS FleetPlan, Sequences, SequencesExt

VARIABLES
  plan,       \* the input
  phase,      \* how far the plan has come
  color,      \* findCycle's colour of each node
  stack,      \* the calls in progress, the innermost last
  remaining,  \* the dependencies each call has still to look at
  cycle,      \* what findCycle returned: the cycle, or <<>>
  depth       \* the depths TopoLayers has computed

vars == <<plan, phase, color, stack, remaining, cycle, depth>>

Init ==
  /\ \E nodes \in SUBSET NodeIDs : plan \in PlansOver(nodes)
  /\ phase = "new" /\ stack = <<>> /\ cycle = <<>> /\ depth = <<>>
  /\ color = [n \in plan.nodes |-> "white"]
  /\ remaining = [n \in plan.nodes |-> {}]

\* ValidatePlan: a plan that is not well formed is rejected before the search.
Validate ==
  /\ phase = "new"
  /\ phase' = IF WellFormed(plan) THEN "search" ELSE "malformed"
  /\ UNCHANGED <<plan, color, stack, remaining, cycle, depth>>

-----------------------------------------------------------------------------
(* The calls both recursions make.                                         *)

\* What is left to look at once the innermost call has looked at d.
Without(d) == [remaining EXCEPT ![Last(stack)] = @ \ {d}]

\* A call for n begins.
Call(n, left) ==
  /\ stack' = Append(stack, n)
  /\ remaining' = [left EXCEPT ![n] = plan.deps[n]]

\* The innermost call looks at a dependency it has not looked at yet.
LooksAt(d) == stack # <<>> /\ d \in remaining[Last(stack)]

\* It has looked at them all, and returns.
Returns == stack # <<>> /\ remaining[Last(stack)] = {} /\ stack' = Front(stack)

-----------------------------------------------------------------------------
(* findCycle: a depth-first search that colours nodes.                     *)

\* visit(n): n is on the path being explored.
Visit(n, left) ==
  /\ Call(n, left) /\ color' = [color EXCEPT ![n] = "gray"]
  /\ UNCHANGED <<phase, cycle>>

\* The cycle the path closes at d, from where d first appears on it.
Closes(d) ==
  /\ \E i \in DOMAIN stack : /\ stack[i] = d /\ \A j \in 1..(i - 1) : stack[j] # d
                             /\ cycle' = Append(SubSeq(stack, i, Len(stack)), d)
  /\ phase' = "cyclic"
  /\ UNCHANGED <<color, stack, remaining>>

\* Mutant of Follow: an edge into an explored node closes a cycle too.
FollowAnyVisited(d) ==
  \/ color[d] = "white" /\ Visit(d, Without(d))
  \/ /\ color[d] # "white" /\ phase' = "cyclic" /\ cycle' = <<d>> \o stack \o <<d>>
     /\ UNCHANGED <<color, stack, remaining>>

\* One dependency: a gray one closes a cycle, a white one is visited.
Follow(d) ==
  \/ color[d] = "gray" /\ Closes(d)
  \/ color[d] = "white" /\ Visit(d, Without(d))
  \/ /\ color[d] = "black" /\ remaining' = Without(d)
     /\ UNCHANGED <<phase, color, stack, cycle>>

\* The node is explored: no cycle leads through it.
Explored ==
  /\ Returns /\ color' = [color EXCEPT ![Last(stack)] = "black"]
  /\ UNCHANGED <<phase, remaining, cycle>>

\* The plan's nodes are all explored.
Accept ==
  /\ stack = <<>> /\ \A n \in plan.nodes : color[n] # "white"
  /\ phase' = "valid"
  /\ UNCHANGED <<color, stack, remaining, cycle>>

findCycle ==
  /\ phase = "search"
  /\ \/ \E n \in plan.nodes : stack = <<>> /\ color[n] = "white" /\ Visit(n, remaining)
     \/ \E d \in plan.nodes : LooksAt(d) /\ Follow(d)
     \/ Explored
     \/ Accept
  /\ UNCHANGED <<plan, depth>>

-----------------------------------------------------------------------------
(* TopoLayers: depths by recursion over the dependencies, each node once.  *)

\* Mutant of Deepest: the shallowest dependency decides.
Shallowest(deps) == IF deps = {} THEN -1 ELSE Min({depth[d] : d \in deps})

Deepest(deps) == Max({-1} \cup {depth[d] : d \in deps})

\* compute(d) of one dependency: its depth is known, or is computed first.
Compute(d) ==
  \/ d \in DOMAIN depth /\ remaining' = Without(d) /\ UNCHANGED stack
  \/ d \notin DOMAIN depth /\ Call(d, Without(d))

\* The call returns one more than the deepest dependency, and keeps it.
Computed ==
  /\ Returns
  /\ depth' = [n \in DOMAIN depth \cup {Last(stack)} |->
                 IF n = Last(stack) THEN Deepest(plan.deps[n]) + 1 ELSE depth[n]]
  /\ UNCHANGED <<phase, remaining>>

Layered ==
  /\ stack = <<>> /\ DOMAIN depth = plan.nodes
  /\ phase' = "layered"
  /\ UNCHANGED <<stack, remaining, depth>>

TopoLayers ==
  /\ phase = "valid"
  /\ \/ /\ \E n \in plan.nodes : stack = <<>> /\ n \notin DOMAIN depth /\ Call(n, remaining)
        /\ UNCHANGED <<phase, depth>>
     \/ /\ \E d \in plan.nodes : LooksAt(d) /\ Compute(d)
        /\ UNCHANGED <<phase, depth>>
     \/ Computed
     \/ Layered
  /\ UNCHANGED <<plan, color, cycle>>

Next == Validate \/ findCycle \/ TopoLayers

Spec == Init /\ [][Next]_vars

-----------------------------------------------------------------------------
(* What the algorithms compute.                                            *)

\* findCycle misses no cycle and invents none: a shared dependency reached by
\* two paths is not a cycle.
AcceptsExactlyTheAcyclic ==
  phase \in {"valid", "layered", "cyclic"} => (phase = "cyclic" <=> HasCycle(plan))

\* The cycle shown to the operator is one: it follows dependencies, returns to
\* where it began and repeats nothing on the way.
ReportedCycleIsReal ==
  phase = "cyclic" =>
    /\ Len(cycle) > 1 /\ cycle[1] = cycle[Len(cycle)]
    /\ \A i \in 1..(Len(cycle) - 1) : cycle[i + 1] \in plan.deps[cycle[i]]
    /\ IsInjective(Tail(cycle))

\* Neither recursion calls itself for a node it is already in a call for, so
\* both come to an end: in TopoLayers only the search before it sees to that.
NeverCallsItself == IsInjective(stack)

\* A chain of dependencies that starts at n.
ChainsFrom(n) ==
  {c \in UNION {[1..k -> plan.nodes] : k \in 1..Cardinality(plan.nodes)} :
     c[1] = n /\ \A i \in 1..(Len(c) - 1) : c[i + 1] \in plan.deps[c[i]]}

\* A node's layer is the length of its longest dependency chain, no layer on
\* the way is empty, and these depths are the only ones Fleet could choose.
LayersFollowLongestChain ==
  phase = "layered" =>
    /\ \A n \in plan.nodes : depth[n] = Max({Len(c) - 1 : c \in ChainsFrom(n)})
    /\ \A n \in plan.nodes : \A i \in 0..depth[n] : \E m \in plan.nodes : depth[m] = i
    /\ Depths(plan) = {depth}

\* The four together: what ValidatePlan and TopoLayers answer for any plan is
\* what the plan's dependencies say, so that a fleet neither runs a cyclic plan
\* nor refuses a runnable one, and runs every node behind its dependencies.
FindsCyclesAndLayers ==
  /\ AcceptsExactlyTheAcyclic /\ ReportedCycleIsReal
  /\ NeverCallsItself /\ LayersFollowLongestChain

=============================================================================
