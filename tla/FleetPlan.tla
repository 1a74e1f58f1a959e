----------------------------- MODULE FleetPlan ------------------------------
(***************************************************************************)
(* A fleet plan: the features a goal was decomposed into and the features  *)
(* each must run after.  A plan is a record of                             *)
(*                                                                         *)
(*   nodes    the identities of its nodes                                  *)
(*   deps     DependsOn, as written: it may name a node the plan lacks     *)
(*   legible  every id is a unique slug and every prompt says something    *)
(*                                                                         *)
(* Identities are numbers, so that the code's sort.Strings is their order. *)
(***************************************************************************)
EXTENDS Integers, FiniteSets

CONSTANT NodeIDs   \* the identities a plan may use

ASSUME NodeAssumption == NodeIDs \subseteq Nat /\ IsFiniteSet(NodeIDs)

PlansOver(nodes) == [nodes : {nodes}, deps : [nodes -> SUBSET NodeIDs], legible : BOOLEAN]

Plans == UNION {PlansOver(nodes) : nodes \in SUBSET NodeIDs}

\* What findCycle looks for: nodes that each depend on another of them.
HasCycle(plan) ==
  \E loop \in SUBSET plan.nodes : loop # {} /\ \A n \in loop : plan.deps[n] \cap loop # {}

\* The checks ValidatePlan makes before it looks for a cycle.
WellFormed(plan) ==
  /\ plan.nodes # {} /\ plan.legible
  /\ \A n \in plan.nodes : n \notin plan.deps[n] /\ plan.deps[n] \subseteq plan.nodes

ValidatePlan(plan) == WellFormed(plan) /\ ~HasCycle(plan)

\* The depths TopoLayers computes: one more than the deepest dependency's.
IsDepth(plan, depth) ==
  \A n \in plan.nodes :
    /\ \A d \in plan.deps[n] : depth[d] < depth[n]
    /\ depth[n] # 0 => \E d \in plan.deps[n] : depth[d] = depth[n] - 1

Depths(plan) ==
  {depth \in [plan.nodes -> 0..(Cardinality(plan.nodes) - 1)] : IsDepth(plan, depth)}

=============================================================================
