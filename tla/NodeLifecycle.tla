--------------------------- MODULE NodeLifecycle ----------------------------
(***************************************************************************)
(* What a fleet counts on of the child that develops one of its nodes: it  *)
(* is seeded with all it depends on or not at all, developed on top of     *)
(* that, and reviewed; it succeeds only if the review converged.  Fleet's  *)
(* children move through the same stages.                                  *)
(***************************************************************************)
CONSTANT Own  \* the node's own work

VARIABLES
  needs,   \* the branches the node depends on
  stage,   \* how far the node has come
  work,    \* the work its branch holds, once it is seeded
  verdict  \* what the review said of it

Init == Own \notin needs /\ stage = "seeding" /\ work = {} /\ verdict = "none"

Seed ==
  /\ stage = "seeding"
  /\ stage' = "developing" /\ work' = needs
  /\ UNCHANGED <<needs, verdict>>

Develop ==
  /\ stage = "developing"
  /\ stage' = "reviewing" /\ work' = needs \cup {Own}
  /\ UNCHANGED <<needs, verdict>>

Review ==
  /\ stage = "reviewing"
  /\ \/ stage' = "succeeded" /\ verdict' = "converged"
     \/ stage' = "blocked" /\ verdict' = "unconverged"
  /\ UNCHANGED <<needs, work>>

\* A seed nobody could resolve blocks the node; anything else fails it.
Block ==
  /\ stage = "seeding" /\ needs # {}
  /\ stage' = "blocked" /\ UNCHANGED <<needs, work, verdict>>

Fail ==
  /\ stage \in {"seeding", "developing", "reviewing"}
  /\ stage' = "failed" /\ UNCHANGED <<needs, work, verdict>>

Next == Seed \/ Develop \/ Review \/ Block \/ Fail

Spec == Init /\ [][Next]_<<needs, stage, work, verdict>>

=============================================================================
