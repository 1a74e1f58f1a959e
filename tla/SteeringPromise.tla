-------------------------- MODULE SteeringPromise ---------------------------
(***************************************************************************)
(* What a steering pause promises the loop that waits on it, whatever the  *)
(* store, the signals and the requests do in between: one decision of the  *)
(* round's own vocabulary is made, it is final, and the loop resumes at    *)
(* most once, with that decision.                                          *)
(***************************************************************************)
CONSTANTS
  Valid,     \* the decisions the round accepts
  Undecided  \* "not yet": not one of them

VARIABLES
  decision,  \* the decision made
  resumed    \* the decision the loop resumed with

Init == decision = Undecided /\ resumed = Undecided

Decide ==
  /\ decision = Undecided
  /\ decision' \in Valid
  /\ UNCHANGED resumed

Resume ==
  /\ decision # Undecided /\ resumed = Undecided
  /\ resumed' = decision
  /\ UNCHANGED decision

Next == Decide \/ Resume

Spec == Init /\ [][Next]_<<decision, resumed>>

=============================================================================
