--------------------------- MODULE ReviewBounds ----------------------------
(* What a local review loop ranges over, apart from its checkout.            *)
EXTENDS Naturals, RetryPolicies

CONSTANTS
  MaxReviewPasses,  \* domain.go's cap on autonomous passes
  MaxResets         \* bound: budget renewals by an operator

ASSUME ReviewAssumption ==
  /\ MaxReviewPasses \in Nat \ {0}
  /\ QuickAttempts \in Nat \ {0}
  /\ AgentAttempts \in Nat \ {0}
  /\ MaxResets \in Nat
=============================================================================
