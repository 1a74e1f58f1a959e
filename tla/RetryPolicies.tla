--------------------------- MODULE RetryPolicies ---------------------------
(* The retry policies a develop run and its review share (retryOptions of    *)
(* codereview): how many attempts a failing step is given.                  *)

CONSTANTS
  QuickAttempts,  \* RetryPolicy.MaximumAttempts of the git steps
  AgentAttempts   \* RetryPolicy.MaximumAttempts of the agent steps
=============================================================================
