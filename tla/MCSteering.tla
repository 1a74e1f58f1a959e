----------------------------- MODULE MCSteering -----------------------------
(* Steering for TLC: two operators (two browser tabs), and what is signalled  *)
(* around the API, if anything.                                               *)
EXTENDS Steering

NoDirect == {}

\* A decision of another pause's vocabulary, signalled around the API.
Misdirected == {[choice |-> "continue", guidance |-> NoText, principal |-> NoOne]}

=============================================================================
