----------------------------- MODULE Directions -----------------------------
(***************************************************************************)
(* What directs an agent, checked side by side: the conversation in which  *)
(* an operator and the agent arrive at guidance (Conversation), and the    *)
(* texts the agent is configured with (Configuration).  They share no      *)
(* state; `subject` says which of them a behaviour is about, and only that *)
(* one takes steps.                                                        *)
(***************************************************************************)
EXTENDS Conversation, Configuration, TLC

VARIABLE subject

-----------------------------------------------------------------------------
(* The instances.                                                          *)

\* A signal sent around the API that the round accepts.
DirectSkip == {[choice |-> "skip", guidance |-> NoText, principal |-> NoOne]}

\* Two builds that ship different texts.
TwoBuilds(build, key) == IF build = "old" THEN "short" ELSE "long"

\* Writers are interchangeable.
Symmetry == Permutations(Writers)

-----------------------------------------------------------------------------
InitDirections ==
  subject \in {"conversation", "configuration"} /\ InitConversation /\ InitConfiguration

NextDirections ==
  \/ subject = "conversation" /\ NextConversation /\ UNCHANGED <<subject, configurationVars>>
  \/ subject = "configuration" /\ NextConfiguration /\ UNCHANGED <<subject, allVars>>

DirectionsSpec ==
  InitDirections /\ [][NextDirections]_<<subject, allVars, configurationVars>>

=============================================================================
