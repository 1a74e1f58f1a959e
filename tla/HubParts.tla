------------------------------ MODULE HubParts ------------------------------
(***************************************************************************)
(* The agent hub's operations that share no state with one another, for any *)
(* bounds: what Hub checks on a small instance of each and HubProofs proves. *)
(*                                                                         *)
(*   overview   a viewer's overview of the runs   (Collection, extended)   *)
(*   launch     starting work                     (Launch, extended)       *)
(*   places     the places a response refers to   (Locations)              *)
(***************************************************************************)
EXTENDS Launch, Collection

CONSTANTS Directories, Malformed, Remotes, Unknown, MaxFacts

\* The place nothing is known of is none that was recorded.
ASSUME PlacesAssumption ==
  /\ Directories \cup Remotes \subseteq Nat
  /\ Unknown \in Nat \ (Directories \cup Remotes) /\ MaxFacts \in Nat

VARIABLES facts, outcome, pending, chosen, walked, settled, published

Place == INSTANCE Locations

\* The published places build a tree in one pass, whatever the recorded facts,
\* and the order of the facts does not show in it.
PublishesOneTree == Place!PublishesOneTree

=============================================================================
