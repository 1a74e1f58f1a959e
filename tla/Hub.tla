-------------------------------- MODULE Hub --------------------------------
(***************************************************************************)
(* The parts of the agent hub, checked side by side: `subject` says which  *)
(* of them a behaviour is about, and only that one takes steps, so that the *)
(* states explored are the sum of theirs and not the product.              *)
(***************************************************************************)
EXTENDS HubParts, TLC

VARIABLE subject

-----------------------------------------------------------------------------
(* The instances.                                                          *)

\* Two operators, three requests: two in one tree, one of them in a worktree of
\* its own, and one in the tree where somebody else's run is going on.
MCProbe == "main" :> "main" @@ "main/sub" :> "main" @@ "home" :> NoTree
MCTarget == "r1" :> "main" @@ "r2" :> "main" @@ "r3" :> "shared"

-----------------------------------------------------------------------------
(* One subject at a time.                                                  *)

Subjects == {"overview", "launch", "places"}

\* The facts of a response do not matter where another part is the subject.
InitHub ==
  /\ subject \in Subjects /\ (subject # "places" => facts = <<>>)
  /\ InitLaunch /\ Init /\ Place!Init

placeVars == <<facts, outcome, pending, chosen, walked, settled, published>>

NextHub ==
  \/ subject = "overview" /\ Next /\ UNCHANGED <<subject, launchVars, placeVars>>
  \/ subject = "launch" /\ NextLaunch /\ UNCHANGED <<subject, vars, placeVars>>
  \/ subject = "places" /\ Place!Next /\ UNCHANGED <<subject, launchVars, vars>>

HubSpec == InitHub /\ [][NextHub]_<<subject, launchVars, vars, placeVars>>

=============================================================================
