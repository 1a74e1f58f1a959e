------------------------------ MODULE Cleanup -------------------------------
(***************************************************************************)
(* The cleanup command (cleanup.Cleaner over gitcli): it goes through the   *)
(* worktrees the tool made, asks, and removes a worktree with its branch,  *)
(* while agents may still be at work in them.                              *)
(***************************************************************************)
EXTENDS FiniteSets

CONSTANTS
  Managed,    \* worktrees under the tool's directory, each with its branch
  Others      \* worktrees of the same repository elsewhere

Worktrees == Managed \cup Others

VARIABLES
  tree,      \* each worktree: "clean", "dirty" or "gone"
  branch,    \* each worktree's branch: "merged", "unmerged" or "gone"
  listed,    \* the worktrees still to be gone through
  at,        \* the worktree in hand, or None
  step,      \* where handle is with it
  force,     \* whether it removes by force
  consented  \* the worktrees whose forced removal was agreed to

vars == <<tree, branch, listed, at, step, force, consented>>

None == "none"

Init ==
  /\ tree \in [Worktrees -> {"clean", "dirty"}] /\ branch \in [Worktrees -> {"merged", "unmerged"}]
  /\ listed = {} /\ at = None /\ step = "list" /\ force = FALSE /\ consented = {}

\* An agent, or the developer, changes files, commits, or merges the branch.
Work(w) ==
  /\ tree[w] # "gone" /\ branch[w] # "gone"
  /\ \/ tree' = [tree EXCEPT ![w] = "dirty"] /\ UNCHANGED branch
     \/ /\ tree' = [tree EXCEPT ![w] = "clean"]
        /\ branch' = [branch EXCEPT ![w] = "unmerged"]
     \/ branch' = [branch EXCEPT ![w] = "merged"] /\ UNCHANGED tree
  /\ UNCHANGED <<listed, at, step, force, consented>>

\* Mutant of UnderDir: everything git lists.
AnyWorktree(w) == TRUE
UnderDir(w) == w \in Managed

\* List: the repository's worktrees that lie under the tool's directory.
List ==
  /\ step = "list"
  /\ listed' = {w \in Worktrees : tree[w] # "gone" /\ UnderDir(w)} /\ step' = "next"
  /\ UNCHANGED <<tree, branch, at, force, consented>>

Take(w) ==
  /\ step = "next" /\ w \in listed
  /\ at' = w /\ listed' = listed \ {w} /\ step' = "ask" /\ force' = FALSE
  /\ UNCHANGED <<tree, branch, consented>>

\* Confirm: yes or no; an answer that cannot be read is an error on this
\* worktree, like every failure of git, and the next one's turn comes.
Leave ==
  /\ step \in {"ask", "merged?", "ask force", "remove", "ask retry"}
  /\ step' = "next" /\ at' = None
  /\ UNCHANGED <<tree, branch, listed, force, consented>>

Agree ==
  /\ step = "ask" /\ step' = "merged?"
  /\ UNCHANGED <<tree, branch, listed, at, force, consented>>

CheckMerged ==
  /\ step = "merged?" /\ step' = IF branch[at] = "merged" THEN "remove" ELSE "ask force"
  /\ UNCHANGED <<tree, branch, listed, at, force, consented>>

AgreeForce ==
  /\ step \in {"ask force", "ask retry"}
  /\ step' = "remove" /\ force' = TRUE /\ consented' = consented \cup {at}
  /\ UNCHANGED <<tree, branch, listed, at>>

-----------------------------------------------------------------------------
(* Remove: git worktree remove (or prune, for a directory that is gone),   *)
(* then git branch -d, or -D by force.                                     *)

RemovesTree == tree[at] # "dirty" \/ force

\* Mutant of DeletesBranch: the merge was checked already.
DeletesCheckedBranch == TRUE
DeletesBranch == branch[at] = "merged" \/ force

Remove ==
  /\ step = "remove"
  /\ tree' = IF RemovesTree THEN [tree EXCEPT ![at] = "gone"] ELSE tree
  /\ branch' = IF RemovesTree /\ DeletesBranch THEN [branch EXCEPT ![at] = "gone"] ELSE branch
  /\ step' = IF (RemovesTree /\ DeletesBranch) \/ force THEN "next" ELSE "ask retry"
  /\ at' = IF step' = "next" THEN None ELSE at
  /\ UNCHANGED <<listed, force, consented>>

Next ==
  \/ \E w \in Worktrees : Work(w) \/ Take(w)
  \/ List \/ Leave \/ Agree \/ CheckMerged \/ AgreeForce \/ Remove

Spec == Init /\ [][Next]_vars

-----------------------------------------------------------------------------
\* Work that was not merged, and changes nobody committed, are lost only with
\* a worktree whose forced removal was agreed to, also when an agent commits
\* after the merge check; and a worktree made elsewhere is left alone.
NothingIsLostUnasked ==
  [][/\ \A w \in Worktrees \ consented' :
          /\ branch[w] = "unmerged" => branch'[w] # "gone"
          /\ tree[w] = "dirty" => tree'[w] # "gone"
     /\ \A w \in Others : tree'[w] # "gone"]_vars

=============================================================================
