---------------------------- MODULE WorkingTree -----------------------------
(***************************************************************************)
(* The checkout a review pass works in, as the git adapter drives it: the  *)
(* uncommitted changes in the tree, the stash and whether HEAD moved past  *)
(* the checkpoint.  A repository is a record of                            *)
(*                                                                         *)
(*   tree   the kinds of uncommitted change the checkout holds             *)
(*   stash  the stash entries, most recent first                           *)
(*   ahead  commits exist after the last HEAD a checkpoint read            *)
(*                                                                         *)
(* "mine" is what the developer left uncommitted, "older" an entry of the  *)
(* developer's own stash, "agents" what an agent left uncommitted and      *)
(* "conflict" the unmerged files of a stash pop that did not apply.        *)
(***************************************************************************)
EXTENDS Sequences

Kinds == {"mine", "older", "agents", "conflict"}

Repositories == [tree : SUBSET Kinds, stash : Seq(SUBSET Kinds), ahead : BOOLEAN]

\* The kinds of change the stash holds.
Stashed(repo) == UNION {repo.stash[i] : i \in DOMAIN repo.stash}

\* The change is in the checkout or in the stash: nobody has lost it.
Holds(repo, kind) == kind \in repo.tree \cup Stashed(repo)

HasChanges(repo) == repo.tree # {}

\* git stash push --include-untracked refuses an index with unmerged files.
CanStash(repo) == "conflict" \notin repo.tree

Stash(repo) == [repo EXCEPT !.stash = <<repo.tree>> \o @, !.tree = {}]

\* git stash pop takes the most recent entry, whoever pushed it.
CanPop(repo) == repo.stash # <<>>

StashPop(repo) == [repo EXCEPT !.tree = @ \cup repo.stash[1], !.stash = Tail(@)]

\* A pop that does not apply keeps the entry; it may leave unmerged files.
PopConflict(repo) == [repo EXCEPT !.tree = @ \cup {"conflict"}]

\* What an agent's turn can leave behind: nothing, uncommitted changes of its
\* own, a commit of its own changes, or a commit of everything the tree holds.
AgentTurns(repo) ==
  {repo,
   [repo EXCEPT !.tree = @ \cup {"agents"}],
   [repo EXCEPT !.ahead = TRUE],
   [repo EXCEPT !.ahead = TRUE, !.tree = {}]}

=============================================================================
