--------------------------- MODULE DevelopProofs ----------------------------
(***************************************************************************)
(* For any number of dependencies, names and attempts: a develop run       *)
(* leaves no second branch in the checkout, tells its operator the truth,  *)
(* and implements the lifecycle a fleet counts on.                         *)
(***************************************************************************)
EXTENDS Develop, TLAPS, FiniteSetTheorems

Merging == {"merge", "resolve", "abort"}
Places == Seeding \cup Developing \cup Tailing \cup {"settle", "ended"}
Working == Places \ {"settle", "ended"}

\* What every variable ranges over.
Types ==
  /\ named \in BOOLEAN /\ worktree \in BOOLEAN /\ tail \in Tails /\ deps \in 0..MaxDeps
  /\ saved \in Aliases \cup {NoName} /\ created \subseteq Names
  /\ branch \in Names \cup {NoName}
  /\ repo \in Repositories /\ next \in Nat
  /\ pc \in Places
  /\ outcome \in {"running", "failed", "blocked", "succeeded"}
  /\ verdict \in {"none", "asked", "converged", "unconverged"}
  /\ pr \in BOOLEAN /\ quiet \in BOOLEAN /\ told \in Nat
  /\ row \in [status : {"none", "running", "failed", "succeeded"}, pr : BOOLEAN]

\* Where the run stands, and what it has to show for it.
Path ==
  /\ outcome = "running" <=> pc \in Working
  /\ pc \in Tailing => (pc = "detached" <=> tail = "detached") /\ (pc = "await" <=> tail = "await")
  /\ pc \in Seeding \cup Developing => verdict = "none"
  /\ pc \in Tailing => verdict # "none"
  /\ pc = "await" => verdict = "asked"

\* The seed is in up to the dependency being merged, and whole afterwards.
Seeds ==
  /\ "conflict" \in repo.tree => repo.merging
  /\ pc \in {"start", "branch"} => branch = NoName /\ next = 1 /\ repo.merged = {} /\ ~repo.merging
  /\ pc \in Merging =>
       /\ branch # NoName /\ next \in 1..deps
       /\ 1..(next - 1) \subseteq repo.merged /\ repo.merged \subseteq 1..next
  /\ pc \in Developing \cup Tailing =>
       branch # NoName /\ next = deps + 1 /\ repo.merged = 1..deps /\ ~repo.merging
  /\ pc \in Tailing \cup {"summarize"} => repo.ahead /\ repo.tree = {}
  /\ BlockedMeansClean

\* What was announced, and who is left to announce.
AwaitsReview == tail = "await" /\ verdict # "none"
Notices ==
  /\ pc \in Working => told = 0 /\ (quiet <=> pc \in Tailing /\ tail # "detached")
  /\ pc = "settle" =>
       /\ AwaitsReview => quiet
       /\ told = IF outcome = "succeeded" \/ ~quiet \/ AwaitsReview THEN 0 ELSE 1
  /\ pc # "ended" => row.status \in {"none", "running"}
  /\ TellsFailureOnce /\ KnownPRRecorded

\* In the checkout: the one branch that was created is where the next attempt
\* looks, and the checkout stands on it.
LooksFor(x) == x = IF named THEN Asked ELSE saved
InPlace ==
  /\ pc = "start" => created = {}
  /\ ~worktree =>
    \/ created = {}
    \/ \E x \in Names : created = {x} /\ (pc = "branch" => home = x /\ LooksFor(x))

DInv == Types /\ Path /\ Seeds /\ Notices /\ InPlace

-----------------------------------------------------------------------------
\* A failed attempt leaves the run where it is, or fails it.
LEMMA FailsMeans ==
  ASSUME NEW limit, Fails(limit)
  PROVE  (pc' = pc /\ outcome' = outcome) \/ (pc' = "settle" /\ outcome' = "failed")
BY DEF Fails, GivesUp, Return

LEMMA RefusesMeans == ASSUME Refuses PROVE pc' = "settle" /\ outcome' = "failed"
BY DEF Refuses, Return

LEMMA NamesAreNamed ==
  /\ NoName \notin Names /\ MaxDeps \in Nat
  /\ \A n \in Aliases : n \in Names /\ n # NoName
  /\ Asked \in Names
BY DevelopAssumption DEF Names, NoName, Asked

LEMMA InitIsGood == Init => DInv
<1>. SUFFICES ASSUME Init PROVE DInv
  OBVIOUS
<1>1. Types
  <2>1. repo \in Repositories
    <3>1. PICK t \in {{}, {"mine"}} :
            repo = [tree |-> t, merging |-> FALSE, merged |-> {}, ahead |-> FALSE]
      BY DEF Init
    <3>2. t \in SUBSET {"mine", "agents", "conflict"} /\ {} \in SUBSET (1..MaxDeps)
      OBVIOUS
    <3>. QED BY <3>1, <3>2 DEF Repositories
  <2>. QED BY <2>1, NamesAreNamed DEF Init, Types, Places, Seeding, Tails
<1>2. Path /\ Seeds /\ Notices /\ InPlace
  BY DEF Init, Path, Seeds, Notices, InPlace, Places, Working, Merging, Seeding, Developing, Tailing,
         BlockedMeansClean, TellsFailureOnce, KnownPRRecorded
<1>. QED BY <1>1, <1>2 DEF DInv

LEMMA RecordStartKeeps == ASSUME DInv, RecordStart PROVE DInv'
<1>. USE DEF DInv, RecordStart, inputVars, branchVars, Places, Working, Merging, Seeding, Developing,
             Tailing
<1>1. Types'
  BY DEF Types
<1>2. Path'
  BY DEF Path
<1>3. Seeds'
  BY DEF Seeds, BlockedMeansClean
<1>4. Notices'
  BY DEF Notices, AwaitsReview, TellsFailureOnce, KnownPRRecorded, Types, Path
<1>5. InPlace'
  BY DEF InPlace, LooksFor
<1>. QED BY <1>1, <1>2, <1>3, <1>4, <1>5

LEMMA MergeDependencyKeeps == ASSUME DInv, MergeDependency PROVE DInv'
<1>. USE DEF inputVars, branchVars, tailVars, Places, Working, Merging, Seeding, Developing, Tailing
<1>1. /\ UNCHANGED <<named, worktree, tail, deps, refs, home, trees, saved, created, branch>>
      /\ UNCHANGED <<verdict, pr, row, quiet, told>>
  BY DEF MergeDependency
<1>2. pc = "merge" /\ next \in 1..deps /\ next \in 1..MaxDeps /\ next \in Nat /\ deps \in Nat
      /\ outcome = "running" /\ 1..(next - 1) \subseteq repo.merged /\ repo.merged \subseteq 1..next
      /\ ("conflict" \in repo.tree => repo.merging)
  BY NamesAreNamed DEF DInv, Types, Seeds, Path, MergeDependency
<1>3. repo \in Repositories
  BY DEF DInv, Types
<1>. DEFINE Good ==
       /\ repo' \in Repositories /\ ("conflict" \in repo'.tree => repo'.merging) /\ next' \in Nat
       /\ \/ /\ pc' \in {"merge", "resolve"} /\ outcome' = "running" /\ next' \in 1..deps
             /\ 1..(next' - 1) \subseteq repo'.merged /\ repo'.merged \subseteq 1..next'
          \/ /\ pc' = "develop" /\ outcome' = "running"
             /\ next' = deps + 1 /\ repo'.merged = 1..deps /\ ~repo'.merging
          \/ pc' = "settle" /\ outcome' = "failed"
<1>4. ASSUME Fails(QuickAttempts), UNCHANGED <<repo, next>> PROVE Good
  BY <1>2, <1>3, <1>4, FailsMeans
<1>5. ASSUME ~repo.merging, repo' = [repo EXCEPT !.merged = @ \cup {next}],
             (Seeded /\ UNCHANGED outcome) \/ (Fails(QuickAttempts) /\ UNCHANGED next)
      PROVE  Good
  <2>1. repo' \in Repositories /\ repo'.merged = repo.merged \cup {next} /\ repo'.tree = repo.tree
        /\ ~repo'.merging
    BY <1>2, <1>3, <1>5 DEF Repositories
  <2>2. CASE Seeded /\ UNCHANGED outcome
    <3>1. next' = next + 1 /\ pc' = IF next < deps THEN "merge" ELSE "develop"
      BY <2>2 DEF Seeded
    <3>2. repo'.merged = 1..next
      <4>1. 1..next = 1..(next - 1) \cup {next}
        BY <1>2
      <4>. QED BY <1>2, <2>1, <4>1
    <3>3. CASE next < deps
      <4>1. pc' = "merge" /\ next' \in 1..deps /\ next' - 1 = next /\ 1..next \subseteq 1..next'
        BY <1>2, <3>1, <3>3
      <4>. QED BY <1>2, <1>5, <2>1, <2>2, <3>2, <4>1
    <3>4. CASE ~(next < deps)
      <4>1. pc' = "develop" /\ next' = deps + 1 /\ next = deps
        BY <1>2, <3>1, <3>4
      <4>. QED BY <1>2, <1>5, <2>1, <2>2, <3>2, <4>1
    <3>. QED BY <3>3, <3>4
  <2>3. CASE Fails(QuickAttempts) /\ UNCHANGED next
    <3>1. repo'.merged \subseteq 1..next /\ 1..(next - 1) \subseteq repo'.merged
      BY <1>2, <2>1
    <3>2. (pc' = "merge" /\ outcome' = "running") \/ (pc' = "settle" /\ outcome' = "failed")
      BY <1>2, <2>3, FailsMeans
    <3>. QED BY <1>2, <1>5, <2>1, <2>3, <3>1, <3>2
  <2>. QED BY <1>5, <2>2, <2>3
<1>6. ASSUME repo' = [repo EXCEPT !.tree = @ \cup {"conflict"}, !.merging = TRUE], UNCHANGED next,
             (pc' = "resolve" /\ UNCHANGED outcome) \/ Fails(QuickAttempts)
      PROVE  Good
  <2>1. repo' \in Repositories /\ repo'.merged = repo.merged /\ repo'.merging
    BY <1>3, <1>6 DEF Repositories
  <2>2. CASE pc' = "resolve" /\ UNCHANGED outcome
    BY <1>2, <1>6, <2>1, <2>2
  <2>3. CASE Fails(QuickAttempts)
    BY <1>2, <1>6, <2>1, <2>3, FailsMeans
  <2>. QED BY <1>6, <2>2, <2>3
<1>. HIDE DEF Good
<1>7. Good
  BY <1>4, <1>5, <1>6 DEF MergeDependency
<1>. USE DEF Good
<1>8. Types'
  <2>1. repo' \in Repositories /\ next' \in Nat /\ pc' \in Places
        /\ outcome' \in {"running", "failed", "blocked", "succeeded"}
    BY <1>7
  <2>. HIDE DEF Good, Places
  <2>. QED BY <1>1, <2>1 DEF DInv, Types
<1>9. Path'
  BY <1>1, <1>2, <1>7 DEF DInv, Path
<1>10. Seeds'
  BY <1>1, <1>2, <1>7 DEF DInv, Seeds, BlockedMeansClean, Path
<1>11. Notices' /\ InPlace'
  BY <1>1, <1>2, <1>7 DEF DInv, Notices, AwaitsReview, TellsFailureOnce, KnownPRRecorded, InPlace, Path
<1>. QED BY <1>8, <1>9, <1>10, <1>11 DEF DInv

\* The branch exists, was adopted, or the attempt failed: in the checkout the
\* first one that is created is the only one.
LEMMA CreateBranchKeeps == ASSUME DInv, CreateBranch PROVE DInv'
<1>. USE DEF inputVars, tailVars
<1>1. /\ UNCHANGED <<named, worktree, tail, deps, next, verdict, pr, row, quiet, told>>
      /\ pc = "branch" /\ outcome = "running"
  BY DEF CreateBranch, DInv, Path, Working, Places, Seeding
<1>2. PICK name \in Candidates :
        \/ AdoptBranch(name)
        \/ AddBranch(name)
        \/ /\ Fails(BranchAttempts) /\ (KeepsAlias(name) \/ UNCHANGED saved)
           /\ UNCHANGED <<refs, home, trees, created, branch, repo>>
  BY DEF CreateBranch
<1>3. name \in Names /\ name # NoName
  <2>1. saved \in Aliases \cup {NoName}
    BY DEF DInv, Types
  <2>. QED BY <2>1, NamesAreNamed DEF Candidates
\* What the attempt did, whichever it was.
<1>4. \/ Enters(name)
      \/ UNCHANGED branch /\ pc' = "branch" /\ outcome' = "running"
      \/ UNCHANGED branch /\ pc' = "settle" /\ outcome' = "failed"
  BY <1>1, <1>2, FailsMeans, RefusesMeans DEF AdoptBranch, AddBranch
<1>5. repo' = repo \/ repo' = [repo EXCEPT !.tree = {}]
  BY <1>2 DEF AdoptBranch, AddBranch
<1>6. /\ created' = created \/ created' = created \cup {name}
      /\ saved' \in Aliases \cup {NoName}
  <2>1. saved \in Aliases \cup {NoName} /\ (~named => name \in Aliases)
    BY DEF DInv, Types, Candidates
  <2>2. created' = created \/ created' = created \cup {name}
    BY <1>2 DEF AdoptBranch, AddBranch
  <2>3. KeepsAlias(name) \/ ReplacesAlias \/ UNCHANGED saved
    BY <1>2 DEF AdoptBranch, AddBranch
  <2>. QED BY <2>1, <2>2, <2>3 DEF KeepsAlias, ReplacesAlias
<1>7. /\ UNCHANGED branch \/ branch' = name
      /\ \/ pc' = "branch" /\ outcome' = "running" /\ UNCHANGED branch
         \/ pc' = "settle" /\ outcome' = "failed"
         \/ pc' = (IF deps > 0 THEN "merge" ELSE "develop") /\ outcome' = "running" /\ branch' = name
  BY <1>1, <1>4 DEF Enters
<1>8. repo' \in Repositories /\ UNCHANGED <<repo.merging, repo.merged>>
      /\ ("conflict" \in repo'.tree => "conflict" \in repo.tree)
  <2>1. repo \in Repositories
    BY DEF DInv, Types
  <2>. QED BY <1>5, <2>1 DEF Repositories
<1>9. Types'
  <2>1. pc' \in Places /\ outcome' \in {"running", "failed", "blocked", "succeeded"}
    BY <1>7 DEF Places, Seeding, Developing
  <2>. QED BY <1>1, <1>3, <1>6, <1>7, <1>8, <2>1 DEF DInv, Types
<1>10. Path'
  BY <1>1, <1>7 DEF DInv, Path, Working, Places, Seeding, Developing, Tailing
<1>11. Seeds'
  <2>1. branch = NoName /\ next = 1 /\ repo.merged = {} /\ ~repo.merging
        /\ ("conflict" \in repo.tree => repo.merging) /\ deps \in Nat
    BY <1>1, NamesAreNamed DEF DInv, Seeds, Types
  <2>2. CASE pc' \in {"branch", "settle"}
    BY <1>1, <1>7, <1>8, <2>1, <2>2 DEF Seeds, Merging, Developing, Tailing, BlockedMeansClean
  <2>3. CASE pc' = "merge"
    <3>1. deps > 0 /\ branch' = name
      BY <1>7, <2>3
    <3>2. 1 \in 1..deps /\ 1..(1 - 1) = {}
      BY <2>1, <3>1
    <3>. QED BY <1>1, <1>3, <1>7, <1>8, <2>1, <2>3, <3>1, <3>2
           DEF Seeds, Merging, Developing, Tailing, BlockedMeansClean
  <2>4. CASE pc' = "develop"
    <3>1. deps = 0 /\ branch' = name /\ 1..deps = {} /\ deps + 1 = 1
      BY <1>7, <2>1, <2>4
    <3>. QED BY <1>1, <1>3, <1>7, <1>8, <2>1, <2>4, <3>1
           DEF Seeds, Merging, Developing, Tailing, BlockedMeansClean
  <2>. QED BY <1>7, <2>2, <2>3, <2>4
<1>12. Notices'
  BY <1>1, <1>7 DEF DInv, Notices, Path, AwaitsReview, TellsFailureOnce, KnownPRRecorded, Working,
                    Places, Seeding, Developing, Tailing
<1>13. InPlace'
  <2>1. pc' # "start"
    BY <1>7
  <2>2. SUFFICES ASSUME ~worktree
        PROVE  \/ created' = {}
               \/ \E x \in Names : created' = {x} /\ (pc' = "branch" => home' = x /\ LooksFor(x)')
    BY <1>1, <2>1 DEF InPlace
  <2>3. CASE created = {}
    <3>1. CASE created' = created
      BY <2>3, <3>1
    <3>2. CASE created' # created
      <4>1. created' = {name} /\ home' = name /\ KeepsAlias(name)
        BY <1>2, <2>2, <2>3, <3>2 DEF AdoptBranch, AddBranch
      <4>2. LooksFor(name)'
        BY <1>1, <4>1 DEF Candidates, KeepsAlias, LooksFor
      <4>. QED BY <1>3, <4>1, <4>2
    <3>. QED BY <3>1, <3>2
  <2>4. ASSUME NEW x \in Names, created = {x}, home = x, LooksFor(x)
        PROVE  created' = {x} /\ home' = x /\ LooksFor(x)'
    <3>1. named \/ saved # NoName
      BY <2>4, NamesAreNamed DEF LooksFor
    <3>2. name = x /\ Present(name)
      BY <2>2, <2>4, <3>1 DEF Present, Candidates, LooksFor
    <3>3. ~AddBranch(name)
      BY <2>2, <3>2 DEF AddBranch
    <3>4. UNCHANGED <<home, created>> /\ (KeepsAlias(name) \/ UNCHANGED saved)
      BY <1>2, <3>1, <3>3 DEF AdoptBranch
    <3>5. LooksFor(x)'
      BY <1>1, <2>4, <3>2, <3>4 DEF KeepsAlias, LooksFor
    <3>. QED BY <2>4, <3>4, <3>5
  <2>5. created = {} \/ \E x \in Names : created = {x} /\ home = x /\ LooksFor(x)
    BY <1>1, <2>2 DEF DInv, InPlace
  <2>6. CASE \E x \in Names : created = {x} /\ home = x /\ LooksFor(x)
    BY <2>4, <2>6
  <2>. QED BY <2>3, <2>5, <2>6
<1>. QED BY <1>9, <1>10, <1>11, <1>12, <1>13 DEF DInv

-----------------------------------------------------------------------------
(* The steps that touch neither the branch nor the caller's choices.       *)

Settled == pc' = "settle" /\ outcome' \in {"failed", "blocked", "succeeded"}
GoesOn  == outcome' = "running" /\ pc' \in Working

\* It is enough that the repository, the seed and the notices are right.
LEMMA StepKeeps ==
  ASSUME DInv, pc \in Working \ {"start", "branch"},
         UNCHANGED <<inputVars, branchVars, row>>,
         Settled \/ (GoesOn /\ pc' \notin {"start", "branch"}),
         repo' \in Repositories, next' \in Nat, pr' \in BOOLEAN, quiet' \in BOOLEAN, told' \in Nat,
         verdict' \in {"none", "asked", "converged", "unconverged"},
         Path', Seeds',
         pc' \in Working => told' = 0 /\ (quiet' <=> pc' \in Tailing /\ tail # "detached"),
         pc' = "settle" =>
           /\ AwaitsReview' => quiet'
           /\ told' = IF outcome' = "succeeded" \/ ~quiet' \/ AwaitsReview' THEN 0 ELSE 1
  PROVE  DInv'
<1>1. pc' \in Places /\ pc' # "ended" /\ outcome' \in {"running", "failed", "blocked", "succeeded"}
  BY DEF Settled, GoesOn, Working, Places
<1>2. Types'
  BY <1>1 DEF DInv, Types, inputVars, branchVars
<1>3. pc # "ended"
  BY DEF Working
<1>4. Notices'
  BY <1>1, <1>3 DEF DInv, Notices, TellsFailureOnce, KnownPRRecorded, inputVars
<1>5. InPlace'
  BY <1>1, <1>3 DEF DInv, InPlace, LooksFor, inputVars, branchVars, Settled, GoesOn
<1>. QED BY <1>2, <1>4, <1>5 DEF DInv

LEMMA ResolveMergeConflictKeeps == ASSUME DInv, ResolveMergeConflict PROVE DInv'
<1>1. /\ UNCHANGED <<inputVars, branchVars, row, pr, quiet, told, verdict, outcome, cancelled>>
      /\ pc = "resolve"
  BY DEF ResolveMergeConflict, tailVars
<1>2. /\ pc \in Working \ {"start", "branch"} /\ pc \in Merging /\ pc \in Seeding
      /\ outcome = "running" /\ verdict = "none" /\ told = 0 /\ ~quiet
      /\ next \in 1..deps /\ next \in Nat /\ deps \in Nat /\ branch # NoName
      /\ 1..(next - 1) \subseteq repo.merged /\ repo.merged \subseteq 1..next
  BY <1>1, NamesAreNamed DEF DInv, Types, Path, Seeds, Notices, Working, Places, Seeding, Developing,
                             Tailing, Merging
<1>3. /\ repo' \in Repositories /\ ("conflict" \in repo'.tree => repo'.merging)
      /\ (repo'.merging => next \notin repo'.merged)
      /\ repo'.merged = repo.merged \/ repo'.merged = repo.merged \cup {next}
      /\ \/ next \in repo'.merged /\ Seeded
         \/ pc' = "resolve" /\ UNCHANGED next
         \/ pc' = "abort" /\ UNCHANGED next
  BY <1>1 DEF ResolveMergeConflict, Resolutions, Resolved, Retries
<1>4. 1..(next - 1) \subseteq repo'.merged /\ repo'.merged \subseteq 1..next
  BY <1>2, <1>3
<1>5. /\ next' \in Nat
      /\ \/ pc' = "develop" /\ next' = deps + 1 /\ repo'.merged = 1..deps /\ ~repo'.merging
         \/ /\ pc' \in Merging /\ next' \in 1..deps
            /\ 1..(next' - 1) \subseteq repo'.merged /\ repo'.merged \subseteq 1..next'
  <2>1. CASE next \in repo'.merged /\ Seeded
    <3>1. next' = next + 1 /\ pc' = (IF next < deps THEN "merge" ELSE "develop")
      BY <2>1 DEF Seeded
    <3>2. 1..next = 1..(next - 1) \cup {next}
      BY <1>2
    <3>3. repo'.merged = 1..next
      BY <1>4, <2>1, <3>2
    <3>4. CASE next < deps
      <4>1. next' \in 1..deps /\ next' - 1 = next /\ 1..next \subseteq 1..next' /\ next' \in Nat
        BY <1>2, <3>1, <3>4
      <4>. QED BY <3>1, <3>3, <3>4, <4>1 DEF Merging
    <3>5. CASE ~(next < deps)
      <4>1. next = deps
        BY <1>2, <3>5
      <4>. QED BY <1>2, <1>3, <2>1, <3>1, <3>3, <3>5, <4>1
    <3>. QED BY <3>4, <3>5
  <2>2. CASE pc' \in {"resolve", "abort"} /\ UNCHANGED next
    BY <1>2, <1>4, <2>2 DEF Merging
  <2>. QED BY <1>3, <2>1, <2>2
<1>6. GoesOn /\ pc' \in Working \ {"start", "branch"} /\ pc' \in Seeding \cup Developing
      /\ pc' \notin Tailing \cup {"summarize", "settle"}
  BY <1>1, <1>2, <1>5 DEF GoesOn, Working, Places, Seeding, Developing, Tailing, Merging
<1>7. Path'
  BY <1>1, <1>2, <1>6 DEF Path, GoesOn, Tailing
<1>8. Seeds'
  BY <1>1, <1>2, <1>3, <1>5, <1>6
     DEF Seeds, BlockedMeansClean, Merging, Developing, Tailing, inputVars, branchVars
<1>. QED BY <1>1, <1>2, <1>3, <1>5, <1>6, <1>7, <1>8, StepKeeps DEF DInv, Types

LEMMA AbortMergeKeeps == ASSUME DInv, AbortMerge PROVE DInv'
<1>1. UNCHANGED <<inputVars, branchVars, row, pr, verdict, next>> /\ pc = "abort"
  BY DEF AbortMerge
<1>2. /\ pc \in Working \ {"start", "branch"} /\ pc \in Merging /\ pc \in Seeding
      /\ outcome = "running" /\ verdict = "none" /\ told = 0 /\ quiet = FALSE
      /\ next \in 1..deps /\ branch # NoName
      /\ 1..(next - 1) \subseteq repo.merged /\ repo.merged \subseteq 1..next
      /\ ("conflict" \in repo.tree => repo.merging) /\ repo \in Repositories
  BY <1>1 DEF DInv, Types, Path, Seeds, Notices, Working, Places, Seeding, Developing, Tailing, Merging
<1>3. ASSUME NEW r \in Aborted
      PROVE  r \in Repositories /\ r.merged = repo.merged /\ ~r.merging /\ "conflict" \notin r.tree
  <2>1. CASE repo.merging
    <3>1. PICK drop \in {{"conflict"}, {"conflict", "agents"}} :
            r = [repo EXCEPT !.merging = FALSE, !.tree = @ \ drop]
      BY <2>1 DEF Aborted
    <3>. QED BY <1>2, <3>1 DEF Repositories
  <2>2. CASE ~repo.merging
    BY <1>2, <2>2 DEF Aborted
  <2>. QED BY <2>1, <2>2
<1>4. /\ repo' \in Repositories /\ repo'.merged = repo.merged
      /\ ("conflict" \in repo'.tree => repo'.merging)
  BY <1>2, <1>3 DEF AbortMerge
<1>5. \/ /\ pc' = "settle" /\ outcome' = "blocked" /\ quiet' = TRUE /\ told' = told + 1
         /\ ~repo'.merging /\ "conflict" \notin repo'.tree
      \/ /\ UNCHANGED <<quiet, told>>
         /\ ((pc' = pc /\ outcome' = outcome) \/ (pc' = "settle" /\ outcome' = "failed"))
  <2>1. Fails(QuickAttempts) =>
          (pc' = pc /\ outcome' = outcome) \/ (pc' = "settle" /\ outcome' = "failed")
    BY FailsMeans
  <2>. QED BY <1>3, <2>1 DEF AbortMerge, Return
<1>6. Settled \/ (GoesOn /\ pc' = "abort")
  BY <1>1, <1>2, <1>5 DEF Settled, GoesOn
<1>7. Path'
  BY <1>1, <1>2, <1>5, <1>6 DEF Path, GoesOn, Tailing, Working, Places, Seeding, Developing
<1>8. Seeds'
  BY <1>1, <1>2, <1>4, <1>5
     DEF Seeds, BlockedMeansClean, Merging, Developing, Tailing, inputVars, branchVars
<1>9. /\ pc' \in Working => told' = 0 /\ (quiet' <=> pc' \in Tailing /\ tail # "detached")
      /\ pc' = "settle" => /\ AwaitsReview' => quiet'
                           /\ told' = IF outcome' = "succeeded" \/ ~quiet' \/ AwaitsReview' THEN 0 ELSE 1
      /\ told' \in Nat /\ quiet' \in BOOLEAN
  <2>1. ~AwaitsReview'
    BY <1>1, <1>2 DEF AwaitsReview
  <2>2. \/ pc' = "settle" /\ outcome' = "blocked" /\ quiet' = TRUE /\ told' = 1
        \/ quiet' = FALSE /\ told' = 0 /\ pc' \in {"abort", "settle"}
    BY <1>1, <1>2, <1>5
  <2>3. CASE pc' = "settle" /\ outcome' = "blocked" /\ quiet' = TRUE /\ told' = 1
    BY <2>1, <2>3 DEF Working
  <2>4. CASE quiet' = FALSE /\ told' = 0 /\ pc' \in {"abort", "settle"}
    BY <2>1, <2>4 DEF Tailing
  <2>. QED BY <2>2, <2>3, <2>4
<1>. QED BY <1>1, <1>2, <1>4, <1>6, <1>7, <1>8, <1>9, StepKeeps DEF DInv, Types

LEMMA RunDevelopAgentKeeps == ASSUME DInv, RunDevelopAgent PROVE DInv'
<1>1. UNCHANGED <<inputVars, branchVars, row, pr, verdict, next, quiet, told>> /\ pc = "develop"
  BY DEF RunDevelopAgent, tailVars
<1>2. /\ pc \in Working \ {"start", "branch"}
      /\ outcome = "running" /\ verdict = "none" /\ told = 0 /\ quiet = FALSE
      /\ branch # NoName /\ next = deps + 1 /\ repo.merged = 1..deps /\ ~repo.merging
      /\ "conflict" \notin repo.tree /\ repo \in Repositories
  BY <1>1 DEF DInv, Types, Path, Seeds, Notices, Working, Places, Seeding, Developing, Tailing, Merging
<1>3. PICK tree \in SUBSET (repo.tree \cup {"agents"}), ahead \in {repo.ahead, TRUE} :
        repo' = [repo EXCEPT !.tree = tree, !.ahead = ahead]
  BY DEF RunDevelopAgent
<1>4. repo' \in Repositories /\ repo'.merged = repo.merged /\ ~repo'.merging
      /\ "conflict" \notin repo'.tree
  BY <1>2, <1>3 DEF Repositories
<1>5. \/ pc' \in {"develop", "ensure"} /\ outcome' = "running"
      \/ pc' = "settle" /\ outcome' = "failed"
  <2>1. Fails(AgentAttempts) =>
          (pc' = pc /\ outcome' = outcome) \/ (pc' = "settle" /\ outcome' = "failed")
    BY FailsMeans
  <2>. QED BY <1>1, <1>2, <2>1 DEF RunDevelopAgent
<1>6. Settled \/ (GoesOn /\ pc' \in {"develop", "ensure"})
  BY <1>5 DEF Settled, GoesOn, Working, Places, Developing
<1>7. Path'
  BY <1>1, <1>2, <1>5 DEF Path, Tailing, Working, Places, Seeding, Developing
<1>8. Seeds'
  BY <1>1, <1>2, <1>4, <1>5
     DEF Seeds, BlockedMeansClean, Merging, Developing, Tailing, inputVars, branchVars
<1>9. /\ pc' \in Working => told' = 0 /\ (quiet' <=> pc' \in Tailing /\ tail # "detached")
      /\ pc' = "settle" => /\ AwaitsReview' => quiet'
                           /\ told' = IF outcome' = "succeeded" \/ ~quiet' \/ AwaitsReview' THEN 0 ELSE 1
  BY <1>1, <1>2, <1>5 DEF Working, Tailing, AwaitsReview
<1>. QED BY <1>1, <1>2, <1>4, <1>6, <1>7, <1>8, <1>9, StepKeeps DEF DInv, Types

LEMMA EnsureDevelopedKeeps == ASSUME DInv, EnsureDeveloped PROVE DInv'
<1>1. UNCHANGED <<inputVars, branchVars, row, pr, verdict, next, quiet, told, repo>> /\ pc = "ensure"
  BY DEF EnsureDeveloped, tailVars
<1>2. /\ pc \in Working \ {"start", "branch"}
      /\ outcome = "running" /\ verdict = "none" /\ told = 0 /\ quiet = FALSE
      /\ branch # NoName /\ next = deps + 1 /\ repo.merged = 1..deps /\ ~repo.merging
      /\ "conflict" \notin repo.tree /\ repo \in Repositories
  BY <1>1 DEF DInv, Types, Path, Seeds, Notices, Working, Places, Seeding, Developing, Tailing, Merging
<1>3. \/ pc' = "ensure" /\ outcome' = "running"
      \/ pc' = "summarize" /\ outcome' = "running" /\ repo.ahead /\ repo.tree = {}
      \/ pc' = "settle" /\ outcome' = "failed"
  <2>1. Fails(QuickAttempts) =>
          (pc' = pc /\ outcome' = outcome) \/ (pc' = "settle" /\ outcome' = "failed")
    BY FailsMeans
  <2>. QED BY <1>1, <1>2, <2>1, RefusesMeans DEF EnsureDeveloped
<1>4. Settled \/ (GoesOn /\ pc' \in {"ensure", "summarize"})
  BY <1>3 DEF Settled, GoesOn, Working, Places, Developing
<1>5. Path'
  BY <1>1, <1>2, <1>3 DEF Path, Tailing, Working, Places, Seeding, Developing
<1>6. Seeds'
  BY <1>1, <1>2, <1>3
     DEF Seeds, BlockedMeansClean, Merging, Developing, Tailing, inputVars, branchVars
<1>7. /\ pc' \in Working => told' = 0 /\ (quiet' <=> pc' \in Tailing /\ tail # "detached")
      /\ pc' = "settle" => /\ AwaitsReview' => quiet'
                           /\ told' = IF outcome' = "succeeded" \/ ~quiet' \/ AwaitsReview' THEN 0 ELSE 1
  BY <1>1, <1>2, <1>3 DEF Working, Tailing, AwaitsReview
<1>. QED BY <1>1, <1>2, <1>4, <1>5, <1>6, <1>7, StepKeeps DEF DInv, Types

LEMMA SummarizeKeeps == ASSUME DInv, Summarize PROVE DInv'
<1>1. UNCHANGED <<inputVars, branchVars, row, pr, next, told, repo>> /\ pc = "summarize"
  BY DEF Summarize
<1>2. /\ pc \in Working \ {"start", "branch"} /\ tail \in Tails
      /\ outcome = "running" /\ verdict = "none" /\ told = 0 /\ quiet = FALSE
      /\ branch # NoName /\ next = deps + 1 /\ repo.merged = 1..deps /\ ~repo.merging
      /\ repo.ahead /\ repo.tree = {} /\ repo \in Repositories
  BY <1>1 DEF DInv, Types, Path, Seeds, Notices, Working, Places, Seeding, Developing, Tailing, Merging
<1>3. \/ /\ pc' = tail /\ verdict' = "asked" /\ quiet' = (tail # "detached") /\ outcome' = "running"
      \/ pc' = "settle" /\ outcome' = "failed" /\ UNCHANGED <<verdict, quiet>>
  BY <1>2 DEF Summarize, Return
<1>4. Settled \/ (GoesOn /\ pc' \in Tails)
  BY <1>2, <1>3 DEF Settled, GoesOn, Working, Places, Tailing, Tails
<1>5. Path'
  BY <1>1, <1>2, <1>3 DEF Path, Tailing, Tails, Working, Places, Seeding, Developing, inputVars
<1>6. Seeds'
  BY <1>1, <1>2, <1>3
     DEF Seeds, BlockedMeansClean, Merging, Developing, Tailing, Tails, inputVars, branchVars
<1>7. /\ pc' \in Working => told' = 0 /\ (quiet' <=> pc' \in Tailing /\ tail # "detached")
      /\ pc' = "settle" => /\ AwaitsReview' => quiet'
                           /\ told' = IF outcome' = "succeeded" \/ ~quiet' \/ AwaitsReview' THEN 0 ELSE 1
      /\ quiet' \in BOOLEAN /\ verdict' \in {"none", "asked", "converged", "unconverged"}
  BY <1>1, <1>2, <1>3 DEF Working, Tailing, Tails, AwaitsReview, inputVars
<1>8. Tails \cap {"start", "branch"} = {}
  BY DEF Tails
<1>. QED BY <1>1, <1>2, <1>4, <1>5, <1>6, <1>7, <1>8, StepKeeps DEF DInv, Types

\* In the tail the seed stays what it was; only the review's verdict and the
\* notices move.
LEMMA TailKeeps == ASSUME DInv, TailStep PROVE DInv'
<1>1. UNCHANGED <<inputVars, branchVars, row, next, repo, quiet>> /\ pc \in Tailing
  BY DEF TailStep, StartReview, AwaitReview, RemoteReview, RemoteOpenPR, RemotePilot, tailVars, Tailing
<1>2. /\ pc \in Working \ {"start", "branch"} /\ tail \in Tails
      /\ outcome = "running" /\ verdict \in {"asked", "converged", "unconverged"} /\ told = 0
      /\ quiet \in BOOLEAN /\ (quiet <=> tail # "detached") /\ pr \in BOOLEAN
      /\ (pc = "detached" <=> tail = "detached") /\ (pc = "await" <=> tail = "await")
      /\ branch # NoName /\ next = deps + 1 /\ repo.merged = 1..deps /\ ~repo.merging
      /\ repo.ahead /\ repo.tree = {} /\ repo \in Repositories
  BY <1>1 DEF DInv, Types, Path, Seeds, Notices, Working, Places, Seeding, Developing, Tailing, Merging
<1>3. /\ pr' \in BOOLEAN /\ verdict' \in {"asked", "converged", "unconverged"}
      /\ \/ /\ outcome' = "running" /\ told' = 0 /\ pc' \in {"openpr", "pilot"} /\ tail = "remote"
         \/ pc' = "settle" /\ outcome' \in {"failed", "blocked", "succeeded"} /\ tail # "remote" /\ told' = 0
            /\ (tail = "detached" => outcome' # "blocked")
         \/ pc' = "settle" /\ tail = "remote" /\ outcome' = "succeeded" /\ told' = 0
         \/ pc' = "settle" /\ tail = "remote" /\ outcome' = "failed" /\ told' = 1
  <2>1. CASE StartReview
    BY <1>2, <2>1 DEF StartReview, Return, tailVars
  <2>2. CASE AwaitReview
    BY <1>2, <2>2 DEF AwaitReview, Return
  <2>3. CASE RemoteReview \/ RemoteOpenPR \/ RemotePilot
    <3>1. tail = "remote" /\ tail # "detached"
      BY <1>2, <2>3 DEF RemoteReview, RemoteOpenPR, RemotePilot, Tails
    <3>2. told + 1 = 1
      BY <1>2
    <3>3. CASE RemoteReview
      BY <1>2, <3>1, <3>2, <3>3 DEF RemoteReview, RemoteFails, Return
    <3>4. CASE RemoteOpenPR
      BY <1>2, <3>1, <3>2, <3>4 DEF RemoteOpenPR, RemoteFails, Return
    <3>5. CASE RemotePilot
      BY <1>2, <3>1, <3>2, <3>5 DEF RemotePilot, RemoteFails, Return
    <3>. QED BY <2>3, <3>3, <3>4, <3>5
  <2>. QED BY <2>1, <2>2, <2>3 DEF TailStep
<1>4. Settled \/ (GoesOn /\ pc' \in {"openpr", "pilot"})
  BY <1>3 DEF Settled, GoesOn, Working, Places, Tailing
<1>5. Path'
  BY <1>1, <1>3 DEF Path, Tailing, Working, Places, Seeding, Developing, inputVars
<1>6. Seeds'
  BY <1>1, <1>2, <1>3
     DEF Seeds, BlockedMeansClean, Merging, Developing, Tailing, inputVars, branchVars
<1>7. /\ pc' \in Working => told' = 0 /\ (quiet' <=> pc' \in Tailing /\ tail # "detached")
      /\ pc' = "settle" => /\ AwaitsReview' => quiet'
                           /\ told' = IF outcome' = "succeeded" \/ ~quiet' \/ AwaitsReview' THEN 0 ELSE 1
      /\ told' \in Nat
  <2>1. AwaitsReview' <=> tail = "await"
    BY <1>1, <1>3 DEF AwaitsReview, inputVars
  <2>2. (quiet' <=> tail # "detached") /\ quiet' \in BOOLEAN
    BY <1>1, <1>2
  <2>3. CASE pc' \in {"openpr", "pilot"}
    BY <1>3, <2>2, <2>3 DEF Tailing
  <2>4. CASE pc' = "settle"
    BY <1>2, <1>3, <2>1, <2>2, <2>4 DEF Working, Tails
  <2>. QED BY <1>3, <2>3, <2>4
<1>. QED BY <1>1, <1>2, <1>3, <1>4, <1>5, <1>6, <1>7, StepKeeps DEF DInv, Types

LEMMA SettleKeeps == ASSUME DInv, Settle PROVE DInv'
<1>1. /\ UNCHANGED <<inputVars, branchVars, repo, next, outcome, verdict, pr, quiet>>
      /\ pc = "settle" /\ pc' = "ended"
      /\ row' \in {row, Settlement}
      /\ told' = IF outcome # "succeeded" /\ ~quiet THEN told + 1 ELSE told
  BY DEF Settle
<1>2. /\ outcome \in {"failed", "blocked", "succeeded"} /\ quiet \in BOOLEAN /\ pr \in BOOLEAN
      /\ (AwaitsReview => quiet) /\ row.status \in {"none", "running"}
      /\ told = IF outcome = "succeeded" \/ ~quiet \/ AwaitsReview THEN 0 ELSE 1
      /\ row \in [status : {"none", "running", "failed", "succeeded"}, pr : BOOLEAN]
  BY <1>1 DEF DInv, Types, Path, Notices, Working, Places, Seeding, Developing, Tailing
<1>3. Settlement \in [status : {"none", "running", "failed", "succeeded"}, pr : BOOLEAN]
      /\ Settlement.pr = pr
  BY <1>2 DEF Settlement
<1>4. told' = IF outcome = "succeeded" \/ AwaitsReview THEN 0 ELSE 1
  BY <1>1, <1>2
<1>5. Types'
  BY <1>1, <1>2, <1>3, <1>4 DEF DInv, Types, Places, inputVars, branchVars
<1>6. Path' /\ Seeds'
  BY <1>1, <1>2 DEF DInv, Path, Seeds, BlockedMeansClean, Merging, Developing, Tailing, Working, Places,
                    Seeding, inputVars, branchVars
<1>7. TellsFailureOnce'
  BY <1>1, <1>4 DEF TellsFailureOnce, AwaitsReview, inputVars
<1>8. KnownPRRecorded'
  BY <1>1, <1>2, <1>3 DEF KnownPRRecorded
<1>9. Notices'
  BY <1>1, <1>7, <1>8 DEF Notices, Working
<1>10. InPlace'
  BY <1>1 DEF DInv, InPlace, inputVars, branchVars
<1>. QED BY <1>5, <1>6, <1>9, <1>10 DEF DInv

LEMMA RestKeeps == ASSUME DInv, Cancel \/ UNCHANGED vars PROVE DInv'
<1>1. UNCHANGED <<inputVars, branchVars, tailVars, repo, next, pc, outcome>>
  BY DEF Cancel, vars
<1>2. Types' /\ Path' /\ Seeds'
  BY <1>1 DEF DInv, Types, Path, Seeds, BlockedMeansClean, inputVars, branchVars, tailVars
<1>3. Notices' /\ InPlace'
  BY <1>1 DEF DInv, Notices, InPlace, LooksFor, AwaitsReview, TellsFailureOnce, KnownPRRecorded, inputVars,
              branchVars, tailVars
<1>. QED BY <1>2, <1>3 DEF DInv

LEMMA NextKeeps == ASSUME DInv, [Next]_vars PROVE DInv'
<1>1. ASSUME Step PROVE DInv'
  BY <1>1, RecordStartKeeps, CreateBranchKeeps, MergeDependencyKeeps, ResolveMergeConflictKeeps,
     AbortMergeKeeps, RunDevelopAgentKeeps, EnsureDevelopedKeeps, SummarizeKeeps, SettleKeeps DEF Step
<1>. QED BY <1>1, TailKeeps, RestKeeps DEF Next, Ended

\* Every reachable state of a develop run is accounted for: what its seed
\* holds, where its branch is, and what was announced.
THEOREM DevelopInvariant == Spec => []DInv
<1>. QED BY InitIsGood, NextKeeps, PTL DEF Spec

\* generatedAlias and replaceGeneratedAlias: in the checkout no sequence of
\* failed attempts leaves a second branch behind.
THEOREM NoOrphan == Spec => []NoOrphanInPlace
<1>1. ASSUME DInv PROVE NoOrphanInPlace
  <2>1. ~worktree => created = {} \/ \E x \in Names : created = {x}
    BY <1>1 DEF DInv, InPlace
  <2>2. Cardinality({}) = 0 /\ \A x : Cardinality({x}) = 1
    BY FS_EmptySet, FS_Singleton
  <2>. QED BY <2>1, <2>2 DEF NoOrphanInPlace
<1>. QED BY <1>1, DevelopInvariant, PTL

\* AbortMerge, failureNotified and finishDevelopState: a blocked node is clean,
\* a failure is announced once, and a known pull request reaches the row.
THEOREM TellsTruth == Spec => []SettlesTruthfully
<1>1. DInv => SettlesTruthfully
  BY DEF DInv, Seeds, Notices, SettlesTruthfully
<1>. QED BY <1>1, DevelopInvariant, PTL

-----------------------------------------------------------------------------
(* A develop run implements the lifecycle a fleet counts on.               *)

VerdictNow == IF tail = "await" /\ verdict # "asked" THEN verdict ELSE "none"

\* The run's phases are the stages of the lifecycle.
Phases ==
  /\ pc \in Seeding => StageNow = "seeding" /\ WorkNow = {} /\ VerdictNow = "none"
  /\ pc \in Developing => StageNow = "developing" /\ WorkNow = 1..deps /\ VerdictNow = "none"
  /\ pc \in Tailing => StageNow = "reviewing" /\ WorkNow = 1..deps \cup {0} /\ VerdictNow = "none"
  /\ pc \notin Working =>
       StageNow = IF outcome = "succeeded" /\ tail # "await" THEN "reviewing" ELSE outcome

LEMMA PhasesAreStages == DInv => Phases
<1>. SUFFICES ASSUME DInv PROVE Phases
  OBVIOUS
<1>1. tail \in Tails /\ deps \in Nat /\ pc \in Places
  BY NamesAreNamed DEF DInv, Types
<1>2. CASE pc \in Seeding
  <2>1. branch = NoName \/ next \in 1..deps
    BY <1>2 DEF DInv, Seeds, Seeding, Merging
  <2>2. VerdictNow = "none"
    BY <1>2 DEF DInv, Path, VerdictNow
  <2>3. WorkNow = {}
    BY <1>1, <2>1 DEF WorkNow
  <2>4. StageNow = "seeding"
    BY <1>2 DEF StageNow, Seeding, Developing, Tailing
  <2>. QED BY <1>2, <2>2, <2>3, <2>4 DEF Phases, Seeding, Developing, Tailing, Working, Places
<1>3. CASE pc \in Developing
  <2>1. branch # NoName /\ next > deps /\ repo.merged = 1..deps /\ verdict = "none"
    BY <1>1, <1>3 DEF DInv, Seeds, Path
  <2>2. WorkNow = 1..deps /\ VerdictNow = "none"
    BY <2>1 DEF WorkNow, VerdictNow
  <2>4. StageNow = "developing"
    BY <1>3 DEF StageNow, Seeding, Developing, Tailing
  <2>. QED BY <1>3, <2>2, <2>4 DEF Phases, Seeding, Developing, Tailing, Working, Places
<1>4. CASE pc \in Tailing
  <2>1. branch # NoName /\ next > deps /\ repo.merged = 1..deps /\ verdict # "none"
        /\ repo.ahead /\ repo.tree = {}
    BY <1>1, <1>4 DEF DInv, Seeds, Path
  <2>2. WorkNow = 1..deps \cup {0}
    BY <2>1 DEF WorkNow
  <2>3. VerdictNow = "none"
    BY <1>4 DEF DInv, Path, VerdictNow
  <2>4. StageNow = "reviewing"
    BY <1>4 DEF StageNow, Seeding, Developing, Tailing
  <2>. QED BY <1>4, <2>2, <2>3, <2>4 DEF Phases, Seeding, Developing, Tailing, Working, Places
<1>5. CASE pc \in {"settle", "ended"}
  BY <1>5 DEF Phases, StageNow, Seeding, Developing, Tailing, Working
<1>. QED BY <1>1, <1>2, <1>3, <1>4, <1>5 DEF Places

LEMMA PhasesAreStagesNext == DInv' => Phases'
BY PhasesAreStages, PTL

Stutters == UNCHANGED <<1..deps, StageNow, WorkNow, VerdictNow>>

\* Within a phase nothing moves; from one to the next the node does.
LEMMA PhaseMeans ==
  ASSUME Phases, Phases', UNCHANGED inputVars
  PROVE  /\ pc \in Seeding /\ pc' \in Seeding => Stutters
         /\ pc \in Developing /\ pc' \in Developing => Stutters
         /\ pc \in Tailing /\ pc' \in Tailing => Stutters
         /\ pc \in Seeding /\ pc' \in Developing => Lifecycle!Seed
         /\ pc \in Developing /\ pc' \in Tailing => Lifecycle!Develop
BY DEF Phases, Stutters, inputVars, Lifecycle!Seed, Lifecycle!Develop, VerdictNow

\* A run that fails keeps the work its branch holds.
LEMMA FailureMeans ==
  ASSUME Phases, Phases', UNCHANGED inputVars, pc \in Working, pc' \notin Working,
         outcome' = "failed", UNCHANGED <<WorkNow, VerdictNow>>
  PROVE  Lifecycle!Fail
BY DEF Phases, Working, Places, inputVars, Lifecycle!Fail, VerdictNow

\* While it is seeded a run that ends holds nothing it accepted.
LEMMA SeedingHoldsNothing ==
  ASSUME DInv, Phases, UNCHANGED <<inputVars, branch, next, verdict>>, pc \in Seeding
  PROVE  UNCHANGED <<WorkNow, VerdictNow>>
<1>1. branch = NoName \/ next \in 1..deps
  BY DEF DInv, Seeds, Seeding, Merging
<1>2. WorkNow = {} /\ deps \in Nat
  BY NamesAreNamed DEF Phases, DInv, Types
<1>3. WorkNow' = {}
  BY <1>1, <1>2 DEF WorkNow, inputVars
<1>. QED BY <1>2, <1>3 DEF VerdictNow, inputVars

\* The steps that seed the branch.
LEMMA SeedingImplements ==
  ASSUME DInv, DInv', Phases, Phases',
         RecordStart \/ CreateBranch \/ MergeDependency \/ ResolveMergeConflict \/ AbortMerge
  PROVE  Lifecycle!Next \/ Stutters
<1>1. pc \in Seeding /\ UNCHANGED <<inputVars, verdict>> /\ pc \in Working /\ outcome = "running"
  BY DEF RecordStart, CreateBranch, MergeDependency, ResolveMergeConflict, AbortMerge, tailVars,
         Seeding, Working, Places, DInv, Path
<1>2. CASE pc' \in Seeding \cup Developing
  BY <1>1, <1>2, PhaseMeans DEF Lifecycle!Next
<1>3. CASE pc' \notin Seeding \cup Developing
  <2>1. /\ pc' \in {"settle", "ended"} /\ UNCHANGED <<branch, next>>
        /\ (outcome' = "failed" \/ (pc = "abort" /\ outcome' = "blocked"))
    <3>1. CASE RecordStart
      BY <1>3, <3>1 DEF RecordStart, branchVars, Seeding
    <3>2. CASE CreateBranch
      <4>1. PICK name \in Candidates :
              \/ AdoptBranch(name)
              \/ AddBranch(name)
              \/ /\ Fails(BranchAttempts) /\ (KeepsAlias(name) \/ UNCHANGED saved)
                 /\ UNCHANGED <<refs, home, trees, created, branch, repo>>
        BY <3>2 DEF CreateBranch
      <4>2. ~Enters(name)
        BY <1>3 DEF Enters, Seeding, Developing
      <4>3. pc = "branch" /\ UNCHANGED next
        BY <3>2 DEF CreateBranch
      <4>4. UNCHANGED branch /\ (Fails(BranchAttempts) \/ Refuses)
        BY <4>1, <4>2 DEF AdoptBranch, AddBranch
      <4>5. pc' = "settle" /\ outcome' = "failed"
        BY <1>1, <1>3, <4>3, <4>4, FailsMeans, RefusesMeans DEF Seeding
      <4>. QED BY <4>3, <4>4, <4>5
    <3>3. CASE MergeDependency
      <4>1. pc = "merge" /\ UNCHANGED branch
        BY <3>3 DEF MergeDependency, branchVars
      <4>2. ~Seeded /\ pc' # "resolve"
        BY <1>3 DEF Seeded, Seeding, Developing
      <4>3. Fails(QuickAttempts) /\ UNCHANGED next
        BY <3>3, <4>2 DEF MergeDependency
      <4>4. pc' = "settle" /\ outcome' = "failed"
        BY <1>1, <1>3, <4>1, <4>3, FailsMeans DEF Seeding
      <4>. QED BY <4>1, <4>3, <4>4
    <3>4. CASE ResolveMergeConflict
      BY <1>1, <1>3, <3>4 DEF ResolveMergeConflict, Seeded, Retries, Seeding, Developing
    <3>5. CASE AbortMerge
      <4>1. pc = "abort" /\ UNCHANGED <<branch, next>>
        BY <3>5 DEF AbortMerge, branchVars
      <4>2. Return("blocked") \/ Fails(QuickAttempts)
        BY <3>5 DEF AbortMerge
      <4>3. pc' = "settle" /\ outcome' \in {"failed", "blocked"}
        BY <1>1, <1>3, <4>2, FailsMeans DEF Return
      <4>. QED BY <4>1, <4>3
    <3>. QED BY <3>1, <3>2, <3>3, <3>4, <3>5
  <2>2. UNCHANGED <<WorkNow, VerdictNow>> /\ pc' \notin Working
    BY <1>1, <2>1, SeedingHoldsNothing DEF Working
  <2>3. CASE outcome' = "failed"
    BY <1>1, <2>1, <2>2, <2>3, FailureMeans DEF Lifecycle!Next
  <2>4. CASE pc = "abort" /\ outcome' = "blocked"
    <3>1. 1..deps # {}
      BY <2>4 DEF DInv, Seeds, Merging
    <3>2. StageNow = "seeding" /\ StageNow' = "blocked"
      BY <1>1, <2>2, <2>4 DEF Phases
    <3>. QED BY <1>1, <2>2, <3>1, <3>2 DEF Lifecycle!Next, Lifecycle!Block, inputVars, VerdictNow
  <2>. QED BY <2>1, <2>3, <2>4
<1>. QED BY <1>2, <1>3

\* The agent's turn, and what is checked of it.
LEMMA DevelopingImplements ==
  ASSUME DInv, DInv', Phases, Phases', RunDevelopAgent \/ EnsureDeveloped \/ Summarize
  PROVE  Lifecycle!Next \/ Stutters
<1>1. /\ pc \in Developing /\ pc \in Working /\ outcome = "running" /\ tail \in Tails
      /\ UNCHANGED <<inputVars, branchVars, next>> /\ verdict = "none" /\ repo \in Repositories
  BY DEF RunDevelopAgent, EnsureDeveloped, Summarize, tailVars, Developing, Working, Places, DInv, Types, Path
<1>2. repo'.merged = repo.merged
  BY <1>1 DEF RunDevelopAgent, EnsureDeveloped, Summarize, Repositories
<1>3. \/ pc' \in Developing \cup Tailing
      \/ pc' = "settle" /\ outcome' = "failed" /\ UNCHANGED verdict
  <2>1. CASE RunDevelopAgent
    BY <1>1, <2>1, FailsMeans DEF RunDevelopAgent, tailVars, Developing
  <2>2. CASE EnsureDeveloped
    BY <1>1, <2>2, FailsMeans, RefusesMeans DEF EnsureDeveloped, tailVars, Developing
  <2>3. CASE Summarize
    BY <1>1, <2>3 DEF Summarize, Return, Tails, Tailing
  <2>. QED BY <2>1, <2>2, <2>3
<1>4. CASE pc' \in Developing \cup Tailing
  BY <1>1, <1>4, PhaseMeans DEF Lifecycle!Next, inputVars
<1>5. CASE pc' = "settle" /\ outcome' = "failed" /\ UNCHANGED verdict
  <2>1. UNCHANGED <<WorkNow, VerdictNow>>
    BY <1>1, <1>2, <1>5 DEF WorkNow, VerdictNow, inputVars, branchVars
  <2>. QED BY <1>1, <1>5, <2>1, FailureMeans DEF Lifecycle!Next, Working, inputVars
<1>. QED BY <1>3, <1>4, <1>5

\* The tail, and the settlement.
LEMMA TailImplements ==
  ASSUME DInv, DInv', Phases, Phases', TailStep
  PROVE  Lifecycle!Next \/ Stutters
<1>1. /\ pc \in Tailing /\ pc \in Working /\ outcome = "running" /\ verdict # "none"
      /\ UNCHANGED <<inputVars, branchVars, repo, next>>
      /\ (pc = "await" <=> tail = "await") /\ (pc = "await" => verdict = "asked")
  BY DEF TailStep, StartReview, AwaitReview, RemoteReview, RemoteOpenPR, RemotePilot, tailVars, Tailing, Working,
         Places, DInv, Path
<1>2. verdict' # "none"
  BY <1>1 DEF TailStep, StartReview, AwaitReview, RemoteReview, RemoteOpenPR, RemotePilot, tailVars
<1>3. UNCHANGED WorkNow
  BY <1>1, <1>2 DEF WorkNow, inputVars, branchVars
<1>4. CASE AwaitReview
  <2>1. pc = "await" /\ tail = "await" /\ tail' = "await" /\ UNCHANGED <<1..deps, WorkNow>> /\ pc' = "settle"
    BY <1>1, <1>3, <1>4 DEF AwaitReview, Return, inputVars
  <2>2. StageNow = "reviewing" /\ StageNow' = outcome' /\ VerdictNow = "none"
    BY <1>1, <2>1 DEF Phases, Working
  <2>3. CASE outcome' = "failed" /\ UNCHANGED verdict
    BY <1>1, <1>3, <2>1, <2>3, FailureMeans DEF VerdictNow, Lifecycle!Next, Working, inputVars
  <2>4. CASE verdict' = "converged" /\ outcome' = "succeeded"
    BY <2>1, <2>2, <2>4 DEF VerdictNow, Lifecycle!Next, Lifecycle!Review
  <2>5. CASE verdict' = "unconverged" /\ outcome' = "blocked"
    BY <2>1, <2>2, <2>5 DEF VerdictNow, Lifecycle!Next, Lifecycle!Review
  <2>. QED BY <1>4, <2>3, <2>4, <2>5 DEF AwaitReview, Return
<1>5. CASE StartReview \/ RemoteReview \/ RemoteOpenPR \/ RemotePilot
  <2>1. tail # "await" /\ tail' # "await" /\ UNCHANGED VerdictNow
    BY <1>1, <1>5 DEF StartReview, RemoteReview, RemoteOpenPR, RemotePilot, VerdictNow, inputVars
  <2>2. \/ pc' \in Tailing
        \/ pc' = "settle" /\ outcome' \in {"failed", "succeeded"}
    BY <1>5 DEF StartReview, RemoteReview, RemoteOpenPR, RemotePilot, RemoteFails, Return, Tailing
  <2>3. CASE pc' \in Tailing
    BY <1>1, <2>3, PhaseMeans DEF inputVars
  <2>4. CASE pc' = "settle" /\ outcome' = "failed"
    BY <1>1, <1>3, <2>1, <2>4, FailureMeans DEF Lifecycle!Next, Working, inputVars
  <2>5. CASE pc' = "settle" /\ outcome' = "succeeded"
    <3>1. StageNow = "reviewing" /\ StageNow' = "reviewing"
      BY <1>1, <2>1, <2>5 DEF Phases, Working
    <3>. QED BY <1>1, <1>3, <2>1, <3>1 DEF Stutters, inputVars
  <2>. QED BY <2>2, <2>3, <2>4, <2>5
<1>. QED BY <1>4, <1>5 DEF TailStep

\* DevelopWorkflow, whatever the agent does to a merge and whichever attempts
\* are lost: nothing is developed on a seed that misses a dependency, nothing is
\* reviewed without committed work of its own, and an awaited run succeeds only
\* if its review converged.
THEOREM LifecycleIsKept == Spec => KeepsLifecycle
<1>1. ASSUME Init PROVE Lifecycle!Init
  <2>1. pc = "start" /\ deps \in Nat /\ branch = NoName /\ next = 1 /\ verdict = "none" /\ 0 \notin 1..deps
    BY <1>1, NamesAreNamed DEF Init
  <2>. QED BY <2>1 DEF Lifecycle!Init, StageNow, WorkNow, Seeding, Developing, Tailing
<1>2. ASSUME DInv, DInv', [Next]_vars PROVE Lifecycle!Next \/ Stutters
  <2>1. Phases /\ Phases'
    BY <1>2, PhasesAreStages, PhasesAreStagesNext
  <2>2. CASE Settle
    <3>1. pc' \notin Working /\ pc \notin Working
          /\ UNCHANGED <<inputVars, branchVars, repo, next, outcome, verdict>>
      BY <2>2 DEF Settle, Working
    <3>2. UNCHANGED <<StageNow, WorkNow, VerdictNow>>
      BY <2>1, <3>1 DEF Phases, WorkNow, VerdictNow, inputVars, branchVars
    <3>. QED BY <3>1, <3>2 DEF Stutters, inputVars
  <2>3. CASE Cancel \/ UNCHANGED vars
    BY <2>3 DEF Cancel, vars, Stutters, StageNow, WorkNow, VerdictNow, inputVars, branchVars, tailVars
  <2>. QED BY <1>2, <2>1, <2>2, <2>3, SeedingImplements, DevelopingImplements, TailImplements
           DEF Next, Step, Ended
<1>3. Lifecycle!Next \/ Stutters => [Lifecycle!Next]_<<1..deps, StageNow, WorkNow, VerdictNow>>
  BY DEF Stutters
<1>. QED BY <1>1, <1>2, <1>3, DevelopInvariant, PTL DEF Spec, KeepsLifecycle, Lifecycle!Spec, VerdictNow

=============================================================================
