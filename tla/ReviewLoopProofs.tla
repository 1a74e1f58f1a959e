--------------------------- MODULE ReviewLoopProofs ---------------------------
(***************************************************************************)
(* What ReviewLoop guarantees for any cap on passes, any retry policy and  *)
(* any number of budget renewals, in the variables of DevelopAndReview     *)
(* (checkout, at, result: the loop's repo, pc, outcome).                   *)
(***************************************************************************)
EXTENDS DevelopAndReview, SequenceTheorems, TLAPS

-----------------------------------------------------------------------------
(* The inductive invariant.                                                *)

InPass == at \in {"start", "pause", "checkpoint", "implement", "advance", "review", "restore",
                  "next", "limit", "complete"}

\* The types the argument needs.
ReviewTypes ==
  /\ checkout \in Review!Repositories
  /\ InPass \/ at \in {"settle", "ended"}
  /\ total \in Nat /\ spent \in Nat /\ recorded \in Nat /\ touched \in BOOLEAN
  /\ rec \in [tokens : Nat, ending : Review!Endings \cup {"none"}]

\* What the running pass has spent and not yet settled.
Unsettled == IF at = "ended" THEN 0 ELSE rec.tokens

\* Every token an agent reported is in the carried total, and in a settled row
\* or in the running pass's.
Accounted ==
  /\ total = spent
  /\ ~unsettled => recorded + Unsettled = spent
  /\ at = "start" => rec = Review!NoRecord

\* Where the pass has an outcome, and where its record has an ending.
Phased ==
  /\ InPass <=> result = "running"
  /\ result = "converged" => rec.ending = "converged"
  /\ InPass /\ at # "complete" => rec.ending = "none"

\* HEAD has moved past the checkpoint exactly when an agent committed, and a
\* record says converged only where it had not.
Witnessed ==
  /\ at \in {"start", "pause", "checkpoint"} => touched = FALSE
  /\ at \in {"implement", "advance"} => touched = checkout.ahead
  /\ rec.ending = "converged" => touched = FALSE

\* While the agent works, what the developer had uncommitted is stashed.
Shelved == at = "implement" => checkout.tree \subseteq {"agents"}

ReviewInv == ReviewTypes /\ Accounted /\ Phased /\ Witnessed /\ Shelved

-----------------------------------------------------------------------------
(* The working tree.                                                       *)

\* Taking changes off the checkout or putting them back loses none of them.
LEMMA StashKeeps ==
  ASSUME NEW r \in Review!Repositories
  PROVE  /\ Review!Stash(r) \in Review!Repositories
         /\ \A kind : Review!Holds(r, kind) => Review!Holds(Review!Stash(r), kind)
<1>1. r.stash \in Seq(SUBSET Review!Kinds) /\ r.tree \in SUBSET Review!Kinds
  BY DEF Review!Repositories
<1>2. <<r.tree>> \in Seq(SUBSET Review!Kinds) /\ Len(<<r.tree>>) = 1 /\ <<r.tree>>[1] = r.tree
  BY <1>1
<1> DEFINE both == <<r.tree>> \o r.stash
<1>3. /\ both \in Seq(SUBSET Review!Kinds) /\ Len(both) = 1 + Len(r.stash)
      /\ \A i \in 1..Len(both) : both[i] = IF i <= 1 THEN <<r.tree>>[i] ELSE r.stash[i - 1]
  BY <1>1, <1>2, ConcatProperties
<1>4. Len(r.stash) \in Nat /\ DOMAIN r.stash = 1..Len(r.stash) /\ DOMAIN both = 1..Len(both)
  BY <1>1, <1>3, LenProperties
<1>5. Review!Stash(r).stash = both /\ Review!Stash(r).tree = {}
  BY DEF Review!Stash, Review!Repositories
<1>6. Review!Stash(r) \in Review!Repositories
  BY <1>3 DEF Review!Stash, Review!Repositories
<1> HIDE DEF both
<1>7. r.tree \subseteq Review!Stashed(Review!Stash(r))
  <2>1. 1 \in DOMAIN both /\ both[1] = r.tree
    BY <1>2, <1>3, <1>4
  <2> QED BY <1>5, <2>1 DEF Review!Stashed
<1>8. ASSUME NEW i \in DOMAIN r.stash PROVE r.stash[i] \subseteq Review!Stashed(Review!Stash(r))
  <2>1. i + 1 \in DOMAIN both /\ both[i + 1] = r.stash[i]
    BY <1>3, <1>4, <1>8
  <2> QED BY <1>5, <2>1 DEF Review!Stashed
<1>9. Review!Stashed(r) \subseteq Review!Stashed(Review!Stash(r))
  BY <1>8 DEF Review!Stashed
<1> QED BY <1>6, <1>7, <1>9 DEF Review!Holds

\* A pop moves the latest entry into the checkout.
LEMMA PopKeeps ==
  ASSUME NEW r \in Review!Repositories, Review!CanPop(r)
  PROVE  /\ Review!StashPop(r) \in Review!Repositories
         /\ \A kind : Review!Holds(r, kind) => Review!Holds(Review!StashPop(r), kind)
<1>1. r.stash \in Seq(SUBSET Review!Kinds) /\ r.tree \in SUBSET Review!Kinds /\ r.stash # <<>>
  BY DEF Review!Repositories, Review!CanPop
<1> DEFINE rest == Tail(r.stash)
<1>2. /\ rest \in Seq(SUBSET Review!Kinds) /\ Len(rest) = Len(r.stash) - 1
      /\ \A i \in 1..Len(rest) : rest[i] = r.stash[i + 1]
  BY <1>1, HeadTailProperties
<1>3. Len(r.stash) \in Nat /\ DOMAIN r.stash = 1..Len(r.stash) /\ DOMAIN rest = 1..Len(rest)
      /\ Len(r.stash) # 0
  BY <1>1, <1>2, LenProperties, EmptySeq
<1>4. r.stash[1] \in SUBSET Review!Kinds
  BY <1>1, <1>3, ElementOfSeq
<1>5. Review!StashPop(r).stash = rest /\ Review!StashPop(r).tree = r.tree \cup r.stash[1]
  BY DEF Review!StashPop, Review!Repositories
<1>6. Review!StashPop(r) \in Review!Repositories
  BY <1>1, <1>2, <1>4 DEF Review!StashPop, Review!Repositories
<1> HIDE DEF rest
<1>7. ASSUME NEW i \in DOMAIN r.stash
      PROVE  r.stash[i] \subseteq Review!StashPop(r).tree \cup Review!Stashed(Review!StashPop(r))
  <2>1. CASE i = 1
    BY <1>5, <2>1
  <2>2. CASE i # 1
    <3>1. i - 1 \in DOMAIN rest /\ rest[i - 1] = r.stash[i]
      BY <1>2, <1>3, <1>7, <2>2
    <3> QED BY <1>5, <3>1 DEF Review!Stashed
  <2> QED BY <2>1, <2>2
<1>8. Review!Stashed(r) \subseteq Review!StashPop(r).tree \cup Review!Stashed(Review!StashPop(r))
  BY <1>7 DEF Review!Stashed
<1> QED BY <1>5, <1>6, <1>8 DEF Review!Holds

\* A conflicted pop and a marked HEAD add to what is held, if anything.
LEMMA EditsKeep ==
  ASSUME NEW r \in Review!Repositories
  PROVE  /\ Review!PopConflict(r) \in Review!Repositories
         /\ [r EXCEPT !.ahead = FALSE] \in Review!Repositories
         /\ \A kind : Review!Holds(r, kind) => Review!Holds(Review!PopConflict(r), kind)
         /\ \A kind : Review!Holds(r, kind) <=> Review!Holds([r EXCEPT !.ahead = FALSE], kind)
BY DEF Review!PopConflict, Review!Repositories, Review!Kinds, Review!Holds, Review!Stashed

\* An agent's turn touches the stash in no way, and the checkout only by
\* leaving changes of its own or by committing what it finds there.
LEMMA TurnsKeep ==
  ASSUME NEW r \in Review!Repositories, NEW s \in Review!AgentTurns(r)
  PROVE  /\ s \in Review!Repositories /\ s.stash = r.stash
         /\ s.tree \in {r.tree, r.tree \cup {"agents"}, {}}
         /\ s.ahead = r.ahead \/ s.ahead = TRUE
BY DEF Review!AgentTurns, Review!Repositories, Review!Kinds

-----------------------------------------------------------------------------
(* The invariant is inductive.                                             *)

\* The loop starts with nothing spent, recorded or committed.
LEMMA InitReview == Review!Init => ReviewInv
<1> SUFFICES ASSUME Review!Init PROVE ReviewInv
  OBVIOUS
<1>1. checkout \in Review!Repositories
  <2>1. /\ <<>> \in Seq(SUBSET Review!Kinds) /\ <<{"older"}>> \in Seq(SUBSET Review!Kinds)
        /\ {} \in SUBSET Review!Kinds /\ {"mine"} \in SUBSET Review!Kinds
    BY DEF Review!Kinds
  <2>2. PICK t \in {{}, {"mine"}}, s \in {<<>>, <<{"older"}>>} :
             checkout = [tree |-> t, stash |-> s, ahead |-> FALSE]
    BY DEF Review!Init
  <2>3. t \in SUBSET Review!Kinds /\ s \in Seq(SUBSET Review!Kinds)
    BY <2>1
  <2> QED BY <2>2, <2>3 DEF Review!Repositories
<1>2. at = "start" /\ rec = [tokens |-> 0, ending |-> "none"]
  BY DEF Review!Init, Review!NoRecord
<1>3. ReviewTypes
  <2>1. rec \in [tokens : Nat, ending : Review!Endings \cup {"none"}]
    BY <1>2
  <2> QED BY <1>1, <1>2, <2>1 DEF Review!Init, ReviewTypes, InPass
<1>4. Accounted /\ Phased /\ Witnessed /\ Shelved
  BY <1>2 DEF Review!Init, Accounted, Phased, Witnessed, Shelved, InPass, Review!NoRecord, Unsettled
<1> QED BY <1>3, <1>4 DEF ReviewInv

\* A step that is retried in place or fails its pass.
LEMMA FailsEffect ==
  ASSUME NEW limit, Review!Fails(limit)
  PROVE  \/ at' = at /\ result' = result
         \/ at' = "settle" /\ result' = "failed"
BY DEF Review!Fails

\* What the checkout and the stash hold of the developer's is not lost, and the
\* repository keeps its shape, whichever step is taken.
LEMMA NextHolds ==
  ASSUME ReviewInv, [Review!Next]_Review!vars
  PROVE  /\ checkout' \in Review!Repositories
         /\ \A kind \in {"mine", "older"} : Review!Holds(checkout, kind) => Review!Holds(checkout, kind)'
<1>0. checkout \in Review!Repositories
  BY DEF ReviewInv, ReviewTypes
<1>a. ASSUME checkout' = checkout
      PROVE \A kind : Review!Holds(checkout, kind) => Review!Holds(checkout, kind)'
  BY <1>a DEF Review!Holds, Review!Stashed
<1>b. ASSUME NEW r, checkout' = r
      PROVE \A kind : Review!Holds(r, kind) => Review!Holds(checkout, kind)'
  BY <1>b DEF Review!Holds, Review!Stashed
<1>1. CASE Review!MarkHeadAndStash
  <2> DEFINE marked == [checkout EXCEPT !.ahead = FALSE]
  <2>1. /\ marked \in Review!Repositories
        /\ \A kind : Review!Holds(checkout, kind) <=> Review!Holds(marked, kind)
    BY <1>0, EditsKeep
  <2>2. checkout' \in {checkout, marked, Review!Stash(marked)}
    BY <1>1 DEF Review!MarkHeadAndStash
  <2>3. /\ checkout' \in Review!Repositories
        /\ \A kind : Review!Holds(marked, kind) => Review!Holds(Review!Stash(marked), kind)
    BY <1>0, <2>1, <2>2, StashKeeps
  <2> HIDE DEF marked
  <2> QED BY <1>a, <1>b, <2>1, <2>2, <2>3
<1>2. CASE Review!RunImplementAgent
  <2>1. checkout' \in Review!AgentTurns(checkout) /\ checkout.tree \subseteq {"agents"}
    BY <1>2 DEF Review!RunImplementAgent, ReviewInv, Shelved
  <2>2. checkout' \in Review!Repositories /\ checkout'.stash = checkout.stash
    BY <1>0, <2>1, TurnsKeep
  <2>3. Review!Stashed(checkout') = Review!Stashed(checkout)
    BY <2>2 DEF Review!Stashed
  <2>4. \A kind \in {"mine", "older"} : Review!Holds(checkout, kind) => kind \in Review!Stashed(checkout)
    BY <2>1 DEF Review!Holds
  <2>5. Review!Stashed(checkout)' = Review!Stashed(checkout')
    BY DEF Review!Stashed
  <2> QED BY <2>2, <2>3, <2>4, <2>5 DEF Review!Holds
<1>3. CASE Review!EnsureHeadAdvanced \/ Review!RestoreStash
  <2>1. \/ checkout' = checkout
        \/ Review!CanPop(checkout) /\ checkout' = Review!StashPop(checkout)
        \/ checkout' = Review!PopConflict(checkout)
    BY <1>3 DEF Review!EnsureHeadAdvanced, Review!RestoreStash
  <2>2. checkout' \in Review!Repositories
    BY <1>0, <2>1, PopKeeps, EditsKeep
  <2> QED BY <1>0, <1>a, <1>b, <2>1, <2>2, PopKeeps, EditsKeep
<1>4. CASE ~Review!MarkHeadAndStash /\ ~Review!RunImplementAgent /\ ~Review!EnsureHeadAdvanced /\ ~Review!RestoreStash
  <2>1. checkout' = checkout
    BY <1>4 DEF Review!Next, Review!Step, Review!StartPass, Review!Pause, Review!RunReviewAgent,
       Review!EndPass, Review!PassLimit,
                Review!NotifyComplete, Review!SettlePass, Review!Cancel, Review!Ended, Review!vars
  <2> QED BY <1>0, <1>a, <2>1
<1> QED BY <1>1, <1>2, <1>3, <1>4

\* Every other part of the invariant, step by step of the pass.
LEMMA NextAccounts ==
  ASSUME ReviewInv, [Review!Next]_Review!vars, checkout' \in Review!Repositories
  PROVE  ReviewInv'
<1> USE DEF Review!inputVars, Review!costVars, Review!endVars
<1>0. /\ ReviewTypes /\ Accounted /\ Phased /\ Witnessed /\ Shelved
      /\ total \in Nat /\ spent \in Nat /\ recorded \in Nat
      /\ rec.tokens \in Nat /\ rec.ending \in Review!Endings \cup {"none"}
  BY DEF ReviewInv, ReviewTypes
<1>r. ASSUME NEW e \in Review!Endings, rec' = [rec EXCEPT !.ending = e]
      PROVE  /\ rec' \in [tokens : Nat, ending : Review!Endings \cup {"none"}]
             /\ rec'.tokens = rec.tokens /\ rec'.ending = e
  BY <1>r DEF ReviewInv, ReviewTypes
<1>t. ASSUME rec' = [rec EXCEPT !.tokens = @ + 1]
      PROVE  /\ rec' \in [tokens : Nat, ending : Review!Endings \cup {"none"}]
             /\ rec'.tokens = rec.tokens + 1 /\ rec'.ending = rec.ending
  BY <1>t DEF ReviewInv, ReviewTypes
<1>n. /\ Review!NoRecord \in [tokens : Nat, ending : Review!Endings \cup {"none"}]
      /\ Review!NoRecord.tokens = 0 /\ Review!NoRecord.ending = "none"
  BY DEF Review!NoRecord
<1>1. CASE Review!StartPass
  <2>1. ReviewTypes' /\ Accounted'
    BY <1>0, <1>1, <1>n DEF Review!StartPass, ReviewTypes, InPass, Accounted, Unsettled
  <2>2. Phased' /\ Witnessed' /\ Shelved'
    BY <1>0, <1>1, <1>n DEF Review!StartPass, Accounted, InPass, Phased, Witnessed, Shelved
  <2> QED BY <2>1, <2>2 DEF ReviewInv
<1>2. CASE Review!Pause
  <2>0. rec' = rec \/ rec' = [rec EXCEPT !.ending = "operator-stopped"]
    BY <1>2 DEF Review!Pause
  <2>1. ReviewTypes' /\ Accounted'
    BY <1>0, <1>2, <1>r, <2>0 DEF Review!Pause, ReviewTypes, InPass, Accounted, Unsettled,
       Review!Endings
  <2>2. Phased' /\ Witnessed' /\ Shelved'
    BY <1>0, <1>2, <1>r, <2>0 DEF Review!Pause, InPass, Phased, Witnessed, Shelved, Review!Endings
  <2> QED BY <2>1, <2>2 DEF ReviewInv
<1>3. CASE Review!MarkHeadAndStash
  <2>0. /\ at = "checkpoint" /\ UNCHANGED <<rec, total, spent, recorded, unsettled, touched>>
        /\ \/ at' \in {at, "implement"} /\ result' = result
           \/ at' = "settle" /\ result' = "failed"
    BY <1>3, FailsEffect DEF Review!MarkHeadAndStash
  <2>1. at' = "implement" => checkout'.ahead = FALSE /\ checkout'.tree = {}
    BY <1>0, <1>3 DEF Review!MarkHeadAndStash, ReviewTypes, Review!Repositories,
       Review!HasChanges, Review!Stash, Review!Fails
  <2>2. ReviewTypes' /\ Accounted'
    BY <1>0, <2>0 DEF ReviewTypes, InPass, Accounted, Unsettled
  <2>3. Phased' /\ Witnessed' /\ Shelved'
    BY <1>0, <2>0, <2>1 DEF InPass, Phased, Witnessed, Shelved
  <2> QED BY <2>2, <2>3 DEF ReviewInv
<1>4. CASE Review!RunImplementAgent
  <2>0. /\ at = "implement" /\ UNCHANGED <<recorded, unsettled>>
        /\ touched' = (touched \/ checkout'.ahead)
        /\ \/ /\ at' = "advance" /\ total' = total + 1 /\ spent' = spent + 1
              /\ rec' = [rec EXCEPT !.tokens = @ + 1] /\ result' = result
           \/ /\ UNCHANGED <<total, spent, rec>>
              /\ \/ at' = at /\ result' = result
                 \/ at' = "settle" /\ result' = "failed"
    BY <1>4, FailsEffect DEF Review!RunImplementAgent
  <2>1. /\ checkout'.tree \subseteq {"agents"} /\ checkout'.ahead \in BOOLEAN
        /\ checkout'.ahead = checkout.ahead \/ checkout'.ahead = TRUE
    <3>1. /\ checkout' \in Review!AgentTurns(checkout)
          /\ checkout.tree \subseteq {"agents"}
          /\ checkout \in Review!Repositories
      BY <1>0, <1>4, <2>0 DEF Review!RunImplementAgent, Shelved, ReviewTypes
    <3>2. checkout'.tree \subseteq {"agents"} /\ (checkout'.ahead = checkout.ahead \/ checkout'.ahead = TRUE)
      <4>1. /\ checkout'.tree \in {checkout.tree, checkout.tree \cup {"agents"}, {}}
            /\ checkout'.ahead = checkout.ahead \/ checkout'.ahead = TRUE
        BY <3>1, TurnsKeep
      <4> QED BY <3>1, <4>1
    <3> QED BY <3>1, <3>2 DEF Review!Repositories
  <2>2. touched = checkout.ahead /\ touched' = checkout'.ahead
    BY <1>0, <2>0, <2>1 DEF Witnessed, ReviewTypes, Review!Repositories
  <2>3. rec'.ending = "none" /\ rec.ending = "none"
    BY <1>0, <1>t, <2>0 DEF Phased, InPass
  <2>4. ReviewTypes' /\ Accounted'
    BY <1>0, <1>t, <2>0, <2>1, <2>2 DEF ReviewTypes, InPass, Accounted, Unsettled
  <2>5. Phased' /\ Witnessed' /\ Shelved'
    BY <1>0, <2>0, <2>1, <2>2, <2>3 DEF InPass, Phased, Witnessed, Shelved
  <2> QED BY <2>4, <2>5 DEF ReviewInv
<1>5. CASE Review!EnsureHeadAdvanced
  <2>0. /\ at = "advance" /\ UNCHANGED <<total, spent, recorded, unsettled, touched>>
        /\ \/ at' = "review" /\ UNCHANGED <<checkout, rec, result>>
           \/ /\ at' = "complete" /\ result' = result /\ ~checkout.ahead
              /\ rec' = [rec EXCEPT !.ending = "converged"]
           \/ rec' = rec /\ at' = at /\ result' = result
           \/ rec' = rec /\ at' = "settle" /\ result' = "failed"
    BY <1>5, FailsEffect DEF Review!EnsureHeadAdvanced
  <2>1. checkout'.ahead = checkout.ahead
    BY <1>0, <1>5 DEF Review!EnsureHeadAdvanced, ReviewTypes, Review!Repositories,
       Review!StashPop, Review!PopConflict
  <2>2. ReviewTypes' /\ Accounted'
    BY <1>0, <1>r, <2>0 DEF ReviewTypes, InPass, Accounted, Unsettled, Review!Endings
  <2>3. Phased' /\ Witnessed' /\ Shelved'
    BY <1>0, <1>r, <2>0, <2>1 DEF InPass, Phased, Witnessed, Shelved, Review!Endings, ReviewTypes
  <2> QED BY <2>2, <2>3 DEF ReviewInv
<1>6. CASE Review!RunReviewAgent
  <2>0. /\ at = "review" /\ UNCHANGED <<checkout, recorded, unsettled, touched>>
        /\ \/ /\ at' \in {"restore", "next"} /\ total' = total + 1 /\ spent' = spent + 1
              /\ rec' = [rec EXCEPT !.tokens = @ + 1] /\ result' = result
           \/ /\ UNCHANGED <<total, spent, rec>>
              /\ \/ at' = at /\ result' = result
                 \/ at' = "settle" /\ result' = "failed"
    BY <1>6, FailsEffect DEF Review!RunReviewAgent
  <2>1. rec'.ending = "none" /\ rec.ending = "none"
    BY <1>0, <1>t, <2>0 DEF Phased, InPass
  <2>2. ReviewTypes' /\ Accounted'
    BY <1>0, <1>t, <2>0 DEF ReviewTypes, InPass, Accounted, Unsettled
  <2>3. Phased' /\ Witnessed' /\ Shelved'
    BY <1>0, <2>0, <2>1 DEF InPass, Phased, Witnessed, Shelved
  <2> QED BY <2>2, <2>3 DEF ReviewInv
<1>7. CASE Review!RestoreStash
  <2>1. ReviewTypes' /\ Accounted'
    BY <1>0, <1>7 DEF Review!RestoreStash, ReviewTypes, InPass, Accounted, Unsettled
  <2>2. Phased' /\ Witnessed' /\ Shelved'
    BY <1>0, <1>7 DEF Review!RestoreStash, InPass, Phased, Witnessed, Shelved
  <2> QED BY <2>1, <2>2 DEF ReviewInv
<1>8. CASE Review!EndPass \/ Review!PassLimit
  <2>0. /\ at \in {"next", "limit"}
        /\ UNCHANGED <<checkout, total, spent, recorded, unsettled, touched>>
        /\ \/ rec' = rec /\ at' = "settle" /\ result' \in {"continued", "failed"}
           \/ rec' = rec /\ at' = "limit" /\ result' = result
           \/ /\ \E e \in Review!Endings \ {"converged"} : rec' = [rec EXCEPT !.ending = e]
              /\ \/ at' = "complete" /\ result' = result
                 \/ at' = "settle" /\ result' = "operator-stopped"
    BY <1>8 DEF Review!EndPass, Review!PassLimit, Review!ContinueAsNew, Review!Endings
  <2>1. \/ rec' = rec
        \/ /\ rec' \in [tokens : Nat, ending : Review!Endings \cup {"none"}]
           /\ rec'.tokens = rec.tokens /\ rec'.ending \in Review!Endings \ {"converged"}
           /\ at' \notin {"limit"}
    BY <1>r, <2>0
  <2>2. ReviewTypes' /\ Accounted'
    BY <1>0, <2>0, <2>1 DEF ReviewTypes, InPass, Accounted, Unsettled
  <2>3. Phased' /\ Witnessed' /\ Shelved'
    BY <1>0, <2>0, <2>1 DEF InPass, Phased, Witnessed, Shelved
  <2> QED BY <2>2, <2>3 DEF ReviewInv
<1>9. CASE Review!NotifyComplete
  <2>1. result' \in {"failed", rec.ending} /\ rec' = rec /\ at = "complete" /\ at' = "settle"
        /\ UNCHANGED <<checkout, total, spent, recorded, unsettled, touched>>
    BY <1>9 DEF Review!NotifyComplete
  <2>2. ReviewTypes' /\ Accounted'
    BY <1>0, <2>1 DEF ReviewTypes, InPass, Accounted, Unsettled
  <2>3. Phased' /\ Witnessed' /\ Shelved'
    BY <1>0, <2>1 DEF InPass, Phased, Witnessed, Shelved, Review!Endings
  <2> QED BY <2>2, <2>3 DEF ReviewInv
<1>10. CASE Review!SettlePass
  <2>0. /\ at = "settle" /\ UNCHANGED <<checkout, total, spent>>
        /\ \/ recorded' = recorded + rec.tokens /\ unsettled' = unsettled
           \/ unsettled' = TRUE /\ recorded' = recorded
        /\ \/ result' = "running" /\ at' = "start" /\ rec' = Review!NoRecord /\ touched' = FALSE
           \/ at' = "ended" /\ UNCHANGED <<result, rec, touched>>
    BY <1>10 DEF Review!SettlePass
  <2>t. ReviewTypes'
    <3>1. rec' \in [tokens : Nat, ending : Review!Endings \cup {"none"}] /\ touched' \in BOOLEAN
      BY <1>0, <1>n, <2>0 DEF ReviewTypes
    <3>2. recorded' \in Nat /\ total' \in Nat /\ spent' \in Nat
      BY <1>0, <2>0
    <3> QED BY <2>0, <3>1, <3>2 DEF ReviewTypes, InPass
  <2>a. Accounted'
    BY <1>0, <1>n, <2>0 DEF Accounted, Unsettled
  <2>1. ReviewTypes' /\ Accounted'
    BY <2>t, <2>a
  <2>2. Phased' /\ Witnessed' /\ Shelved'
    BY <1>0, <1>n, <2>0 DEF InPass, Phased, Witnessed, Shelved
  <2> QED BY <2>1, <2>2 DEF ReviewInv
<1>11. CASE Review!Cancel \/ UNCHANGED Review!vars
  <2>1. UNCHANGED <<checkout, at, total, spent, recorded, unsettled, touched, rec, result>>
    BY <1>11 DEF Review!Cancel, Review!vars
  <2> QED BY <1>0, <2>1 DEF ReviewInv, ReviewTypes, InPass, Accounted, Unsettled, Phased,
                           Witnessed, Shelved
<1> QED BY <1>1, <1>2, <1>3, <1>4, <1>5, <1>6, <1>7, <1>8, <1>9, <1>10, <1>11
        DEF Review!Next, Review!Step, Review!Ended

\* The invariant of the loop, for every retry policy and cap on passes.
LEMMA ReviewInvariant == Review!Spec => []ReviewInv
<1>1. ReviewInv /\ [Review!Next]_Review!vars => ReviewInv'
  BY NextHolds, NextAccounts
<1> QED BY <1>1, InitReview, PTL DEF Review!Spec

-----------------------------------------------------------------------------
(* What the loop promises.                                                 *)

\* A settled loop tells the truth of itself (finishReviewState, the total each
\* continued run inherits): it converged on work no attempt of its agent had
\* changed, and its rows sum to what its agents spent.
THEOREM LoopTellsTheTruth == Review!Spec => []RowsTellTheTruth
<1>1. ReviewInv => RowsTellTheTruth
  <2> SUFFICES ASSUME ReviewInv PROVE Review!ConvergedMeansUnchanged /\ Review!TokensAddUp
    BY DEF RowsTellTheTruth, Review!RowsTellTheTruth
  <2>1. Review!ConvergedMeansUnchanged
    BY DEF ReviewInv, Phased, Witnessed, Review!ConvergedMeansUnchanged
  <2>2. Review!TokensAddUp
    BY DEF ReviewInv, ReviewTypes, Accounted, Unsettled, Review!TokensAddUp
  <2> QED BY <2>1, <2>2
<1> QED BY <1>1, ReviewInvariant, PTL

\* Nothing the developer left uncommitted or stashed is lost by any step
\* (MarkHeadAndStash, EnsureHeadAdvanced, RestoreStash and the agent itself).
THEOREM DeveloperLosesNothing == Review!Spec => DevelopersWorkSurvives
<1>1. ReviewInv /\ [Review!Next]_Review!vars =>
        [\A kind \in {"mine", "older"} : Review!Holds(checkout, kind) => Review!Holds(checkout, kind)']_Review!vars
  BY NextHolds
<1> QED BY <1>1, ReviewInvariant, PTL DEF Review!Spec, DevelopersWorkSurvives,
   Review!DevelopersWorkSurvives

=============================================================================
