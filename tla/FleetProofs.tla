---------------------------- MODULE FleetProofs -----------------------------
(***************************************************************************)
(* For every plan, of any size: no node of a fleet is developed before     *)
(* everything it depends on was developed and reviewed; a fleet that       *)
(* completes reports every node once, as it ended; the row it leaves holds *)
(* them all; and what the hub publishes of a fleet moves forward only.     *)
(***************************************************************************)
EXTENDS FleetView, FiniteSetTheorems, SequenceTheorems, WellFoundedInduction, TLAPS

\* What the argument needs of the variables' types.  The sequences the fleet
\* keeps need none: a name that is no node of the plan changes nothing.
FutureStates == {"none", "pending", "succeeded", "failed", "blocked"}

FleetTypes ==
  /\ pc \in {"start", "plan", "base", "layer", "await", "settle", "ended"}
  /\ layer \in Nat
  /\ depth \in [plan.nodes -> Nat]
  /\ results \in [plan.nodes -> FutureStates \cup {Unsettled, "skipped"}]
  /\ child \in [plan.nodes -> FutureStates \cup Live \cup {"terminated"}]
  /\ future \in [plan.nodes -> FutureStates]

ReviewedInv == FleetTypes /\ LayerOrder /\ RunsOnReviewedWork

\* Every node starts without a child, a future or a result.
LEMMA InitReviewed == Init => ReviewedInv
<1> SUFFICES ASSUME Init PROVE ReviewedInv
  OBVIOUS
<1>1. FleetTypes
  BY DEF Init, FleetTypes, FutureStates, Unsettled
<1>2. LayerOrder
  BY DEF Init, LayerOrder, Unsettled
<1>3. RunsOnReviewedWork
  BY DEF Init, RunsOnReviewedWork
<1> QED
  BY <1>1, <1>2, <1>3 DEF ReviewedInv

\* Steps that leave the children, their futures and the results alone.
LEMMA QuietReviewed ==
  ASSUME ReviewedInv, UNCHANGED <<plan, layer, depth, results, child, future>>,
         \/ pc' = pc
         \/ pc = "start" /\ pc' = "plan"
         \/ pc = "base" /\ pc' = "layer"
         \/ pc' \in {"settle", "ended"}
  PROVE  ReviewedInv'
<1>1. FleetTypes'
  BY DEF ReviewedInv, FleetTypes
<1>2. LayerOrder'
  BY DEF ReviewedInv, FleetTypes, LayerOrder, WellFormed
<1>3. RunsOnReviewedWork'
  BY DEF ReviewedInv, RunsOnReviewedWork
<1> QED
  BY <1>1, <1>2, <1>3 DEF ReviewedInv

\* The layers are computed before anything runs, from a well-formed plan.
LEMMA LayersReviewed == ReviewedInv /\ TopoLayers => ReviewedInv'
<1> SUFFICES ASSUME ReviewedInv, TopoLayers PROVE ReviewedInv'
  OBVIOUS
<1>1. CASE worktrees /\ ValidatePlan(plan)
  <2>1. depth' \in [plan.nodes -> Nat] /\ pc' = "base" /\ WellFormed(plan)
    BY <1>1 DEF TopoLayers, Depths, ValidatePlan
  <2>2. UNCHANGED <<plan, layer, results, child, future>> /\ pc = "plan"
    BY DEF TopoLayers
  <2> USE <2>1, <2>2
  <2>3. FleetTypes'
    BY DEF ReviewedInv, FleetTypes
  <2>4. WellFormed(plan)'
    BY DEF WellFormed
  <2>5. LayerOrder'
    BY <2>4 DEF ReviewedInv, LayerOrder, Unsettled
  <2>6. RunsOnReviewedWork'
    BY DEF ReviewedInv, RunsOnReviewedWork
  <2> QED
    BY <2>3, <2>5, <2>6 DEF ReviewedInv
<1>2. CASE ~(worktrees /\ ValidatePlan(plan))
  BY <1>2, QuietReviewed DEF TopoLayers, Return
<1> QED
  BY <1>1, <1>2

\* A layer starts a child only where every dependency's result is a success,
\* and no node that already has a child.
LEMMA StartReviewed == ReviewedInv /\ StartLayer => ReviewedInv'
<1> SUFFICES ASSUME ReviewedInv, StartLayer PROVE ReviewedInv'
  OBVIOUS
<1> DEFINE skipped == {n \in LayerNodes(layer) : blockingDependency(n)}
           run     == LayerNodes(layer) \ skipped
<1>1. /\ pc = "layer" /\ pc' = "await" /\ UNCHANGED <<plan, layer, depth>>
      /\ results' = [n \in plan.nodes |-> IF n \in skipped THEN "skipped" ELSE results[n]]
      /\ child' = [n \in plan.nodes |-> IF n \in run /\ ~cancelled THEN "seeding"
                                                                   ELSE child[n]]
      /\ future' = [n \in plan.nodes |->
                      IF n \in run THEN IF cancelled THEN "failed" ELSE "pending"
                                   ELSE future[n]]
  BY DEF StartLayer
<1>2. \A n \in run : /\ n \in plan.nodes /\ depth[n] = layer
                     /\ \A d \in plan.deps[n] : results[d] = "succeeded"
  BY DEF LayerNodes, blockingDependency
<1>3. WellFormed(plan)
  BY <1>1 DEF ReviewedInv, LayerOrder
<1>4. \A n \in run : future[n] = "none" /\ child[n] = "none"
  BY <1>1, <1>2 DEF ReviewedInv, FleetTypes, LayerOrder
<1> HIDE DEF skipped, run
<1>5. FleetTypes'
  BY <1>1 DEF ReviewedInv, FleetTypes, FutureStates, Live
<1>6. LayerOrder'
  <2>1. WellFormed(plan)'
    BY <1>1, <1>3 DEF WellFormed
  <2>2. ASSUME NEW n \in plan.nodes
        PROVE  /\ results'[n] = "succeeded" => future'[n] = "succeeded"
               /\ future'[n] = "succeeded" => child'[n] = "succeeded"
               /\ future'[n] # "none" => depth[n] <= layer
               /\ child'[n] # "none" => future'[n] # "none" /\ WellFormed(plan)
    <3>1. CASE n \in run
      <4>1. results[n] # "succeeded"
        BY <3>1, <1>4 DEF ReviewedInv, LayerOrder
      <4> QED
        BY <3>1, <4>1, <1>1, <1>2, <1>3 DEF ReviewedInv, FleetTypes
    <3>2. CASE n \notin run
      <4>1. future'[n] = future[n] /\ child'[n] = child[n]
        BY <3>2, <1>1
      <4>2. results'[n] = "succeeded" => results[n] = "succeeded"
        BY <1>1
      <4> QED
        BY <4>1, <4>2, <1>1 DEF ReviewedInv, FleetTypes, LayerOrder
    <3> QED
      BY <3>1, <3>2
  <2> QED
    BY <2>1, <2>2, <1>1 DEF LayerOrder
<1>7. RunsOnReviewedWork'
  <2>1. \A d \in plan.nodes : child[d] = "succeeded" => child'[d] = "succeeded"
    BY <1>1, <1>4
  <2>2. \A n \in plan.nodes : plan.deps[n] \subseteq plan.nodes
    BY <1>3 DEF WellFormed
  <2>3. ASSUME NEW n \in plan.nodes, child'[n] # "none", NEW d \in plan.deps[n]
        PROVE  child'[d] = "succeeded"
    <3>1. CASE n \in run
      <4>1. results[d] = "succeeded" /\ d \in plan.nodes
        BY <3>1, <1>2, <2>2
      <4>2. child[d] = "succeeded"
        BY <4>1 DEF ReviewedInv, LayerOrder
      <4> QED
        BY <4>1, <4>2, <2>1
    <3>2. CASE n \notin run
      <4>1. child[n] # "none"
        BY <3>2, <2>3, <1>1
      <4>2. child[d] = "succeeded"
        BY <4>1 DEF ReviewedInv, RunsOnReviewedWork
      <4> QED
        BY <4>2, <2>1, <2>2
    <3> QED
      BY <3>1, <3>2
  <2> QED
    BY <2>3, <1>1 DEF RunsOnReviewedWork
<1> QED
  BY <1>5, <1>6, <1>7 DEF ReviewedInv

\* A result is what the future resolved to.
LEMMA AwaitReviewed == ReviewedInv /\ AwaitChild => ReviewedInv'
<1> SUFFICES ASSUME ReviewedInv, AwaitChild PROVE ReviewedInv'
  OBVIOUS
<1> DEFINE n == Head(started)
<1>1. /\ UNCHANGED <<plan, pc, layer, depth, child, future>> /\ pc = "await"
      /\ results' = [results EXCEPT ![n] = future[n]]
  BY DEF AwaitChild
<1> HIDE DEF n
<1>2. \A m \in plan.nodes : results'[m] = results[m] \/ results'[m] = future[m]
  BY <1>1 DEF ReviewedInv, FleetTypes
<1>3. results' \in [plan.nodes -> FutureStates \cup {Unsettled, "skipped"}]
  BY <1>1 DEF ReviewedInv, FleetTypes
<1>4. FleetTypes'
  BY <1>1, <1>3 DEF ReviewedInv, FleetTypes
<1>5. LayerOrder'
  BY <1>1, <1>2 DEF ReviewedInv, LayerOrder, WellFormed
<1>6. RunsOnReviewedWork'
  BY <1>1 DEF ReviewedInv, RunsOnReviewedWork
<1> QED
  BY <1>4, <1>5, <1>6 DEF ReviewedInv

\* The next layer is deeper than every node that has a child.
LEMMA NextReviewed == ReviewedInv /\ NextLayer => ReviewedInv'
<1> SUFFICES ASSUME ReviewedInv, NextLayer PROVE ReviewedInv'
  OBVIOUS
<1>1. /\ UNCHANGED <<plan, depth, results, child, future>>
      /\ pc = "await" /\ pc' = "layer" /\ layer' = layer + 1
  BY DEF NextLayer
<1>2. FleetTypes'
  BY <1>1 DEF ReviewedInv, FleetTypes
<1>3. LayerOrder'
  <2>1. \A n \in plan.nodes : depth[n] \in Nat /\ layer \in Nat
    BY DEF ReviewedInv, FleetTypes
  <2> QED
    BY <1>1, <2>1 DEF ReviewedInv, LayerOrder, WellFormed
<1>4. RunsOnReviewedWork'
  BY <1>1 DEF ReviewedInv, RunsOnReviewedWork
<1> QED
  BY <1>2, <1>3, <1>4 DEF ReviewedInv

\* A child that ends, is abandoned or is terminated was not a success before,
\* so nothing that runs on a success is disturbed.
LEMMA ChildReviewed ==
  ASSUME ReviewedInv, NEW n \in plan.nodes,
         \/ ChildStep(n) \/ ReviewEnds(n) \/ FutureCancelled(n)
  PROVE  ReviewedInv'
<1>1. UNCHANGED <<plan, pc, layer, depth, results>>
  BY DEF ChildStep, ReviewEnds, FutureCancelled, runVars
<1>2. \A m \in plan.nodes \ {n} : child'[m] = child[m] /\ future'[m] = future[m]
  BY DEF ChildStep, ReviewEnds, FutureCancelled, EndChild, ReviewedInv, FleetTypes
<1>3. /\ child' \in [plan.nodes -> FutureStates \cup Live \cup {"terminated"}]
      /\ future' \in [plan.nodes -> FutureStates]
  BY DEF ChildStep, ReviewEnds, FutureCancelled, EndChild, ReviewedInv, FleetTypes,
         FutureStates, Live
<1>4. /\ child'[n] # "none" => child[n] # "none"
      /\ child[n] = "succeeded" => child'[n] = "succeeded"
      /\ future[n] # "none" <=> future'[n] # "none"
      /\ future[n] = "succeeded" => future'[n] = "succeeded"
      /\ future'[n] = "succeeded" => child'[n] = "succeeded"
  <2>1. future[n] = "succeeded" => child[n] = "succeeded"
    BY DEF ReviewedInv, LayerOrder
  <2>2. CASE ChildStep(n)
    BY <2>1, <2>2 DEF ChildStep, EndChild, ReviewedInv, FleetTypes
  <2>3. CASE ReviewEnds(n)
    BY <2>1, <2>3 DEF ReviewEnds, EndChild, ReviewedInv, FleetTypes
  <2>4. CASE FutureCancelled(n)
    BY <2>1, <2>4 DEF FutureCancelled, ReviewedInv, FleetTypes
  <2> QED
    BY <2>2, <2>3, <2>4
<1>5. child[n] # "none" \/ future[n] # "none"
  BY DEF ChildStep, ReviewEnds, FutureCancelled
<1>6. FleetTypes'
  BY <1>1, <1>3 DEF ReviewedInv, FleetTypes
<1>7. LayerOrder'
  <2>1. pc \notin {"start", "plan", "base"}
    BY <1>5 DEF ReviewedInv, LayerOrder
  <2>2. ASSUME NEW m \in plan.nodes
        PROVE  /\ results[m] = "succeeded" => future'[m] = "succeeded"
               /\ future'[m] = "succeeded" => child'[m] = "succeeded"
               /\ future'[m] # "none" => depth[m] <= layer /\ (pc = "layer" => depth[m] < layer)
               /\ child'[m] # "none" => future'[m] # "none" /\ WellFormed(plan)
    BY <1>2, <1>4 DEF ReviewedInv, LayerOrder
  <2> QED
    BY <2>1, <2>2, <1>1 DEF ReviewedInv, LayerOrder, WellFormed
<1>8. RunsOnReviewedWork'
  <2>1. \A m \in plan.nodes : /\ child[m] = "succeeded" => child'[m] = "succeeded"
                              /\ child'[m] # "none" => child[m] # "none"
    BY <1>2, <1>4
  <2>2. \A m \in plan.nodes : child[m] # "none" => plan.deps[m] \subseteq plan.nodes
    BY DEF ReviewedInv, LayerOrder, WellFormed
  <2> QED
    BY <1>1, <2>1, <2>2 DEF ReviewedInv, RunsOnReviewedWork
<1> QED
  BY <1>6, <1>7, <1>8 DEF ReviewedInv

\* Closing the fleet terminates only children that are still live.
LEMMA SettleReviewed == ReviewedInv /\ Settle => ReviewedInv'
<1> SUFFICES ASSUME ReviewedInv, Settle PROVE ReviewedInv'
  OBVIOUS
<1>1. /\ UNCHANGED <<plan, layer, depth, results, future>>
      /\ pc = "settle" /\ pc' \in {"settle", "ended"}
      /\ child' = [n \in plan.nodes |-> IF pc' = "ended" /\ child[n] \in Live
                                          THEN "terminated" ELSE child[n]]
  BY DEF Settle, runVars
<1>2. FleetTypes'
  BY <1>1 DEF ReviewedInv, FleetTypes, FutureStates
<1>3. \A n \in plan.nodes : /\ child[n] = "succeeded" => child'[n] = "succeeded"
                            /\ child'[n] # "none" => child[n] # "none"
  BY <1>1 DEF Live
<1>4. LayerOrder'
  BY <1>1, <1>3 DEF ReviewedInv, LayerOrder
<1>5. \A n \in plan.nodes : child[n] # "none" => plan.deps[n] \subseteq plan.nodes
  BY DEF ReviewedInv, LayerOrder, WellFormed
<1>6. RunsOnReviewedWork'
  BY <1>1, <1>3, <1>5 DEF ReviewedInv, RunsOnReviewedWork
<1> QED
  BY <1>2, <1>4, <1>6 DEF ReviewedInv

\* Every step of the fleet, its children and its operator.
LEMMA NextKeepsReviewed == ReviewedInv /\ [Next]_vars => ReviewedInv'
<1> SUFFICES ASSUME ReviewedInv, [Next]_vars PROVE ReviewedInv'
  OBVIOUS
<1>1. CASE RecordStart
  BY <1>1, QuietReviewed DEF RecordStart, runVars
<1>2. CASE TopoLayers
  BY <1>2, LayersReviewed
<1>3. CASE ResolveBase
  BY <1>3, QuietReviewed DEF ResolveBase, Return, runVars
<1>4. CASE StartLayer
  BY <1>4, StartReviewed
<1>5. CASE AwaitChild
  BY <1>5, AwaitReviewed
<1>6. CASE NextLayer
  BY <1>6, NextReviewed
<1>7. CASE Finish
  BY <1>7, QuietReviewed DEF Finish, Return, runVars
<1>8. CASE Settle
  BY <1>8, SettleReviewed
<1>9. CASE \E n \in plan.nodes : ChildStep(n) \/ ReviewEnds(n) \/ FutureCancelled(n)
  BY <1>9, ChildReviewed
<1>10. CASE Cancel
  BY <1>10, QuietReviewed DEF Cancel, runVars
<1>11. CASE UNCHANGED vars
  BY <1>11, QuietReviewed DEF vars, runVars
<1> QED
  BY <1>1, <1>2, <1>3, <1>4, <1>5, <1>6, <1>7, <1>8, <1>9, <1>10, <1>11
     DEF Next, FleetStep, ChildrenStep, Ended

\* Whatever the plan, however its children interleave, fail or are cancelled: a
\* node's child exists only once every dependency's child ended in success.
THEOREM RunsOnReviewed == Spec => []RunsOnReviewedWork
<1>1. Spec => []ReviewedInv
  BY InitReviewed, NextKeepsReviewed, PTL DEF Spec
<1>2. ReviewedInv => RunsOnReviewedWork
  BY DEF ReviewedInv
<1> QED
  BY <1>1, <1>2, PTL

-----------------------------------------------------------------------------
(* A sequence that names every element of a set once.                      *)

Enumerates(seq, S) ==
  /\ seq \in Seq(S)
  /\ \A n \in S : \E i \in 1..Len(seq) : seq[i] = n
  /\ \A i, j \in 1..Len(seq) : seq[i] = seq[j] => i = j

\* It is as long as the set is large.
LEMMA EnumerationCounts ==
  ASSUME NEW S, NEW seq, Enumerates(seq, S)
  PROVE  IsFiniteSet(S) /\ Len(seq) = Cardinality(S)
<1>1. Len(seq) \in Nat /\ seq \in [1..Len(seq) -> S]
  BY LenProperties DEF Enumerates
<1>2. seq \in Bijection(1..Len(seq), S)
  <2>1. seq \in Injection(1..Len(seq), S)
    BY <1>1 DEF Enumerates, Injection, IsInjective
  <2>2. seq \in Surjection(1..Len(seq), S)
    BY <1>1 DEF Enumerates, Surjection
  <2>. QED BY <2>1, <2>2 DEF Bijection
<1>3. IsFiniteSet(1..Len(seq)) /\ Cardinality(1..Len(seq)) = Len(seq)
  BY <1>1, FS_Interval
<1>. QED BY <1>2, <1>3, FS_Bijection DEF ExistsBijection

\* One element is added, or taken from the front.
LEMMA EnumerationGrows ==
  ASSUME NEW S, NEW seq, Enumerates(seq, S), NEW n, n \notin S
  PROVE  Enumerates(Append(seq, n), S \cup {n})
<1>. DEFINE T == S \cup {n}
            longer == Append(seq, n)
            len == Len(seq)
<1>1. seq \in Seq(S) /\ seq \in Seq(T) /\ n \in T /\ len \in Nat
  BY LenProperties DEF Enumerates
<1>2. /\ longer \in Seq(T) /\ Len(longer) = len + 1
      /\ \A i \in 1..len : longer[i] = seq[i]
      /\ longer[len + 1] = n
  BY <1>1, AppendProperties
<1>3. \A i \in 1..len : seq[i] \in S
  BY <1>1, ElementOfSeq
<1>4. \A m \in S : \E i \in 1..len : seq[i] = m
  BY DEF Enumerates
<1>5. \A i, j \in 1..len : seq[i] = seq[j] => i = j
  BY DEF Enumerates
<1>. HIDE DEF T, longer, len
<1>6. \A i \in 1..len + 1 : i \in 1..len \/ i = len + 1
  BY <1>1
<1>7. \A m \in S \cup {n} : \E i \in 1..len + 1 : longer[i] = m
  BY <1>1, <1>2, <1>4
<1>8. ASSUME NEW i \in 1..len + 1, NEW j \in 1..len + 1, longer[i] = longer[j]
      PROVE  i = j
  <2>1. CASE i \in 1..len /\ j \in 1..len
    BY <1>2, <1>5, <1>8, <2>1
  <2>2. CASE i = len + 1 \/ j = len + 1
    BY <1>2, <1>3, <1>6, <1>8, <2>2
  <2>. QED BY <1>6, <2>1, <2>2
<1>. QED BY <1>2, <1>7, <1>8 DEF Enumerates, T, longer

LEMMA EnumerationShrinks ==
  ASSUME NEW S, NEW seq, Enumerates(seq, S), seq # <<>>
  PROVE  Head(seq) \in S /\ Enumerates(Tail(seq), S \ {Head(seq)})
<1>. DEFINE rest == Tail(seq)
            len == Len(rest)
            h == Head(seq)
<1>1. seq \in Seq(S) /\ Len(seq) \in Nat
  BY LenProperties DEF Enumerates
<1>2. /\ h \in S /\ rest \in Seq(S) /\ Len(seq) = len + 1 /\ len \in Nat
      /\ \A i \in 1..len : rest[i] = seq[i + 1]
  BY <1>1, HeadTailProperties, LenProperties
<1>3. h = seq[1]
  BY <1>1
<1>4. \A i, j \in 1..Len(seq) : seq[i] = seq[j] => i = j
  BY DEF Enumerates
<1>5. \A m \in S : \E i \in 1..Len(seq) : seq[i] = m
  BY DEF Enumerates
<1>6. rest \in [1..len -> S]
  BY <1>2, LenProperties
<1>. HIDE DEF rest, len, h
<1>7. \A i \in 1..len : i + 1 \in 1..Len(seq) /\ i + 1 # 1 /\ 1 \in 1..Len(seq)
  BY <1>2
<1>8. \A i \in 1..len : rest[i] \in S \ {h}
  BY <1>2, <1>3, <1>4, <1>6, <1>7
<1>9. rest \in Seq(S \ {h})
  <2>1. rest \in [1..len -> S \ {h}]
    BY <1>6, <1>8
  <2>. QED BY <1>2, <2>1, SeqDef
<1>10. ASSUME NEW m \in S \ {h} PROVE \E i \in 1..len : rest[i] = m
  <2>1. PICK i \in 1..Len(seq) : seq[i] = m
    BY <1>5
  <2>2. i # 1
    BY <1>3, <2>1
  <2>3. i - 1 \in 1..len /\ (i - 1) + 1 = i
    BY <1>2, <2>2
  <2>. QED BY <1>2, <2>1, <2>3
<1>11. ASSUME NEW i \in 1..len, NEW j \in 1..len, rest[i] = rest[j] PROVE i = j
  <2>1. i + 1 = j + 1
    BY <1>2, <1>4, <1>7, <1>11
  <2>. QED BY <2>1
<1>. QED BY <1>2, <1>9, <1>10, <1>11 DEF Enumerates, rest, h, len

\* Two sets that share nothing, one after the other.
LEMMA EnumerationsJoin ==
  ASSUME NEW S, NEW T, S \cap T = {}, NEW s, NEW t, Enumerates(s, S), Enumerates(t, T)
  PROVE  Enumerates(s \o t, S \cup T)
<1>. DEFINE U == S \cup T
            m == Len(s)
            k == Len(t)
            both == s \o t
<1>1. s \in Seq(S) /\ t \in Seq(T) /\ s \in Seq(U) /\ t \in Seq(U) /\ m \in Nat /\ k \in Nat
  BY LenProperties DEF Enumerates
<1>2. /\ both \in Seq(U) /\ Len(both) = m + k
      /\ \A i \in 1..m + k : both[i] = IF i <= m THEN s[i] ELSE t[i - m]
  BY <1>1, ConcatProperties
<1>3. (\A i \in 1..m : s[i] \in S) /\ (\A i \in 1..k : t[i] \in T)
  BY <1>1, ElementOfSeq
<1>4. /\ \A n \in S : \E i \in 1..m : s[i] = n
      /\ \A i, j \in 1..m : s[i] = s[j] => i = j
      /\ \A n \in T : \E i \in 1..k : t[i] = n
      /\ \A i, j \in 1..k : t[i] = t[j] => i = j
  BY DEF Enumerates
<1>. HIDE DEF U, m, k, both
<1>5. \A i \in 1..m : i \in 1..m + k /\ both[i] = s[i]
  BY <1>1, <1>2
<1>6. \A i \in 1..k : i + m \in 1..m + k /\ both[i + m] = t[i]
  <2>1. \A i \in 1..k : i + m \in 1..m + k /\ ~(i + m <= m) /\ (i + m) - m = i
    BY <1>1
  <2>. QED BY <1>2, <2>1
<1>7. \A i \in 1..m + k : i \in 1..m \/ \E j \in 1..k : i = j + m
  <2>1. \A i \in 1..m + k : i \in 1..m \/ (i - m \in 1..k /\ i = (i - m) + m)
    BY <1>1
  <2>. QED BY <2>1
<1>8. ASSUME NEW n \in S \cup T PROVE \E i \in 1..m + k : both[i] = n
  BY <1>4, <1>5, <1>6
<1>9. ASSUME NEW i \in 1..m + k, NEW j \in 1..m + k, both[i] = both[j] PROVE i = j
  <2>1. CASE i \in 1..m /\ j \in 1..m
    BY <1>4, <1>5, <1>9, <2>1
  <2>2. CASE i \notin 1..m /\ j \notin 1..m
    <3>1. PICK a \in 1..k, b \in 1..k : i = a + m /\ j = b + m
      BY <1>7, <2>2
    <3>2. t[a] = t[b]
      BY <1>6, <1>9, <3>1
    <3>. QED BY <1>4, <3>1, <3>2
  <2>3. CASE i \in 1..m /\ j \notin 1..m
    <3>1. PICK b \in 1..k : j = b + m
      BY <1>7, <2>3
    <3>. QED BY <1>3, <1>5, <1>6, <1>9, <2>3, <3>1
  <2>4. CASE i \notin 1..m /\ j \in 1..m
    <3>1. PICK a \in 1..k : i = a + m
      BY <1>7, <2>4
    <3>. QED BY <1>3, <1>5, <1>6, <1>9, <2>4, <3>1
  <2>. QED BY <2>1, <2>2, <2>3, <2>4
<1>. QED BY <1>2, <1>8, <1>9 DEF Enumerates, both, U

\* Sorted enumerates: a number's place is how many of the set are smaller, and
\* no two numbers have the same place.
LEMMA SortedEnumerates ==
  ASSUME NEW S, S \subseteq Nat, IsFiniteSet(S)
  PROVE  Enumerates(Sorted(S), S)
<1>. DEFINE below(n) == {m \in S : m < n}
            card == Cardinality(S)
            place == [n \in S |-> Cardinality(below(n)) + 1]
<1>1. card \in Nat
  BY FS_CardinalityType
<1>2. \A n \in S : IsFiniteSet(below(n)) /\ Cardinality(below(n)) \in Nat
  BY FS_Subset, FS_CardinalityType
<1>3. ASSUME NEW n \in S PROVE Cardinality(below(n)) < card
  <2>1. below(n) \in SUBSET S /\ n \notin below(n)
    OBVIOUS
  <2>2. Cardinality(below(n)) <= card /\ Cardinality(below(n)) # card
    <3>. HIDE DEF below
    <3>. QED BY <2>1, FS_Subset
  <2>. HIDE DEF below, card
  <2>. QED BY <1>1, <1>2, <2>2
<1>4. ASSUME NEW n \in S, NEW m \in S, n < m
      PROVE  Cardinality(below(n)) # Cardinality(below(m))
  <2>1. below(n) \in SUBSET below(m) /\ n \in below(m) /\ n \notin below(n)
    <3>1. n \in Nat /\ m \in Nat /\ \A i \in S : i \in Nat
      OBVIOUS
    <3>2. \A i \in S : i < n => i < m
      BY <1>4, <3>1
    <3>3. ~(n < n)
      BY <3>1
    <3>4. below(n) \in SUBSET below(m)
      BY <3>2
    <3>. QED BY <1>4, <3>3, <3>4
  <2>2. IsFiniteSet(below(m))
    BY <1>2
  <2>. HIDE DEF below
  <2>. QED BY <2>1, <2>2, FS_Subset
<1>5. place \in [S -> 1..card]
  <2>1. \A n \in S : Cardinality(below(n)) + 1 \in 1..card
    <3>. HIDE DEF below, card
    <3>. QED BY <1>1, <1>2, <1>3
  <2>. QED BY <2>1
<1>6. ASSUME NEW n \in S, NEW m \in S, place[n] = place[m] PROVE n = m
  <2>1. Cardinality(below(n)) = Cardinality(below(m))
    <3>1. Cardinality(below(n)) + 1 = Cardinality(below(m)) + 1
      BY <1>6
    <3>. HIDE DEF below
    <3>. QED BY <1>2, <3>1
  <2>2. ~(n < m) /\ ~(m < n)
    BY <1>4, <2>1
  <2>. QED BY <2>2
<1>7. place \in Injection(S, 1..card)
  <2>. HIDE DEF place, card
  <2>. QED BY <1>5, <1>6 DEF Injection, IsInjective
<1>8. place \in Surjection(S, 1..card)
  <2>1. IsFiniteSet(1..card) /\ Cardinality(1..card) = card
    BY <1>1, FS_Interval
  <2>. HIDE DEF place
  <2>. QED BY <1>7, <2>1, FS_Injection
<1>9. \A i \in 1..card : \E n \in S : place[n] = i
  BY <1>8 DEF Surjection
<1>10. ASSUME NEW i \in 1..card
       PROVE  Sorted(S)[i] \in S /\ place[Sorted(S)[i]] = i
  <2>1. Sorted(S)[i] = CHOOSE n \in S : Cardinality(below(n)) = i - 1
    BY DEF Sorted
  <2>2. \E n \in S : Cardinality(below(n)) = i - 1
    <3>1. PICK n \in S : place[n] = i
      BY <1>9
    <3>2. Cardinality(below(n)) + 1 = i
      BY <3>1
    <3>. HIDE DEF below
    <3>. QED BY <1>2, <3>2
  <2>3. Sorted(S)[i] \in S /\ Cardinality(below(Sorted(S)[i])) = i - 1
    <3>. HIDE DEF below
    <3>. QED BY <2>1, <2>2
  <2>4. place[Sorted(S)[i]] = (i - 1) + 1
    BY <2>3
  <2>. QED BY <2>3, <2>4
<1>11. Sorted(S) \in [1..card -> S]
  BY <1>10 DEF Sorted
<1>12. Sorted(S) \in Seq(S) /\ Len(Sorted(S)) = card
  BY <1>1, <1>11, SeqDef
<1>13. ASSUME NEW n \in S PROVE \E i \in 1..card : Sorted(S)[i] = n
  <2>1. place[n] \in 1..card
    BY <1>5
  <2>2. place[Sorted(S)[place[n]]] = place[n] /\ Sorted(S)[place[n]] \in S
    BY <1>10, <2>1
  <2>3. Sorted(S)[place[n]] = n
    BY <1>6, <2>2
  <2>. QED BY <2>1, <2>3
<1>14. ASSUME NEW i \in 1..card, NEW j \in 1..card, Sorted(S)[i] = Sorted(S)[j] PROVE i = j
  BY <1>10, <1>14
<1>. HIDE DEF card
<1>. QED BY <1>12, <1>13, <1>14 DEF Enumerates

\* A non-empty set of naturals has a smallest element.
LEMMA SmallestExists ==
  ASSUME NEW T, T \subseteq Nat, T # {}
  PROVE  \E i \in T : \A j \in T : i <= j
<1>1. PICK i \in T : \A j \in T : ~(<<j, i>> \in OpToRel(<, Nat))
  BY NatLessThanWellFounded, WFMin
<1>2. \A j \in T : ~(j < i)
  BY <1>1 DEF OpToRel
<1>. QED BY <1>2

-----------------------------------------------------------------------------
(* What has settled, and as what.                                          *)

Settled == {n \in plan.nodes : results[n] # Unsettled}
Waiting == {started[i] : i \in 1..Len(started)}

Over == outcome \in {"cancelled", "completed"}

\* A plan whose layers were computed was valid, and the layers are its depths.
Laid ==
  /\ plan \in Plans
  /\ outcome \in {"running", "failed", "cancelled", "completed"}
  /\ outcome = "running" <=> pc \in {"start", "plan", "base", "layer", "await"}
  /\ pc \in {"base", "layer", "await"} \/ Over => WellFormed(plan) /\ IsDepth(plan, depth)
  /\ pc \in {"start", "plan", "base"} => layer = 0

\* The order holds what has settled, each node once; the nodes of a layer that
\* have not settled are those that are waited for, and the layers before it are
\* complete.
Queued ==
  /\ Enumerates(order, Settled)
  /\ pc = "await" =>
       /\ Enumerates(started, Waiting) /\ Waiting \subseteq plan.nodes
       /\ \A n \in Waiting : results[n] = Unsettled /\ future[n] # "none"
       /\ \A n \in plan.nodes : depth[n] <= layer <=> n \in Settled \cup Waiting
  /\ pc = "layer" => \A n \in plan.nodes : depth[n] < layer <=> n \in Settled
  /\ Over => Settled = plan.nodes

\* A node was skipped behind a dependency that had settled otherwise, or its
\* future gave its result; and a future is its child's, until a cancellation.
Truthful ==
  /\ \A n \in plan.nodes :
       /\ results[n] = "skipped" =>
            future[n] = "none" /\ \E d \in plan.deps[n] : results[d] \notin {"succeeded", Unsettled}
       /\ results[n] \notin {"skipped", Unsettled} =>
            results[n] = future[n] /\ future[n] \notin {"none", "pending"}
       /\ future[n] # "none" => \A d \in plan.deps[n] : results[d] = "succeeded"
  /\ ~cancelled /\ pc # "ended" =>
       \A n \in plan.nodes : future[n] = IF child[n] \in Live THEN "pending" ELSE child[n]
  /\ outcome = "completed" =>
       \A n \in plan.nodes : future[n] = child[n] /\ child[n] \notin Live

\* The row is written once the outcome is known, and is what it comes to.
RowSettled ==
  /\ row.status \in {"none", "running", "succeeded", "failed"}
  /\ row.status \in {"none", "running"} => row = [status |-> row.status, nodes |-> <<>>]
  /\ row.status \in {"succeeded", "failed"} => row = Settlement /\ pc \in {"settle", "ended"}

SettledInv == ReviewedInv /\ Laid /\ Queued /\ Truthful /\ RowSettled

SettledRest == Laid /\ Queued /\ Truthful /\ RowSettled

LEMMA InitSettled == Init => SettledRest
<1>. SUFFICES ASSUME Init PROVE SettledRest
  OBVIOUS
<1>1. /\ plan \in Plans /\ outcome = "running" /\ pc = "start" /\ layer = 0
      /\ order = <<>> /\ cancelled = FALSE
      /\ row.status = "none" /\ row = [status |-> "none", nodes |-> <<>>]
      /\ \A n \in plan.nodes : results[n] = Unsettled /\ future[n] = "none" /\ child[n] = "none"
  BY DEF Init, NoRow
<1>2. Laid
  BY <1>1 DEF Laid, Over
<1>3. Queued
  <2>1. Settled = {}
    BY <1>1 DEF Settled
  <2>2. Enumerates(order, Settled)
    BY <1>1, <2>1 DEF Enumerates
  <2>. QED BY <1>1, <2>2 DEF Queued, Over
<1>4. Truthful
  BY <1>1 DEF Truthful, Live, Unsettled
<1>5. RowSettled
  BY <1>1 DEF RowSettled
<1>. QED BY <1>2, <1>3, <1>4, <1>5 DEF SettledRest

\* What the steps that settle nothing leave alone.
LEMMA QuietSettled ==
  ASSUME SettledInv, UNCHANGED <<plan, depth, layer, started, results, order, child, future>>,
         pc' = pc \/ (pc' \in {"plan", "settle", "ended"} /\ outcome' # "completed")
                  \/ (pc = "base" /\ pc' = "layer"),
         outcome' = outcome \/ (outcome = "running" /\ outcome' = "failed"),
         outcome' = "running" <=> pc' \in {"start", "plan", "base", "layer", "await"},
         pc' = "plan" => pc \in {"start", "plan"},
         pc = "ended" => pc' = "ended",
         cancelled' = cancelled \/ cancelled' = TRUE,
         \/ row' = row /\ (row.status \in {"succeeded", "failed"} => outcome' = outcome /\ pc' = pc)
         \/ row' = [status |-> "running", nodes |-> <<>>]
  PROVE  Laid' /\ Queued' /\ Truthful' /\ RowSettled'
<1>1. Laid'
  BY DEF SettledInv, Laid, Over, WellFormed, IsDepth
<1>2. Queued'
  <2>1. Settled' = Settled /\ Waiting' = Waiting
    BY DEF Settled, Waiting
  <2>2. Enumerates(order, Settled)'
    BY <2>1 DEF SettledInv, Queued, Enumerates
  <2>3. pc' = "await" => pc = "await"
    OBVIOUS
  <2>4. pc' = "layer" => \A n \in plan.nodes : depth[n] < layer <=> n \in Settled
    <3>1. CASE pc = "base"
      <4>1. layer = 0 /\ \A n \in plan.nodes : n \notin Settled /\ depth[n] \in Nat
        BY <3>1 DEF SettledInv, ReviewedInv, FleetTypes, LayerOrder, Laid, Settled
      <4>. QED BY <4>1
    <3>2. CASE pc # "base"
      BY <3>2 DEF SettledInv, Queued
    <3>. QED BY <3>1, <3>2
  <2>5. Over' => Over
    BY DEF Over
  <2>. QED BY <2>1, <2>2, <2>3, <2>4, <2>5 DEF SettledInv, Queued, Enumerates
<1>3. Truthful'
  <2>1. pc' # "ended" => pc # "ended"
    OBVIOUS
  <2>. QED BY <2>1 DEF SettledInv, Truthful
<1>4. RowSettled'
  BY DEF SettledInv, RowSettled, Settlement, Breakdown
<1>. QED BY <1>1, <1>2, <1>3, <1>4

\* Recording the start writes that the fleet runs, or nothing.
LEMMA RecordsRunning ==
  ASSUME SettledInv, RecordStart
  PROVE  row' = row \/ row' = [status |-> "running", nodes |-> <<>>]
<1>1. row' \in {row, [row EXCEPT !.status = "running"]}
  BY DEF RecordStart
<1>2. row = [status |-> row.status, nodes |-> <<>>]
  BY DEF RecordStart, SettledInv, Laid, RowSettled
<1>3. [row EXCEPT !.status = "running"] = [status |-> "running", nodes |-> <<>>]
  BY <1>2
<1>. QED BY <1>1, <1>3

\* The layers are computed: a node is as deep as its longest way down.
LEMMA LayersSettled ==
  ASSUME SettledInv, TopoLayers
  PROVE  Laid' /\ Queued' /\ Truthful' /\ RowSettled'
<1>1. CASE worktrees /\ ValidatePlan(plan)
  <2>1. /\ pc = "plan" /\ pc' = "base" /\ WellFormed(plan) /\ IsDepth(plan, depth')
        /\ UNCHANGED <<plan, layer, started, results, order, child, future, cancelled, outcome, row>>
    BY <1>1 DEF TopoLayers, Depths, ValidatePlan
  <2>2. outcome = "running" /\ layer = 0 /\ row.status \notin {"succeeded", "failed"}
    BY <2>1 DEF SettledInv, Laid, RowSettled
  <2>3. Laid'
    BY <2>1, <2>2 DEF SettledInv, Laid, Over, WellFormed, IsDepth
  <2>4. Queued'
    <3>1. Settled' = Settled
      BY <2>1 DEF Settled
    <3>. QED BY <2>1, <2>2, <3>1 DEF SettledInv, Queued, Enumerates, Over
  <2>5. Truthful'
    BY <2>1, <2>2 DEF SettledInv, Truthful
  <2>6. RowSettled'
    BY <2>1, <2>2 DEF SettledInv, RowSettled
  <2>. QED BY <2>3, <2>4, <2>5, <2>6
<1>2. CASE ~(worktrees /\ ValidatePlan(plan))
  <2>1. /\ UNCHANGED <<plan, depth, layer, started, results, order, child, future, cancelled, row>>
        /\ pc = "plan" /\ pc' = "settle" /\ outcome' = "failed"
    BY <1>2 DEF TopoLayers, Return
  <2>2. outcome = "running" /\ row.status \notin {"succeeded", "failed"}
    BY <2>1 DEF SettledInv, Laid, RowSettled
  <2>. QED BY <2>1, <2>2, QuietSettled
<1>. QED BY <1>1, <1>2

\* A layer is entered: what it skips settles, what it runs is waited for.
LEMMA StartSettled ==
  ASSUME SettledInv, StartLayer
  PROVE  Laid' /\ Queued' /\ Truthful' /\ RowSettled'
<1>. DEFINE skipped == {n \in LayerNodes(layer) : blockingDependency(n)}
            run     == LayerNodes(layer) \ skipped
<1>1. /\ pc = "layer" /\ pc' = "await"
      /\ UNCHANGED <<plan, layer, depth, cancelled, outcome, row>>
      /\ results' = [n \in plan.nodes |-> IF n \in skipped THEN "skipped" ELSE results[n]]
      /\ order' = order \o Sorted(skipped)
      /\ started' = Sorted(run)
      /\ child' = [n \in plan.nodes |-> IF n \in run /\ ~cancelled THEN "seeding"
                                                                   ELSE child[n]]
      /\ future' = [n \in plan.nodes |->
                      IF n \in run THEN IF cancelled THEN "failed" ELSE "pending"
                                   ELSE future[n]]
  BY DEF StartLayer
<1>2. /\ outcome = "running" /\ row.status \notin {"succeeded", "failed"}
      /\ WellFormed(plan) /\ IsDepth(plan, depth) /\ layer \in Nat
      /\ \A n \in plan.nodes : depth[n] \in Nat
  BY <1>1 DEF SettledInv, ReviewedInv, FleetTypes, Laid, RowSettled
<1>3. plan.nodes \subseteq Nat /\ IsFiniteSet(plan.nodes)
  <2>1. plan.nodes \in SUBSET NodeIDs
    BY DEF SettledInv, Laid, Plans, PlansOver
  <2>. QED BY <2>1, NodeAssumption, FS_Subset
<1>4. /\ skipped \subseteq plan.nodes /\ run \subseteq plan.nodes /\ skipped \cap run = {}
      /\ skipped \cup run = {n \in plan.nodes : depth[n] = layer}
  BY DEF LayerNodes
<1>5. \A n \in run : \A d \in plan.deps[n] : results[d] = "succeeded"
  BY DEF LayerNodes, blockingDependency
<1>6. \A n \in skipped : \E d \in plan.deps[n] : results[d] \notin {"succeeded", Unsettled}
  <2>. SUFFICES ASSUME NEW n \in skipped
                PROVE  \E d \in plan.deps[n] : results[d] \notin {"succeeded", Unsettled}
    OBVIOUS
  <2>1. PICK d \in plan.deps[n] : results[d] # "succeeded"
    BY DEF blockingDependency
  <2>2. n \in plan.nodes /\ depth[n] = layer
    BY DEF LayerNodes
  <2>3. d \in plan.nodes /\ depth[d] < layer
    BY <1>2, <2>2 DEF WellFormed, IsDepth
  <2>4. results[d] # Unsettled
    BY <1>1, <2>3 DEF SettledInv, Queued, Settled
  <2>. QED BY <2>1, <2>4
<1>. HIDE DEF skipped, run
<1>7. \A n \in plan.nodes : depth[n] < layer <=> n \in Settled
  BY <1>1 DEF SettledInv, Queued
<1>8. \A n \in skipped \cup run : n \in plan.nodes /\ results[n] = Unsettled /\ future[n] = "none"
                                  /\ child[n] = "none" /\ depth[n] = layer
  <2>. SUFFICES ASSUME NEW n \in skipped \cup run
                PROVE  n \in plan.nodes /\ results[n] = Unsettled /\ future[n] = "none"
                       /\ child[n] = "none" /\ depth[n] = layer
    OBVIOUS
  <2>1. n \in plan.nodes /\ depth[n] = layer
    BY <1>4
  <2>2. ~(depth[n] < layer)
    BY <1>2, <2>1
  <2>. QED BY <1>1, <1>7, <2>1, <2>2 DEF Settled, SettledInv, ReviewedInv, LayerOrder
<1>9. Settled' = Settled \cup skipped
  BY <1>1, <1>4 DEF Settled, Unsettled
<1>10. Settled \cap skipped = {} /\ Settled \cap run = {}
  BY <1>8 DEF Settled
<1>11. Enumerates(Sorted(skipped), skipped) /\ Enumerates(Sorted(run), run)
  <2>1. skipped \subseteq Nat /\ IsFiniteSet(skipped)
    BY <1>3, <1>4, FS_Subset
  <2>2. run \subseteq Nat /\ IsFiniteSet(run)
    BY <1>3, <1>4, FS_Subset
  <2>. QED BY <2>1, <2>2, SortedEnumerates
<1>12. Waiting' = run
  <2>1. started' = Sorted(run)
    BY <1>1
  <2>2. Waiting' = {started'[i] : i \in 1..Len(started')}
    BY DEF Waiting
  <2>3. \A i \in 1..Len(Sorted(run)) : Sorted(run)[i] \in run
    BY <1>11, ElementOfSeq DEF Enumerates
  <2>. QED BY <1>11, <2>1, <2>2, <2>3 DEF Enumerates
<1>13. Laid'
  BY <1>1, <1>2 DEF SettledInv, Laid, Over, WellFormed, IsDepth
<1>14. Queued'
  <2>1. Enumerates(order, Settled)
    BY DEF SettledInv, Queued
  <2>2. Enumerates(order \o Sorted(skipped), Settled \cup skipped)
    BY <1>10, <1>11, <2>1, EnumerationsJoin
  <2>3. Enumerates(order, Settled)'
    BY <1>1, <1>9, <2>2
  <2>4. Enumerates(started, Waiting)'
    BY <1>1, <1>11, <1>12
  <2>5. \A n \in run : results'[n] = Unsettled /\ future'[n] # "none"
    BY <1>1, <1>4, <1>8
  <2>6. ASSUME NEW n \in plan.nodes
        PROVE  depth[n] <= layer <=> n \in (Settled \cup skipped) \cup run
    <3>1. depth[n] <= layer <=> (depth[n] < layer \/ depth[n] = layer)
      BY <1>2
    <3>2. depth[n] = layer <=> n \in skipped \cup run
      BY <1>4
    <3>. QED BY <1>7, <3>1, <3>2
  <2>. QED BY <1>1, <1>2, <1>4, <1>9, <1>12, <2>3, <2>4, <2>5, <2>6 DEF Queued, Over
<1>15. Truthful'
  <2>1. \A d \in plan.nodes : results[d] # Unsettled => results'[d] = results[d]
    BY <1>1, <1>8
  <2>2. ASSUME NEW n \in plan.nodes
        PROVE  /\ results'[n] = "skipped" =>
                    future'[n] = "none" /\ \E d \in plan.deps[n] : results'[d] \notin {"succeeded", Unsettled}
               /\ results'[n] \notin {"skipped", Unsettled} =>
                    results'[n] = future'[n] /\ future'[n] \notin {"none", "pending"}
               /\ future'[n] # "none" => \A d \in plan.deps[n] : results'[d] = "succeeded"
    <3>0. plan.deps[n] \subseteq plan.nodes
      BY <1>2 DEF WellFormed
    <3>1. CASE n \in skipped
      <4>1. results'[n] = "skipped" /\ future'[n] = "none"
        BY <1>1, <1>4, <1>8, <3>1
      <4>2. \E d \in plan.deps[n] : results'[d] \notin {"succeeded", Unsettled}
        BY <1>6, <2>1, <3>0, <3>1
      <4>. QED BY <4>1, <4>2
    <3>2. CASE n \in run
      <4>1. results'[n] = Unsettled
        BY <1>1, <1>4, <1>8, <3>2
      <4>2. \A d \in plan.deps[n] : results'[d] = "succeeded"
        BY <1>5, <2>1, <3>0, <3>2 DEF Unsettled
      <4>. QED BY <4>1, <4>2 DEF Unsettled
    <3>3. CASE n \notin skipped \cup run
      <4>1. results'[n] = results[n] /\ future'[n] = future[n]
        BY <1>1, <3>3
      <4>2. \A d \in plan.deps[n] : results[d] # Unsettled => results'[d] = results[d]
        BY <2>1, <3>0
      <4>3. /\ results[n] = "skipped" =>
                  future[n] = "none" /\ \E d \in plan.deps[n] : results[d] \notin {"succeeded", Unsettled}
            /\ results[n] \notin {"skipped", Unsettled} =>
                  results[n] = future[n] /\ future[n] \notin {"none", "pending"}
            /\ future[n] # "none" => \A d \in plan.deps[n] : results[d] = "succeeded"
        BY DEF SettledInv, Truthful
      <4>4. "succeeded" # Unsettled
        BY DEF Unsettled
      <4>. QED BY <4>1, <4>2, <4>3, <4>4
    <3>. QED BY <3>1, <3>2, <3>3
  <2>3. ~cancelled => \A n \in plan.nodes : future'[n] = IF child'[n] \in Live THEN "pending" ELSE child'[n]
    <3>. SUFFICES ASSUME ~cancelled, NEW n \in plan.nodes
                  PROVE  future'[n] = IF child'[n] \in Live THEN "pending" ELSE child'[n]
      OBVIOUS
    <3>1. CASE n \in run
      BY <1>1, <3>1 DEF Live
    <3>2. CASE n \notin run
      BY <1>1, <3>2 DEF SettledInv, Truthful
    <3>. QED BY <3>1, <3>2
  <2>. QED BY <1>1, <1>2, <2>2, <2>3 DEF Truthful
<1>16. RowSettled'
  BY <1>1, <1>2 DEF SettledInv, RowSettled
<1>. QED BY <1>13, <1>14, <1>15, <1>16

\* The first of those waited for settles, as its future resolved.
LEMMA AwaitSettled ==
  ASSUME SettledInv, AwaitChild
  PROVE  Laid' /\ Queued' /\ Truthful' /\ RowSettled'
<1>. DEFINE n == Head(started)
<1>1. /\ UNCHANGED <<plan, pc, layer, depth, child, future, cancelled, outcome, row>>
      /\ pc = "await" /\ started # <<>> /\ future[n] # "pending"
      /\ results' = [results EXCEPT ![n] = future[n]]
      /\ order' = Append(order, n) /\ started' = Tail(started)
  BY DEF AwaitChild
<1>2. /\ Enumerates(started, Waiting) /\ Waiting \subseteq plan.nodes
      /\ \A m \in Waiting : results[m] = Unsettled /\ future[m] # "none"
      /\ \A m \in plan.nodes : depth[m] <= layer <=> m \in Settled \cup Waiting
      /\ Enumerates(order, Settled)
  BY <1>1 DEF SettledInv, Queued
<1>3. n \in Waiting /\ Enumerates(Tail(started), Waiting \ {n})
  BY <1>1, <1>2, EnumerationShrinks
<1>. HIDE DEF n
<1>4. n \in plan.nodes /\ results[n] = Unsettled /\ future[n] \notin {"none", "pending"}
  BY <1>1, <1>2, <1>3
<1>5. /\ results'[n] = future[n] /\ future[n] \notin {"skipped", Unsettled}
      /\ \A m \in plan.nodes \ {n} : results'[m] = results[m]
  BY <1>1, <1>4 DEF SettledInv, ReviewedInv, FleetTypes, FutureStates, Unsettled
<1>6. Settled' = Settled \cup {n} /\ n \notin Settled
  BY <1>1, <1>4, <1>5 DEF Settled
<1>7. Waiting' = Waiting \ {n}
  <2>1. Waiting' = {Tail(started)[i] : i \in 1..Len(Tail(started))}
    BY <1>1 DEF Waiting
  <2>2. \A i \in 1..Len(Tail(started)) : Tail(started)[i] \in Waiting \ {n}
    BY <1>3, ElementOfSeq DEF Enumerates
  <2>. QED BY <1>3, <2>1, <2>2 DEF Enumerates
<1>8. outcome = "running" /\ row.status \notin {"succeeded", "failed"} /\ WellFormed(plan)
  BY <1>1 DEF SettledInv, Laid, RowSettled
<1>9. Laid'
  BY <1>1 DEF SettledInv, Laid, Over, WellFormed, IsDepth
<1>10. Queued'
  <2>1. Enumerates(order, Settled)'
    <3>1. Enumerates(Append(order, n), Settled \cup {n})
      BY <1>2, <1>6, EnumerationGrows
    <3>. QED BY <1>1, <1>6, <3>1
  <2>2. Enumerates(started, Waiting)'
    BY <1>1, <1>3, <1>7
  <2>3. \A m \in Waiting \ {n} : results'[m] = Unsettled /\ future[m] # "none"
    BY <1>2, <1>5
  <2>4. Settled \cup Waiting = (Settled \cup {n}) \cup (Waiting \ {n})
    BY <1>3
  <2>. QED BY <1>1, <1>2, <1>6, <1>7, <1>8, <2>1, <2>2, <2>3, <2>4 DEF Queued, Over
<1>11. Truthful'
  <2>1. \A d \in plan.nodes : results[d] # Unsettled => results'[d] = results[d]
    BY <1>4, <1>5
  <2>2. ASSUME NEW m \in plan.nodes
        PROVE  /\ results'[m] = "skipped" =>
                    future[m] = "none" /\ \E d \in plan.deps[m] : results'[d] \notin {"succeeded", Unsettled}
               /\ results'[m] \notin {"skipped", Unsettled} =>
                    results'[m] = future[m] /\ future[m] \notin {"none", "pending"}
               /\ future[m] # "none" => \A d \in plan.deps[m] : results'[d] = "succeeded"
    <3>0. plan.deps[m] \subseteq plan.nodes /\ "succeeded" # Unsettled
      BY <1>8 DEF WellFormed, Unsettled
    <3>1. /\ results[m] = "skipped" =>
               future[m] = "none" /\ \E d \in plan.deps[m] : results[d] \notin {"succeeded", Unsettled}
          /\ results[m] \notin {"skipped", Unsettled} =>
               results[m] = future[m] /\ future[m] \notin {"none", "pending"}
          /\ future[m] # "none" => \A d \in plan.deps[m] : results[d] = "succeeded"
      BY DEF SettledInv, Truthful
    <3>2. future[m] # "none" => \A d \in plan.deps[m] : results'[d] = "succeeded"
      BY <2>1, <3>0, <3>1
    <3>3. CASE m = n
      BY <1>4, <1>5, <3>2, <3>3
    <3>4. CASE m # n
      <4>1. results'[m] = results[m]
        BY <1>5, <3>4
      <4>2. results[m] = "skipped" =>
              \E d \in plan.deps[m] : results'[d] \notin {"succeeded", Unsettled}
        BY <2>1, <3>0, <3>1
      <4>. QED BY <3>1, <3>2, <4>1, <4>2
    <3>. QED BY <3>3, <3>4
  <2>. QED BY <1>1, <1>8, <2>2 DEF SettledInv, Truthful
<1>12. RowSettled'
  BY <1>1, <1>8 DEF SettledInv, RowSettled
<1>. QED BY <1>9, <1>10, <1>11, <1>12

\* With nobody left to wait for, the layer is complete.
LEMMA NextSettled ==
  ASSUME SettledInv, NextLayer
  PROVE  Laid' /\ Queued' /\ Truthful' /\ RowSettled'
<1>1. /\ UNCHANGED <<plan, depth, started, results, order, child, future, cancelled, outcome, row>>
      /\ pc = "await" /\ started = <<>> /\ layer' = layer + 1 /\ pc' = "layer"
  BY DEF NextLayer
<1>2. /\ layer \in Nat /\ \A n \in plan.nodes : depth[n] \in Nat
      /\ outcome = "running" /\ row.status \notin {"succeeded", "failed"}
  BY <1>1 DEF SettledInv, ReviewedInv, FleetTypes, Laid, RowSettled
<1>3. Waiting = {}
  BY <1>1 DEF Waiting
<1>4. Laid'
  BY <1>1, <1>2 DEF SettledInv, Laid, Over, WellFormed, IsDepth
<1>5. Queued'
  <2>1. Settled' = Settled
    BY <1>1 DEF Settled
  <2>2. \A n \in plan.nodes : depth[n] < layer + 1 <=> n \in Settled
    <3>1. \A n \in plan.nodes : depth[n] < layer + 1 <=> depth[n] <= layer
      BY <1>2
    <3>. QED BY <1>1, <1>3, <3>1 DEF SettledInv, Queued
  <2>. QED BY <1>1, <1>2, <2>1, <2>2 DEF SettledInv, Queued, Enumerates, Over
<1>6. Truthful'
  BY <1>1, <1>2 DEF SettledInv, Truthful
<1>7. RowSettled'
  BY <1>1, <1>2 DEF SettledInv, RowSettled
<1>. QED BY <1>4, <1>5, <1>6, <1>7

\* Where a layer is empty, no node is deeper: of the deeper ones, the highest
\* would have a dependency in the layer or above it.
LEMMA EmptyLayerIsLast ==
  ASSUME SettledInv, pc = "layer", LayerNodes(layer) = {}
  PROVE  Settled = plan.nodes
<1>. DEFINE deeper == {depth[n] : n \in {m \in plan.nodes : ~(depth[m] < layer)}}
<1>1. /\ layer \in Nat /\ \A n \in plan.nodes : depth[n] \in Nat
      /\ WellFormed(plan) /\ IsDepth(plan, depth)
  BY DEF SettledInv, ReviewedInv, FleetTypes, Laid
<1>2. deeper = {}
  <2>. SUFFICES ASSUME deeper # {} PROVE FALSE
    OBVIOUS
  <2>1. deeper \subseteq Nat
    BY <1>1
  <2>2. PICK low \in deeper : \A i \in deeper : low <= i
    <3>. HIDE DEF deeper
    <3>. QED BY <2>1, SmallestExists
  <2>3. PICK n \in plan.nodes : ~(depth[n] < layer) /\ depth[n] = low
    BY <2>2
  <2>4. depth[n] # layer
    BY <2>3 DEF LayerNodes
  <2>5. layer < depth[n] /\ depth[n] # 0
    BY <1>1, <2>3, <2>4
  <2>6. PICK d \in plan.deps[n] : depth[d] = depth[n] - 1
    BY <1>1, <2>3, <2>5 DEF IsDepth
  <2>7. d \in plan.nodes
    BY <1>1, <2>3 DEF WellFormed
  <2>8. ~(depth[d] < layer)
    BY <1>1, <2>3, <2>5, <2>6, <2>7
  <2>9. depth[d] \in deeper
    BY <2>7, <2>8
  <2>10. low <= depth[d]
    BY <2>2, <2>9
  <2>. QED BY <1>1, <2>3, <2>6, <2>7, <2>10
<1>3. \A n \in plan.nodes : depth[n] < layer
  BY <1>2
<1>. QED BY <1>3 DEF SettledInv, Queued, Settled

LEMMA FinishSettled ==
  ASSUME SettledInv, Finish
  PROVE  Laid' /\ Queued' /\ Truthful' /\ RowSettled'
<1>1. /\ UNCHANGED <<plan, depth, layer, started, results, order, child, future, cancelled, row>>
      /\ pc = "layer" /\ pc' = "settle" /\ LayerNodes(layer) = {}
      /\ outcome' = IF cancelled THEN "cancelled" ELSE "completed"
  BY DEF Finish, Return, runVars
<1>2. Settled = plan.nodes
  BY <1>1, EmptyLayerIsLast
<1>3. outcome = "running" /\ row.status \notin {"succeeded", "failed"}
  BY <1>1 DEF SettledInv, Laid, RowSettled
<1>4. Laid'
  BY <1>1 DEF SettledInv, Laid, Over, WellFormed, IsDepth
<1>5. Queued'
  <2>1. Settled' = Settled
    BY <1>1 DEF Settled
  <2>. QED BY <1>1, <1>2, <2>1 DEF SettledInv, Queued, Enumerates
<1>6. Truthful'
  <2>1. ~cancelled => \A n \in plan.nodes : future[n] = child[n] /\ child[n] \notin Live
    <3>. SUFFICES ASSUME ~cancelled, NEW n \in plan.nodes
                  PROVE  future[n] = child[n] /\ child[n] \notin Live
      OBVIOUS
    <3>1. future[n] = IF child[n] \in Live THEN "pending" ELSE child[n]
      BY <1>1 DEF SettledInv, Truthful
    <3>2. future[n] # "pending"
      BY <1>2 DEF SettledInv, Truthful, Settled
    <3>. QED BY <3>1, <3>2
  <2>. QED BY <1>1, <2>1 DEF SettledInv, Truthful
<1>7. RowSettled'
  BY <1>1, <1>3 DEF SettledInv, RowSettled
<1>. QED BY <1>4, <1>5, <1>6, <1>7

\* The terminal write, and the close that terminates what is still open.
LEMMA SettleSettled ==
  ASSUME SettledInv, Settle
  PROVE  Laid' /\ Queued' /\ Truthful' /\ RowSettled'
<1>1. /\ UNCHANGED <<plan, depth, layer, started, results, order, future, cancelled, outcome>>
      /\ pc = "settle" /\ pc' \in {"settle", "ended"} /\ row' \in {row, Settlement}
      /\ child' = [n \in plan.nodes |-> IF pc' = "ended" /\ child[n] \in Live THEN "terminated"
                                                                        ELSE child[n]]
  BY DEF Settle, runVars
<1>2. Laid'
  BY <1>1 DEF SettledInv, Laid, Over, WellFormed, IsDepth
<1>3. Queued'
  <2>1. Settled' = Settled
    BY <1>1 DEF Settled
  <2>. QED BY <1>1, <2>1 DEF SettledInv, Queued, Enumerates, Over
<1>4. Truthful'
  <2>1. outcome = "completed" => \A n \in plan.nodes : child'[n] = child[n]
    BY <1>1 DEF SettledInv, Truthful
  <2>2. pc' # "ended" => \A n \in plan.nodes : child'[n] = child[n]
    BY <1>1
  <2>. QED BY <1>1, <2>1, <2>2 DEF SettledInv, Truthful
<1>5. RowSettled'
  <2>1. Settlement' = Settlement
    BY <1>1 DEF Settlement, Breakdown
  <2>2. Settlement.status \in {"succeeded", "failed"}
    BY DEF Settlement
  <2>. QED BY <1>1, <2>1, <2>2 DEF SettledInv, RowSettled
<1>. QED BY <1>2, <1>3, <1>4, <1>5

\* A child that goes on or ends is waited for, or its future was given up.
LEMMA ChildSettled ==
  ASSUME SettledInv, NEW n \in plan.nodes, ChildStep(n) \/ ReviewEnds(n) \/ FutureCancelled(n)
  PROVE  Laid' /\ Queued' /\ Truthful' /\ RowSettled'
<1>1. UNCHANGED <<plan, pc, depth, layer, started, results, order, cancelled, outcome, row>>
  BY DEF ChildStep, ReviewEnds, FutureCancelled, runVars
<1>2. \A m \in plan.nodes \ {n} : child'[m] = child[m] /\ future'[m] = future[m]
  BY DEF ChildStep, ReviewEnds, FutureCancelled, EndChild, SettledInv, ReviewedInv, FleetTypes
<1>3. /\ future[n] # "pending" => future'[n] = future[n]
      /\ future[n] = "pending" => future'[n] # "none"
  BY DEF ChildStep, ReviewEnds, FutureCancelled, EndChild, SettledInv, ReviewedInv, FleetTypes
<1>4. \A m \in plan.nodes : /\ future'[m] = "none" <=> future[m] = "none"
                            /\ future[m] \notin {"none", "pending"} => future'[m] = future[m]
  BY <1>2, <1>3
<1>5. ~cancelled /\ (future[n] = IF child[n] \in Live THEN "pending" ELSE child[n])
                    => (future'[n] = IF child'[n] \in Live THEN "pending" ELSE child'[n])
  <2>1. CASE ChildStep(n)
    BY <2>1 DEF ChildStep, EndChild, Live, SettledInv, ReviewedInv, FleetTypes
  <2>2. CASE ReviewEnds(n)
    BY <2>2 DEF ReviewEnds, EndChild, Live, SettledInv, ReviewedInv, FleetTypes
  <2>3. CASE FutureCancelled(n)
    BY <2>3 DEF FutureCancelled
  <2>. QED BY <2>1, <2>2, <2>3
<1>6. outcome # "completed"
  <2>. SUFFICES ASSUME outcome = "completed" PROVE FALSE
    OBVIOUS
  <2>1. future[n] = child[n] /\ child[n] \notin Live /\ n \in Settled
    BY DEF SettledInv, Truthful, Queued, Over
  <2>2. future[n] # "pending"
    BY <2>1 DEF SettledInv, Truthful, Settled
  <2>. QED BY <2>1, <2>2 DEF ChildStep, ReviewEnds, FutureCancelled, Live
<1>7. Laid'
  BY <1>1 DEF SettledInv, Laid, Over, WellFormed, IsDepth
<1>8. Queued'
  <2>1. Settled' = Settled /\ Waiting' = Waiting
    BY <1>1 DEF Settled, Waiting
  <2>. QED BY <1>1, <1>4, <2>1 DEF SettledInv, Queued, Enumerates, Over
<1>9. Truthful'
  <2>1. ASSUME NEW m \in plan.nodes
        PROVE  /\ results[m] = "skipped" =>
                    future'[m] = "none" /\ \E d \in plan.deps[m] : results[d] \notin {"succeeded", Unsettled}
               /\ results[m] \notin {"skipped", Unsettled} =>
                    results[m] = future'[m] /\ future'[m] \notin {"none", "pending"}
               /\ future'[m] # "none" => \A d \in plan.deps[m] : results[d] = "succeeded"
    BY <1>4 DEF SettledInv, Truthful
  <2>2. ~cancelled /\ pc # "ended" =>
          \A m \in plan.nodes : future'[m] = IF child'[m] \in Live THEN "pending" ELSE child'[m]
    BY <1>2, <1>5 DEF SettledInv, Truthful
  <2>. QED BY <1>1, <1>6, <2>1, <2>2 DEF Truthful
<1>10. RowSettled'
  BY <1>1 DEF SettledInv, RowSettled, Settlement, Breakdown
<1>. QED BY <1>7, <1>8, <1>9, <1>10

\* Every step of the fleet, its children and its operator.
LEMMA NextKeepsSettled == SettledInv /\ [Next]_vars => SettledInv'
<1>. SUFFICES ASSUME SettledInv, [Next]_vars PROVE SettledInv'
  OBVIOUS
<1>1. ReviewedInv'
  BY NextKeepsReviewed DEF SettledInv
<1>2. Laid' /\ Queued' /\ Truthful' /\ RowSettled'
  <2>1. CASE RecordStart
    <3>1. outcome = "running" /\ row.status \notin {"succeeded", "failed"}
      BY <2>1 DEF RecordStart, SettledInv, Laid, RowSettled
    <3>2. row' = row \/ row' = [status |-> "running", nodes |-> <<>>]
      BY <2>1, RecordsRunning
    <3>3. \/ pc' = "plan" /\ outcome' = outcome
          \/ pc' = pc /\ outcome' = outcome
          \/ pc' = "ended" /\ outcome' = "failed"
      BY <2>1 DEF RecordStart
    <3>. QED BY <2>1, <3>1, <3>2, <3>3, QuietSettled DEF RecordStart, runVars
  <2>2. CASE TopoLayers
    BY <2>2, LayersSettled
  <2>3. CASE ResolveBase
    <3>1. outcome = "running" /\ row.status \notin {"succeeded", "failed"}
      BY <2>3 DEF ResolveBase, SettledInv, Laid, RowSettled
    <3>2. \/ pc' = "layer" /\ outcome' = outcome
          \/ pc' = pc /\ outcome' = outcome
          \/ pc' = "settle" /\ outcome' = "failed"
      BY <2>3 DEF ResolveBase, Return
    <3>. QED BY <2>3, <3>1, <3>2, QuietSettled DEF ResolveBase, runVars
  <2>4. CASE StartLayer
    BY <2>4, StartSettled
  <2>5. CASE AwaitChild
    BY <2>5, AwaitSettled
  <2>6. CASE NextLayer
    BY <2>6, NextSettled
  <2>7. CASE Finish
    BY <2>7, FinishSettled
  <2>8. CASE Settle
    BY <2>8, SettleSettled
  <2>9. CASE \E n \in plan.nodes : ChildStep(n) \/ ReviewEnds(n) \/ FutureCancelled(n)
    BY <2>9, ChildSettled
  <2>10. CASE Cancel
    <3>1. outcome' = "running" <=> pc' \in {"start", "plan", "base", "layer", "await"}
      BY <2>10 DEF Cancel, SettledInv, Laid
    <3>. QED BY <2>10, <3>1, QuietSettled DEF Cancel, runVars, SettledInv, Laid
  <2>11. CASE UNCHANGED vars
    <3>1. outcome' = "running" <=> pc' \in {"start", "plan", "base", "layer", "await"}
      BY <2>11 DEF vars, SettledInv, Laid
    <3>. QED BY <2>11, <3>1, QuietSettled DEF vars, runVars, SettledInv, Laid
  <2>. QED BY <2>1, <2>2, <2>3, <2>4, <2>5, <2>6, <2>7, <2>8, <2>9, <2>10, <2>11
       DEF Next, FleetStep, ChildrenStep, Ended
<1>. QED BY <1>1, <1>2 DEF SettledInv

LEMMA SettledHolds == Spec => []SettledInv
<1>1. Init => SettledInv
  BY InitReviewed, InitSettled DEF SettledRest, SettledInv
<1>. QED BY <1>1, NextKeepsSettled, PTL DEF Spec

\* Where the fleet returned completion, its results are its children's ends.
LEMMA SettledIsTrue == SettledInv => CompletedTellsTheTruth
<1>. SUFFICES ASSUME SettledInv, outcome = "completed"
              PROVE  /\ Len(order) = Cardinality(plan.nodes)
                     /\ \A n \in plan.nodes :
                          /\ \E i \in 1..Len(order) : order[i] = n
                          /\ IF \E d \in plan.deps[n] : results[d] # "succeeded"
                               THEN results[n] = "skipped" /\ child[n] = "none"
                               ELSE results[n] = child[n]
  BY DEF CompletedTellsTheTruth
<1>1. Settled = plan.nodes /\ Enumerates(order, plan.nodes)
  BY DEF SettledInv, Queued, Over
<1>2. Len(order) = Cardinality(plan.nodes)
  BY <1>1, EnumerationCounts
<1>3. \A n \in plan.nodes : \E i \in 1..Len(order) : order[i] = n
  BY <1>1 DEF Enumerates
<1>4. ASSUME NEW n \in plan.nodes
      PROVE  IF \E d \in plan.deps[n] : results[d] # "succeeded"
               THEN results[n] = "skipped" /\ child[n] = "none"
               ELSE results[n] = child[n]
  <2>1. future[n] = child[n] /\ results[n] # Unsettled
    BY <1>1 DEF SettledInv, Truthful, Settled
  <2>2. /\ results[n] = "skipped" =>
             future[n] = "none" /\ \E d \in plan.deps[n] : results[d] \notin {"succeeded", Unsettled}
        /\ results[n] \notin {"skipped", Unsettled} =>
             results[n] = future[n] /\ future[n] \notin {"none", "pending"}
        /\ future[n] # "none" => \A d \in plan.deps[n] : results[d] = "succeeded"
    BY DEF SettledInv, Truthful
  <2>. QED BY <2>1, <2>2
<1>. QED BY <1>2, <1>3, <1>4

\* A fleet that returns completion (FleetWorkflow's summary) reports every node
\* of its plan once, each as its child ended, and skipped exactly what stood
\* behind a node that did not succeed.
THEOREM CompletionIsTrue == Spec => []CompletedTellsTheTruth
  BY SettledIsTrue, SettledHolds, PTL

\* The row that settles a fleet's execution holds one line for every node of
\* the plan, as it settled, also for a fleet that was cancelled.
THEOREM RowIsWhole == Spec => []RowHoldsBreakdown
<1>1. SettledInv => RowHoldsBreakdown
  <2>. SUFFICES ASSUME SettledInv, row.status \in {"succeeded", "failed"}, outcome # "failed"
                PROVE  /\ Len(row.nodes) = Cardinality(plan.nodes)
                       /\ \A i \in 1..Len(row.nodes) : row.nodes[i].status = results[row.nodes[i].id]
    BY DEF RowHoldsBreakdown
  <2>1. row.nodes = Breakdown /\ Over
    BY DEF SettledInv, RowSettled, Settlement, Laid, Over
  <2>2. Enumerates(order, plan.nodes)
    BY <2>1 DEF SettledInv, Queued
  <2>3. Len(order) = Cardinality(plan.nodes) /\ Len(order) \in Nat
    BY <2>2, EnumerationCounts, LenProperties DEF Enumerates
  <2>4. Len(row.nodes) = Len(order)
    BY <2>1, <2>3 DEF Breakdown
  <2>5. \A i \in 1..Len(order) : row.nodes[i].status = results[row.nodes[i].id]
    BY <2>1 DEF Breakdown
  <2>. QED BY <2>3, <2>4, <2>5
<1>. QED BY <1>1, SettledHolds, PTL

-----------------------------------------------------------------------------
(* What the hub makes of a node's own execution.                           *)

\* One row is a list of one.
LEMMA OneRow ==
  ASSUME NEW e, e.start \in Int, e.run \in Int
  PROVE  NewestFirst({e}) = <<e>>
<1>1. ~newer(e, e)
  BY DEF newer
<1>2. Cardinality({e}) = 1 /\ Cardinality({o \in {e} : newer(o, e)}) = 0
  <2>1. {o \in {e} : newer(o, e)} = {}
    BY <1>1
  <2>. QED BY <2>1, FS_Singleton, FS_EmptySet
<1>3. \A i \in 1..1 :
        (CHOOSE r \in {e} : Cardinality({o \in {e} : newer(o, r)}) = i - 1) = e
  BY <1>2
<1>4. NewestFirst({e}) = [i \in 1..1 |-> e]
  BY <1>2, <1>3 DEF NewestFirst
<1>. QED BY <1>4

\* A list of one folds to one step.
LEMMA OneMerge ==
  ASSUME NEW chain, NEW e
  PROVE  FoldLeft(merge, chain, <<e>>) = merge(chain, e)
<1>. DEFINE Fold(f) == [s \in SUBSET (DOMAIN <<e>>) |->
                          IF s = {} THEN chain
                          ELSE merge(f[s \ {Max(s)}], <<e>>[Max(s)])]
            done == [s \in SUBSET (DOMAIN <<e>>) |-> IF s = {} THEN chain ELSE merge(chain, e)]
            fold == CHOOSE f : f = Fold(f)
<1>1. DOMAIN <<e>> = {1} /\ <<e>>[1] = e
  OBVIOUS
<1>2. Max({1}) = 1
  BY DEF Max
<1>3. \A s \in SUBSET (DOMAIN <<e>>) : s = {} \/ s = {1}
  BY <1>1
<1>4. Fold(done) = done
  <2>1. ASSUME NEW s \in SUBSET (DOMAIN <<e>>)
        PROVE  Fold(done)[s] = done[s]
    <3>1. CASE s = {}
      BY <3>1
    <3>2. CASE s = {1}
      <4>1. s \ {Max(s)} = {} /\ Max(s) = 1 /\ {} \in SUBSET (DOMAIN <<e>>) /\ s # {}
        BY <3>2, <1>2
      <4>2. done[s \ {Max(s)}] = chain
        BY <4>1
      <4>. QED BY <1>1, <4>1, <4>2
    <3>. QED BY <3>1, <3>2, <1>3
  <2>. QED BY <2>1
<1>5. fold = Fold(fold)
  <2>. HIDE DEF Fold, done
  <2>. QED BY <1>4
<1>6. FoldLeft(merge, chain, <<e>>) = fold[DOMAIN <<e>>]
  BY DEF FoldLeft, MapThenFoldSet
<1>7. fold[{}] = chain
  BY <1>5
<1>8. fold[{1}] = merge(chain, e)
  <2>1. {1} \ {Max({1})} = {} /\ {1} # {} /\ {1} \in SUBSET (DOMAIN <<e>>)
    BY <1>1, <1>2
  <2>2. fold[{1}] = merge(fold[{1} \ {Max({1})}], <<e>>[Max({1})])
    BY <1>5, <2>1
  <2>. QED BY <1>1, <1>2, <1>7, <2>1, <2>2
<1>. QED BY <1>1, <1>6, <1>8

\* The outcome of a child: what it ended as, where a child that was blocked
\* or terminated has no success.
Ran(c) == IF c \in Live THEN "running" ELSE IF c = "succeeded" THEN "succeeded" ELSE "failed"

Executed == {n \in plan.nodes : child[n] # "none"}

LEMMA ExecutionFields ==
  ASSUME NEW n, NEW out
  PROVE  /\ Execution(n, out).id = n /\ Execution(n, out).start = n /\ Execution(n, out).run = 1
         /\ Execution(n, out).outcome = out
  BY DEF Execution

LEMMA OwnOutcome ==
  ASSUME NEW n \in Executed, plan.nodes \subseteq Nat
  PROVE  nodeOutcome(n, Tree, RunningChildren, Known) = Ran(child[n])
<1>. DEFINE e == Execution(n, recordedOutcome(n))
            chain == FoldLeft(merge, noChain, NewestFirst(RowsOf(Tree, n)))
<1>1. n \in plan.nodes /\ child[n] # "none" /\ n \in Nat
  BY DEF Executed
<1>2. RowsOf(Tree, n) = {e}
  BY <1>1, ExecutionFields DEF RowsOf, Tree
<1>3. NewestFirst({e}) = <<e>>
  BY <1>1, ExecutionFields, OneRow
<1>4. chain.latest = e
  <2>1. merge(noChain, e).latest = e
    BY DEF merge, noChain
  <2>. HIDE DEF e
  <2>. QED BY <1>2, <1>3, <2>1, OneMerge
<1>5. e.outcome = recordedOutcome(n) /\ e.id = n
  BY ExecutionFields
<1>. HIDE DEF e, chain
<1>6. nodeOutcome(n, Tree, RunningChildren, Known) =
        IF n \in IdsOf(RunningChildren) THEN (CHOOSE x \in RunningChildren : x.id = n).outcome
        ELSE IF Running(e) THEN settle(e, Known).outcome ELSE e.outcome
  <2>1. nodeOutcome(n, Tree, RunningChildren, Known) =
          IF n \in IdsOf(RunningChildren) THEN (CHOOSE x \in RunningChildren : x.id = n).outcome
          ELSE IF Running(chain.latest) THEN settle(chain.latest, Known).outcome ELSE chain.latest.outcome
    BY DEF nodeOutcome, chain
  <2>. QED BY <1>4, <2>1
<1>7. n \in IdsOf(RunningChildren) <=> child[n] \in Live
  BY <1>1, ExecutionFields DEF IdsOf, RunningChildren
<1>8. CASE child[n] \in Live
  <2>1. \E x \in RunningChildren : x.id = n
    BY <1>7, <1>8 DEF IdsOf
  <2>2. \A x \in RunningChildren : x.id = n => x.outcome = "running"
    BY ExecutionFields DEF RunningChildren
  <2>. QED BY <1>6, <1>7, <1>8, <2>1, <2>2 DEF Ran
<1>9. CASE child[n] \notin Live
  <2>1. CASE child[n] \in {"succeeded", "failed", "blocked"}
    BY <2>1, <1>5, <1>6, <1>7, <1>9 DEF Ran, Running, recordedOutcome
  <2>2. CASE child[n] \notin {"succeeded", "failed", "blocked"}
    <3>1. Running(e)
      BY <2>2, <1>5 DEF Running, recordedOutcome
    <3>2. settle(e, Known).outcome = "failed"
      <4>1. e.id \in DOMAIN Known => Known[e.id].outcome = "failed"
        BY <2>2, <1>5, ExecutionFields DEF Known, Execution
      <4>2. CASE e.id \in DOMAIN Known
        BY <4>1, <4>2 DEF settle, e, Execution
      <4>3. CASE e.id \notin DOMAIN Known
        BY <4>3 DEF settle, e, Execution
      <4>. QED BY <4>2, <4>3
    <3>. QED BY <2>2, <3>1, <3>2, <1>6, <1>7, <1>9 DEF Ran
  <2>. QED BY <2>1, <2>2
<1>. QED BY <1>8, <1>9

-----------------------------------------------------------------------------
(* What the hub makes of the nodes' executions and of the breakdown.       *)

NodeOutcomes == nodeExecutions(breakdown, Tree, RunningChildren, Known)

LEMMA WhoExecuted == IdsOf(Tree) \cup IdsOf(RunningChildren) = Executed
<1>1. IdsOf(Tree) = Executed
  BY ExecutionFields DEF IdsOf, Tree, Executed
<1>2. IdsOf(RunningChildren) \subseteq Executed
  BY ExecutionFields DEF IdsOf, RunningChildren, Executed, Live
<1>. QED BY <1>1, <1>2

\* Without a breakdown each node goes by its own execution.
LEMMA OutcomesOfChildren ==
  ASSUME plan.nodes \subseteq Nat, row.nodes = <<>>
  PROVE  NodeOutcomes = [n \in Executed |-> Ran(child[n])]
<1>. DEFINE own == [n \in Executed |-> nodeOutcome(n, Tree, RunningChildren, Known)]
<1>1. DOMAIN breakdown = {}
  <2>1. 1..Len(row.nodes) = {}
    OBVIOUS
  <2>. QED BY <2>1 DEF breakdown, recordedBreakdown
<1>2. own = [n \in Executed |-> Ran(child[n])]
  BY OwnOutcome
<1>3. NodeOutcomes = [n \in Executed \cup DOMAIN breakdown |->
                    IF n \in DOMAIN breakdown /\ ~(n \in Executed /\ own[n] = "running")
                      THEN breakdown[n] ELSE own[n]]
  BY WhoExecuted DEF NodeOutcomes, nodeExecutions
<1>. HIDE DEF own
<1>. QED BY <1>1, <1>2, <1>3

\* With one, a fleet that completed shows each node as it settled.
LEMMA OutcomesOfBreakdown ==
  ASSUME SettledInv, outcome = "completed", row.nodes = Breakdown, plan.nodes \subseteq Nat
  PROVE  NodeOutcomes = results
<1>. DEFINE own == [n \in Executed |-> nodeOutcome(n, Tree, RunningChildren, Known)]
<1>1. Enumerates(order, plan.nodes)
  BY DEF SettledInv, Queued, Over
<1>2. /\ Len(order) \in Nat /\ \A i \in 1..Len(order) : order[i] \in plan.nodes
      /\ \A n \in plan.nodes : \E i \in 1..Len(order) : order[i] = n
  BY <1>1, ElementOfSeq, LenProperties DEF Enumerates
<1>3. /\ Len(row.nodes) = Len(order)
      /\ \A i \in 1..Len(order) : /\ row.nodes[i].id = order[i]
                                  /\ row.nodes[i].status = results[order[i]]
  BY <1>2 DEF Breakdown
<1>4. DOMAIN breakdown = plan.nodes
  BY <1>2, <1>3 DEF breakdown, recordedBreakdown
<1>5. ASSUME NEW n \in plan.nodes PROVE breakdown[n] = results[n]
  <2>1. breakdown[n] = row.nodes[CHOOSE i \in 1..Len(row.nodes) : row.nodes[i].id = n].status
    BY <1>4, <1>5 DEF breakdown, recordedBreakdown
  <2>2. \E i \in 1..Len(row.nodes) : row.nodes[i].id = n
    BY <1>2, <1>3
  <2>3. \A i \in 1..Len(row.nodes) : row.nodes[i].id = n => row.nodes[i].status = results[n]
    BY <1>3
  <2>. QED BY <2>1, <2>2, <2>3
<1>6. \A n \in Executed : own[n] # "running"
  <2>1. \A n \in Executed : own[n] = Ran(child[n])
    BY OwnOutcome
  <2>2. \A n \in Executed : child[n] \notin Live
    BY DEF SettledInv, Truthful, Executed
  <2>. HIDE DEF own
  <2>. QED BY <2>1, <2>2 DEF Ran
<1>7. NodeOutcomes = [n \in Executed \cup DOMAIN breakdown |->
                    IF n \in DOMAIN breakdown /\ ~(n \in Executed /\ own[n] = "running")
                      THEN breakdown[n] ELSE own[n]]
  BY WhoExecuted DEF NodeOutcomes, nodeExecutions
<1>8. Executed \cup DOMAIN breakdown = plan.nodes
  BY <1>4 DEF Executed
<1>9. DOMAIN results = plan.nodes /\ results = [n \in plan.nodes |-> results[n]]
  BY DEF SettledInv, ReviewedInv, FleetTypes
<1>. HIDE DEF own
<1>10. NodeOutcomes = [n \in plan.nodes |-> results[n]]
  BY <1>4, <1>5, <1>6, <1>7, <1>8
<1>. QED BY <1>9, <1>10

-----------------------------------------------------------------------------
(* The statuses derived from outcomes.                                     *)

\* The status of a node under the statuses of the others.
Told(p, outcomes, statuses, n) ==
  IF n \in DOMAIN outcomes THEN WorkStatus(outcomes[n])
  ELSE IF n \notin dependencyOrder(p) THEN "waiting"
  ELSE statusFromDependencies(p, [d \in p.deps[n] \cap p.nodes |-> statuses[d]], n)

\* It depends on no others than those the node runs after.
LEMMA ToldByDependencies ==
  ASSUME NEW p, NEW outcomes, NEW n, NEW f, NEW g,
         \A d \in p.deps[n] \cap p.nodes : f[d] = g[d]
  PROVE  Told(p, outcomes, f, n) = Told(p, outcomes, g, n)
<1>1. [d \in p.deps[n] \cap p.nodes |-> f[d]] = [d \in p.deps[n] \cap p.nodes |-> g[d]]
  OBVIOUS
<1>. QED BY <1>1 DEF Told

\* In a valid plan every node has its place.
LEMMA EveryNodeIsPlaced ==
  ASSUME NEW p, WellFormed(p), NEW deep \in [p.nodes -> Nat], IsDepth(p, deep)
  PROVE  dependencyOrder(p) = p.nodes
<1>. DEFINE Closed(placed) == \A n \in p.nodes : p.deps[n] \cap p.nodes \subseteq placed => n \in placed
<1>1. ASSUME NEW placed \in SUBSET p.nodes, Closed(placed), NEW n \in p.nodes, n \notin placed
      PROVE  FALSE
  <2>. DEFINE missing == {deep[m] : m \in p.nodes \ placed}
  <2>1. missing \subseteq Nat /\ missing # {}
    BY <1>1
  <2>2. PICK low \in missing : \A i \in missing : low <= i
    <3>. HIDE DEF missing
    <3>. QED BY <2>1, SmallestExists
  <2>3. PICK m \in p.nodes \ placed : deep[m] = low
    BY <2>2
  <2>4. PICK d \in p.deps[m] \cap p.nodes : d \notin placed
    BY <1>1, <2>3
  <2>5. deep[d] < deep[m] /\ deep[d] \in missing
    BY <2>3, <2>4 DEF IsDepth
  <2>6. deep[d] \in Nat /\ deep[m] \in Nat /\ deep[m] <= deep[d]
    BY <2>2, <2>3, <2>4, <2>5
  <2>. QED BY <2>5, <2>6
<1>2. dependencyOrder(p) =
        {n \in p.nodes : \A placed \in SUBSET p.nodes : Closed(placed) => n \in placed}
  BY DEF dependencyOrder
<1>. HIDE DEF Closed
<1>. QED BY <1>1, <1>2

\* The derivation reaches every node of a valid plan, layer by layer.
LEMMA DerivationExists ==
  ASSUME NEW p, IsFiniteSet(p.nodes), WellFormed(p), NEW deep \in Depths(p), NEW outcomes
  PROVE  \E f : f = [n \in p.nodes |-> Told(p, outcomes, f, n)]
<1>. DEFINE Upto(f, k) == \A n \in p.nodes : deep[n] < k => f[n] = Told(p, outcomes, f, n)
            From(f)    == [n \in p.nodes |-> Told(p, outcomes, f, n)]
            stuck      == {k \in Nat : ~ \E f : f = [n \in p.nodes |-> f[n]] /\ Upto(f, k)}
<1>1. /\ Cardinality(p.nodes) \in Nat /\ IsDepth(p, deep)
      /\ \A n \in p.nodes : deep[n] \in Nat /\ deep[n] < Cardinality(p.nodes)
      /\ \A n \in p.nodes : p.deps[n] \subseteq p.nodes
  <2>1. Cardinality(p.nodes) \in Nat
    BY FS_CardinalityType
  <2>2. deep \in [p.nodes -> 0..(Cardinality(p.nodes) - 1)]
    BY DEF Depths
  <2>. QED BY <2>1, <2>2 DEF Depths, WellFormed
<1>2. 0 \notin stuck
  <2>. DEFINE f == [n \in p.nodes |-> "waiting"]
  <2>1. Upto(f, 0)
    BY <1>1
  <2>. QED BY <2>1
<1>3. ASSUME NEW k \in Nat, k \notin stuck PROVE k + 1 \notin stuck
  <2>1. PICK f : f = [n \in p.nodes |-> f[n]] /\ Upto(f, k)
    BY <1>3
  <2>. DEFINE g == From(f)
  <2>2. ASSUME NEW n \in p.nodes, deep[n] < k + 1 PROVE g[n] = Told(p, outcomes, g, n)
    <3>1. ASSUME NEW d \in p.deps[n] \cap p.nodes PROVE f[d] = g[d]
      <4>1. deep[d] < deep[n] /\ deep[d] \in Nat /\ deep[n] \in Nat
        BY <1>1 DEF IsDepth
      <4>2. deep[d] < k
        BY <2>2, <4>1
      <4>. QED BY <2>1, <4>2
    <3>2. g[n] = Told(p, outcomes, f, n)
      OBVIOUS
    <3>. HIDE DEF g
    <3>. QED BY <3>1, <3>2, ToldByDependencies
  <2>3. g = [n \in p.nodes |-> g[n]]
    OBVIOUS
  <2>. HIDE DEF g
  <2>. QED BY <2>2, <2>3
<1>4. stuck = {}
  <2>. SUFFICES ASSUME stuck # {} PROVE FALSE
    OBVIOUS
  <2>1. stuck \subseteq Nat
    OBVIOUS
  <2>. HIDE DEF stuck
  <2>2. PICK low \in stuck : \A i \in stuck : low <= i
    BY <2>1, SmallestExists
  <2>3. low \in Nat /\ low # 0
    BY <1>2, <2>1
  <2>4. low - 1 \in Nat /\ low - 1 \notin stuck /\ (low - 1) + 1 = low
    BY <2>1, <2>2, <2>3
  <2>. QED BY <1>3, <2>2, <2>4
<1>5. PICK f : f = [n \in p.nodes |-> f[n]] /\ Upto(f, Cardinality(p.nodes))
  BY <1>1, <1>4
<1>6. \A n \in p.nodes : f[n] = Told(p, outcomes, f, n)
  BY <1>1, <1>5
<1>. QED BY <1>5, <1>6

\* What DeriveNodeStatuses says of a node.
LEMMA Derived ==
  ASSUME NEW p, IsFiniteSet(p.nodes), WellFormed(p), NEW deep \in Depths(p), NEW outcomes,
         NEW n \in p.nodes
  PROVE  LET statuses == DeriveNodeStatuses(p, outcomes)
             of(d)    == statuses[d]
         IN  IF n \in DOMAIN outcomes THEN statuses[n] = WorkStatus(outcomes[n])
             ELSE IF \E d \in p.deps[n] : of(d) \in NotSucceeding THEN statuses[n] = "paused"
             ELSE IF \A d \in p.deps[n] : of(d) = "done" THEN statuses[n] = "todo"
             ELSE statuses[n] = "waiting"
<1>. DEFINE statuses == DeriveNodeStatuses(p, outcomes)
            From(f) == [m \in p.nodes |-> Told(p, outcomes, f, m)]
            derived == CHOOSE f : f = From(f)
<1>1. derived = From(derived)
  <2>1. \E f : f = From(f)
    BY DerivationExists
  <2>. HIDE DEF From
  <2>. QED BY <2>1
<1>2. statuses = derived
  BY DEF DeriveNodeStatuses, Told
<1>. HIDE DEF statuses, derived
<1>3. statuses[n] = Told(p, outcomes, statuses, n)
  BY <1>1, <1>2
<1>4. n \in dependencyOrder(p) /\ p.deps[n] \subseteq p.nodes
  <2>1. deep \in [p.nodes -> Nat] /\ IsDepth(p, deep)
    <3>1. Cardinality(p.nodes) \in Nat
      BY FS_CardinalityType
    <3>. QED BY <3>1 DEF Depths
  <2>. QED BY <2>1, EveryNodeIsPlaced DEF WellFormed
<1>5. n \notin DOMAIN outcomes =>
        statuses[n] = statusFromDependencies(p, [d \in p.deps[n] \cap p.nodes |-> statuses[d]], n)
  BY <1>3, <1>4 DEF Told
<1>6. p.deps[n] \cap p.nodes = p.deps[n]
  BY <1>4
<1>7. n \notin DOMAIN outcomes =>
        statuses[n] = IF \E d \in p.deps[n] : statuses[d] \in NotSucceeding THEN "paused"
                      ELSE IF \A d \in p.deps[n] : statuses[d] = "done" THEN "todo" ELSE "waiting"
  BY <1>5, <1>6 DEF statusFromDependencies
<1>8. n \in DOMAIN outcomes => statuses[n] = WorkStatus(outcomes[n])
  BY <1>3 DEF Told
<1>. QED BY <1>7, <1>8 DEF statuses

\* The statuses of a valid plan move on as its outcomes do: what is told from
\* other nodes is told anew, and what is told from a node's own execution
\* replaces what was told from others.
LEMMA StatusesMoveOn ==
  ASSUME NEW p, IsFiniteSet(p.nodes), WellFormed(p), NEW deep \in Depths(p),
         NEW before, NEW after, DOMAIN before \subseteq DOMAIN after,
         \A n \in p.nodes \cap DOMAIN before :
            WorkStatus(after[n]) \in Becomes(WorkStatus(before[n])),
         \A n \in p.nodes \cap (DOMAIN after \ DOMAIN before) :
            WorkStatus(after[n]) \in Becomes(DeriveNodeStatuses(p, before)[n])
  PROVE  \A n \in p.nodes :
            DeriveNodeStatuses(p, after)[n] \in Becomes(DeriveNodeStatuses(p, before)[n])
<1>. DEFINE old == DeriveNodeStatuses(p, before)
            new == DeriveNodeStatuses(p, after)
            strays == {deep[n] : n \in {m \in p.nodes : new[m] \notin Becomes(old[m])}}
<1>1. /\ \A n \in p.nodes : deep[n] \in Nat /\ p.deps[n] \subseteq p.nodes
      /\ IsDepth(p, deep)
  <2>1. Cardinality(p.nodes) \in Nat
    BY FS_CardinalityType
  <2>. QED BY <2>1 DEF Depths, WellFormed
<1>2. \A n \in p.nodes :
        /\ n \in DOMAIN before => old[n] = WorkStatus(before[n])
        /\ n \in DOMAIN after => new[n] = WorkStatus(after[n])
        /\ n \notin DOMAIN before =>
             old[n] = IF \E d \in p.deps[n] : old[d] \in NotSucceeding THEN "paused"
                      ELSE IF \A d \in p.deps[n] : old[d] = "done" THEN "todo" ELSE "waiting"
        /\ n \notin DOMAIN after =>
             new[n] = IF \E d \in p.deps[n] : new[d] \in NotSucceeding THEN "paused"
                      ELSE IF \A d \in p.deps[n] : new[d] = "done" THEN "todo" ELSE "waiting"
  <2>. TAKE n \in p.nodes
  <2>1. IF n \in DOMAIN before THEN old[n] = WorkStatus(before[n])
        ELSE IF \E d \in p.deps[n] : old[d] \in NotSucceeding THEN old[n] = "paused"
        ELSE IF \A d \in p.deps[n] : old[d] = "done" THEN old[n] = "todo"
        ELSE old[n] = "waiting"
    BY Derived
  <2>2. IF n \in DOMAIN after THEN new[n] = WorkStatus(after[n])
        ELSE IF \E d \in p.deps[n] : new[d] \in NotSucceeding THEN new[n] = "paused"
        ELSE IF \A d \in p.deps[n] : new[d] = "done" THEN new[n] = "todo"
        ELSE new[n] = "waiting"
    BY Derived
  <2>. HIDE DEF old, new
  <2>. QED BY <2>1, <2>2
<1>3. \A n \in p.nodes \cap (DOMAIN after \ DOMAIN before) : WorkStatus(after[n]) \in Becomes(old[n])
  OBVIOUS
<1>. HIDE DEF old, new
<1>4. ASSUME NEW n \in p.nodes, n \notin DOMAIN after,
             \A d \in p.deps[n] : new[d] \in Becomes(old[d])
      PROVE  new[n] \in Becomes(old[n])
  <2>1. CASE \E d \in p.deps[n] : old[d] \in NotSucceeding
    <3>1. PICK d \in p.deps[n] : old[d] \in NotSucceeding
      BY <2>1
    <3>2. new[d] \in NotSucceeding
      BY <1>4, <3>1 DEF NotSucceeding, Becomes
    <3>. QED BY <1>2, <1>4, <2>1, <3>2 DEF Becomes
  <2>2. CASE /\ ~ \E d \in p.deps[n] : old[d] \in NotSucceeding
             /\ \A d \in p.deps[n] : old[d] = "done"
    <3>1. \A d \in p.deps[n] : new[d] = "done"
      BY <1>4, <2>2 DEF Becomes
    <3>. QED BY <1>2, <1>4, <2>2, <3>1 DEF Becomes, NotSucceeding
  <2>3. CASE /\ ~ \E d \in p.deps[n] : old[d] \in NotSucceeding
             /\ ~ \A d \in p.deps[n] : old[d] = "done"
    <3>1. old[n] = "waiting"
      BY <1>2, <1>4, <2>3
    <3>2. new[n] \in {"paused", "todo", "waiting"}
      BY <1>2, <1>4
    <3>. QED BY <3>1, <3>2 DEF Becomes
  <2>. QED BY <2>1, <2>2, <2>3
<1>5. \A n \in p.nodes : n \in DOMAIN after => new[n] \in Becomes(old[n])
  BY <1>2, <1>3
<1>6. strays = {}
  <2>. SUFFICES ASSUME strays # {} PROVE FALSE
    OBVIOUS
  <2>1. strays \subseteq Nat
    BY <1>1
  <2>2. PICK low \in strays : \A i \in strays : low <= i
    <3>. HIDE DEF strays
    <3>. QED BY <2>1, SmallestExists
  <2>3. PICK n \in p.nodes : deep[n] = low /\ new[n] \notin Becomes(old[n])
    BY <2>2
  <2>4. PICK d \in p.deps[n] : new[d] \notin Becomes(old[d])
    BY <1>4, <1>5, <2>3
  <2>5. d \in p.nodes /\ deep[d] \in strays /\ deep[d] < deep[n]
    BY <1>1, <2>4 DEF IsDepth
  <2>6. deep[d] \in Nat /\ deep[n] \in Nat /\ deep[n] <= deep[d]
    BY <1>1, <2>2, <2>3, <2>5
  <2>. QED BY <2>5, <2>6
<1>. QED BY <1>6 DEF old, new

-----------------------------------------------------------------------------
(* What more holds of a fleet that is looked at.                           *)

\* Nothing ran in a fleet that failed, no child outlives the fleet, and a
\* fleet that returned its cancellation was asked to.
Orderly ==
  /\ pc \in {"base", "layer", "await"} \/ Over => depth \in Depths(plan)
  /\ pc = "ended" => \A n \in plan.nodes : child[n] \notin Live
  /\ outcome = "cancelled" => cancelled
  /\ outcome = "failed" => \A n \in plan.nodes : child[n] = "none"

ViewInv == SettledInv /\ Orderly

LEMMA InitOrderly == Init => Orderly
  BY DEF Init, Orderly, Over

LEMMA NextKeepsOrderly == SettledInv /\ Orderly /\ [Next]_vars => Orderly'
<1>. SUFFICES ASSUME SettledInv, Orderly, [Next]_vars PROVE Orderly'
  OBVIOUS
<1>1. /\ pc \in {"start", "plan", "base"} => \A n \in plan.nodes : child[n] = "none"
      /\ outcome = "running" <=> pc \in {"start", "plan", "base", "layer", "await"}
  BY DEF SettledInv, ReviewedInv, LayerOrder, Laid
<1>2. "none" \notin Live /\ "terminated" \notin Live
  BY DEF Live
<1>3. CASE RecordStart
  BY <1>1, <1>2, <1>3 DEF RecordStart, Orderly, Over, runVars
<1>4. CASE TopoLayers
  BY <1>1, <1>2, <1>4 DEF TopoLayers, Orderly, Over, Return, runVars
<1>5. CASE ResolveBase
  BY <1>1, <1>2, <1>5 DEF ResolveBase, Orderly, Over, Return, runVars
<1>6. CASE StartLayer
  <2>1. pc = "layer" /\ pc' = "await" /\ UNCHANGED <<plan, depth, outcome>>
    BY <1>6 DEF StartLayer
  <2>. QED BY <1>1, <2>1 DEF Orderly, Over
<1>7. CASE AwaitChild
  BY <1>1, <1>7 DEF AwaitChild, Orderly, Over
<1>8. CASE NextLayer
  BY <1>1, <1>8 DEF NextLayer, Orderly, Over
<1>9. CASE Finish
  BY <1>1, <1>9 DEF Finish, Orderly, Over, Return, runVars
<1>10. CASE Settle
  <2>1. /\ pc = "settle" /\ pc' \in {"settle", "ended"}
        /\ UNCHANGED <<plan, depth, cancelled, outcome>>
        /\ child' = [n \in plan.nodes |-> IF pc' = "ended" /\ child[n] \in Live THEN "terminated"
                                                                          ELSE child[n]]
    BY <1>10 DEF Settle, runVars
  <2>2. \A n \in plan.nodes : /\ pc' = "ended" => child'[n] \notin Live
                              /\ child[n] = "none" => child'[n] = "none"
    BY <1>2, <2>1
  <2>. QED BY <2>1, <2>2 DEF Orderly, Over
<1>11. CASE \E n \in plan.nodes : ChildStep(n) \/ ReviewEnds(n)
  <2>1. PICK n \in plan.nodes : ChildStep(n) \/ ReviewEnds(n)
    BY <1>11
  <2>2. child[n] \in Live /\ UNCHANGED <<plan, pc, depth, cancelled, outcome>>
    BY <2>1 DEF ChildStep, ReviewEnds, Live, runVars
  <2>3. pc # "ended" /\ outcome # "failed"
    BY <1>2, <2>2 DEF Orderly
  <2>. QED BY <2>2, <2>3 DEF Orderly, Over
<1>12. CASE \E n \in plan.nodes : FutureCancelled(n)
  BY <1>12 DEF FutureCancelled, Orderly, Over, runVars
<1>13. CASE Cancel
  BY <1>13 DEF Cancel, Orderly, Over, runVars
<1>14. CASE UNCHANGED vars
  BY <1>14 DEF vars, Orderly, Over, runVars
<1>. QED BY <1>3, <1>4, <1>5, <1>6, <1>7, <1>8, <1>9, <1>10, <1>11, <1>12, <1>13, <1>14
         DEF Next, FleetStep, ChildrenStep, Ended

LEMMA ViewHolds == Spec => []ViewInv
<1>1. ViewInv /\ [Next]_vars => ViewInv'
  BY NextKeepsSettled, NextKeepsOrderly DEF ViewInv
<1>2. Init => ViewInv
  BY InitReviewed, InitSettled, InitOrderly DEF SettledRest, SettledInv, ViewInv
<1>. QED BY <1>1, <1>2, PTL DEF Spec

-----------------------------------------------------------------------------
(* What is published of one state.                                         *)

Shown == DeriveNodeStatuses(plan, NodeOutcomes)

\* Nodes are shown once the row carries the plan.
LEMMA PublishedNodes ==
  Published.nodes # <<>> => row.status # "none" /\ plan.nodes # {}
<1>1. CASE planFor.nodes = {}
  BY <1>1 DEF Published, buildFleet
<1>2. CASE planFor.nodes # {}
  <2>1. row.status # "none"
    BY <1>2 DEF planFor
  <2>. QED BY <1>2, <2>1 DEF planFor
<1>. QED BY <1>1, <1>2

LEMMA PublishedIsShown ==
  row.status # "none" /\ plan.nodes # {} => Published.nodes = Shown
<1>. SUFFICES ASSUME row.status # "none", plan.nodes # {} PROVE Published.nodes = Shown
  OBVIOUS
<1>1. planFor = plan
  BY DEF planFor
<1>. QED BY <1>1 DEF Published, buildFleet, Shown, NodeOutcomes

\* A fleet that runs is not shown done.
LEMMA RunningIsNotDone == pc # "ended" => Published.status # "done"
<1>. SUFFICES ASSUME pc # "ended" PROVE Published.status # "done"
  OBVIOUS
<1>1. Execution(0, parentOutcome).outcome = "running"
  BY ExecutionFields DEF parentOutcome
<1>2. CASE planFor.nodes = {}
  BY <1>1, <1>2 DEF Published, buildFleet, WorkStatus
<1>3. CASE planFor.nodes # {}
  <2>. DEFINE parent == Execution(0, parentOutcome)
              statuses == DeriveNodeStatuses(planFor, NodeOutcomes)
  <2>1. Published.status = fleetStatus(parent, statuses)
    BY <1>3 DEF Published, buildFleet, NodeOutcomes
  <2>2. parent.outcome = "running"
    BY <1>1
  <2>. HIDE DEF parent, statuses
  <2>. QED BY <2>1, <2>2 DEF fleetStatus, Running
<1>. QED BY <1>2, <1>3

LEMMA PlanIsFinite == SettledInv => IsFiniteSet(plan.nodes) /\ plan.nodes \subseteq Nat
<1>. SUFFICES ASSUME SettledInv PROVE IsFiniteSet(plan.nodes) /\ plan.nodes \subseteq Nat
  OBVIOUS
<1>1. plan.nodes \in SUBSET NodeIDs
  BY DEF SettledInv, Laid, Plans, PlansOver
<1>. QED BY <1>1, NodeAssumption, FS_Subset

\* The outcomes are those of the executions, or those of the breakdown of a
\* fleet that completed.
\* Either each node goes by its own execution, or each by the breakdown.
OwnSight == row.nodes = <<>> /\ NodeOutcomes = [n \in Executed |-> Ran(child[n])]

FullSight == row.nodes = Breakdown /\ outcome = "completed" /\ NodeOutcomes = results

LEMMA NodesSeen == ViewInv /\ ~cancelled => OwnSight \/ FullSight
<1>. SUFFICES ASSUME ViewInv, ~cancelled PROVE OwnSight \/ FullSight
  OBVIOUS
<1>1. SettledInv /\ plan.nodes \subseteq Nat
  BY PlanIsFinite DEF ViewInv
<1>2. CASE row.nodes = <<>>
  BY <1>1, <1>2, OutcomesOfChildren DEF OwnSight
<1>3. CASE row.nodes # <<>>
  <2>1. row.status \in {"succeeded", "failed"}
    BY <1>1, <1>3 DEF SettledInv, RowSettled
  <2>2. row = Settlement /\ pc \in {"settle", "ended"}
    BY <1>1, <2>1 DEF SettledInv, RowSettled
  <2>3. row.nodes = Breakdown /\ outcome # "failed"
    BY <1>3, <2>2 DEF Settlement
  <2>4. outcome = "completed"
    <3>1. outcome \in {"cancelled", "completed"}
      BY <1>1, <2>2, <2>3 DEF SettledInv, Laid
    <3>2. outcome # "cancelled"
      BY DEF ViewInv, Orderly
    <3>. QED BY <3>1, <3>2
  <2>. QED BY <1>1, <2>3, <2>4, OutcomesOfBreakdown DEF FullSight
<1>. QED BY <1>2, <1>3

\* Once a fleet completed, every node ran to an end or was skipped.
LEMMA AllSettled ==
  ViewInv /\ outcome = "completed" =>
    /\ WellFormed(plan) /\ depth \in Depths(plan)
    /\ \A n \in plan.nodes :
         \/ child[n] \in {"succeeded", "failed", "blocked"} /\ results[n] = child[n]
         \/ /\ child[n] = "none" /\ results[n] = "skipped"
            /\ \E d \in plan.deps[n] : results[d] # "succeeded"
<1>. SUFFICES ASSUME ViewInv, outcome = "completed"
              PROVE  /\ WellFormed(plan) /\ depth \in Depths(plan)
                     /\ \A n \in plan.nodes :
                          \/ child[n] \in {"succeeded", "failed", "blocked"} /\ results[n] = child[n]
                          \/ /\ child[n] = "none" /\ results[n] = "skipped"
                             /\ \E d \in plan.deps[n] : results[d] # "succeeded"
  OBVIOUS
<1>1. WellFormed(plan) /\ depth \in Depths(plan)
  BY DEF ViewInv, Orderly, Over, SettledInv, Laid
<1>2. ASSUME NEW n \in plan.nodes
      PROVE  \/ child[n] \in {"succeeded", "failed", "blocked"} /\ results[n] = child[n]
             \/ /\ child[n] = "none" /\ results[n] = "skipped"
                /\ \E d \in plan.deps[n] : results[d] # "succeeded"
  <2>1. Settled = plan.nodes /\ future[n] = child[n] /\ child[n] \notin Live
    BY DEF ViewInv, SettledInv, Queued, Truthful, Over
  <2>2. /\ results[n] # Unsettled /\ child[n] \in FutureStates \cup Live \cup {"terminated"}
        /\ future[n] \in FutureStates
    BY <2>1 DEF Settled, ViewInv, SettledInv, ReviewedInv, FleetTypes
  <2>3. CASE results[n] = "skipped"
    <3>1. /\ future[n] = "none"
          /\ \E d \in plan.deps[n] : results[d] \notin {"succeeded", Unsettled}
      BY <2>3 DEF ViewInv, SettledInv, Truthful
    <3>. QED BY <2>1, <2>3, <3>1
  <2>4. CASE results[n] # "skipped"
    <3>1. results[n] = future[n] /\ future[n] \notin {"none", "pending"}
      BY <2>2, <2>4 DEF ViewInv, SettledInv, Truthful
    <3>. QED BY <2>1, <2>2, <3>1 DEF FutureStates
  <2>. QED BY <2>3, <2>4
<1>. QED BY <1>1, <1>2

\* A skipped node is shown paused, also where the breakdown is missing: behind
\* it stands a node that failed or is paused itself.
LEMMA SkippedArePaused ==
  ASSUME ViewInv, outcome = "completed",
         NodeOutcomes = [m \in Executed |-> Ran(child[m])],
         NEW n \in plan.nodes, child[n] = "none"
  PROVE  Shown[n] = "paused"
<1>. DEFINE lost == {depth[m] : m \in {k \in plan.nodes : child[k] = "none" /\ Shown[k] # "paused"}}
<1>1. /\ WellFormed(plan) /\ depth \in Depths(plan) /\ IsFiniteSet(plan.nodes)
      /\ \A m \in plan.nodes : depth[m] \in Nat /\ plan.deps[m] \subseteq plan.nodes
      /\ IsDepth(plan, depth)
  BY AllSettled, PlanIsFinite
     DEF ViewInv, SettledInv, ReviewedInv, FleetTypes, WellFormed, Depths
<1>2. ASSUME NEW m \in plan.nodes, child[m] = "none",
             \A d \in plan.deps[m] : child[d] = "none" => Shown[d] = "paused"
      PROVE  Shown[m] = "paused"
  <2>1. PICK d \in plan.deps[m] : results[d] # "succeeded"
    BY <1>2, AllSettled
  <2>2. Shown[d] \in NotSucceeding
    <3>1. CASE child[d] = "none"
      BY <1>2, <3>1 DEF NotSucceeding
    <3>2. CASE child[d] # "none"
      <4>1. d \in plan.nodes /\ child[d] \in {"failed", "blocked"} /\ d \in Executed
        BY <1>1, <2>1, <3>2, AllSettled DEF Executed
      <4>2. Shown[d] = WorkStatus("failed")
        BY <1>1, <4>1, Derived DEF Shown, Ran, Live
      <4>. QED BY <4>2 DEF WorkStatus, NotSucceeding
    <3>. QED BY <3>1, <3>2
  <2>3. m \notin DOMAIN NodeOutcomes
    BY <1>2 DEF Executed
  <2>4. (\E d_1 \in plan.deps[m] : Shown[d_1] \in NotSucceeding) => Shown[m] = "paused"
    BY <1>1, <2>3, Derived DEF Shown
  <2>. QED BY <2>2, <2>4
<1>3. lost = {}
  <2>. SUFFICES ASSUME lost # {} PROVE FALSE
    OBVIOUS
  <2>1. lost \subseteq Nat
    BY <1>1
  <2>2. PICK low \in lost : \A i \in lost : low <= i
    <3>. HIDE DEF lost
    <3>. QED BY <2>1, SmallestExists
  <2>3. PICK m \in plan.nodes : depth[m] = low /\ child[m] = "none" /\ Shown[m] # "paused"
    BY <2>2
  <2>4. PICK d \in plan.deps[m] : child[d] = "none" /\ Shown[d] # "paused"
    BY <1>2, <2>3
  <2>5. depth[d] \in lost /\ depth[d] < depth[m] /\ d \in plan.nodes
    BY <1>1, <2>3, <2>4 DEF IsDepth
  <2>. QED BY <1>1, <2>2, <2>3, <2>5
<1>. QED BY <1>3

\* So every node of a fleet that completed is shown as one nothing is left of.
AllConcluded == \A n \in plan.nodes : Shown[n] \in {"done", "failed", "paused", "waiting-input"}

LEMMA NothingToCome == ViewInv /\ ~cancelled /\ outcome = "completed" => AllConcluded
<1>. SUFFICES ASSUME ViewInv, ~cancelled, outcome = "completed", NEW n \in plan.nodes
              PROVE  Shown[n] \in {"done", "failed", "paused", "waiting-input"}
  BY DEF AllConcluded
<1>1. WellFormed(plan) /\ depth \in Depths(plan) /\ IsFiniteSet(plan.nodes)
  BY AllSettled, PlanIsFinite DEF ViewInv
<1>2. n \in DOMAIN NodeOutcomes => Shown[n] = WorkStatus(NodeOutcomes[n])
  BY <1>1, Derived DEF Shown
<1>3. CASE NodeOutcomes = results
  <2>1. n \in DOMAIN results /\ results[n] \in {"succeeded", "failed", "blocked", "skipped"}
    BY AllSettled DEF ViewInv, SettledInv, ReviewedInv, FleetTypes
  <2>. QED BY <1>2, <1>3, <2>1 DEF WorkStatus
<1>4. CASE NodeOutcomes = [m \in Executed |-> Ran(child[m])]
  <2>1. CASE child[n] = "none"
    BY <1>4, <2>1, SkippedArePaused
  <2>2. CASE child[n] # "none"
    <3>1. n \in Executed /\ Ran(child[n]) \in {"succeeded", "failed"}
      BY <2>2, AllSettled DEF Executed, Ran, Live
    <3>. QED BY <1>2, <1>4, <3>1 DEF WorkStatus
  <2>. QED BY <2>1, <2>2
<1>. QED BY <1>3, <1>4, NodesSeen DEF OwnSight, FullSight

-----------------------------------------------------------------------------
(* What is published from one state to the next.                           *)

LEMMA StaysItself == \A status : status \in Becomes(status)
  BY DEF Becomes

\* What is published of the nodes is told from the plan, the children and the
\* breakdown, and from nothing else.
LEMMA SameSight ==
  ASSUME UNCHANGED <<plan, child>>, row'.nodes = row.nodes
  PROVE  Shown' = Shown
<1>1. breakdown' = breakdown
  BY DEF breakdown, recordedBreakdown
<1>2. Tree' = Tree /\ RunningChildren' = RunningChildren /\ Known' = Known
  BY DEF Tree, recordedOutcome, RunningChildren, Known
<1>. QED BY <1>1, <1>2 DEF Shown, NodeOutcomes

LEMMA SeenNext == (ViewInv /\ ~cancelled => OwnSight \/ FullSight)'
  BY NodesSeen, PTL

LEMMA ConcludedNext == (ViewInv /\ ~cancelled /\ outcome = "completed" => AllConcluded)'
  BY NothingToCome, PTL

LEMMA PublishedNext ==
  /\ (Published.nodes # <<>> => row.status # "none" /\ plan.nodes # {})'
  /\ (row.status # "none" /\ plan.nodes # {} => Published.nodes = Shown)'
<1>1. (Published.nodes # <<>> => row.status # "none" /\ plan.nodes # {})'
  BY PublishedNodes, PTL
<1>2. (row.status # "none" /\ plan.nodes # {} => Published.nodes = Shown)'
  BY PublishedIsShown, PTL
<1>. QED BY <1>1, <1>2

\* The step of a child takes its own node on.
LEMMA ChildMovesOn ==
  ASSUME ViewInv, ViewInv', ~cancelled, ~cancelled',
         NEW c \in plan.nodes, ChildStep(c) \/ ReviewEnds(c)
  PROVE  \A n \in plan.nodes : Shown'[n] \in Becomes(Shown[n])
<1>1. /\ UNCHANGED <<plan, pc, depth, row, outcome>> /\ child[c] \in Live
      /\ child'[c] \in Live \cup {"succeeded", "failed", "blocked"}
      /\ \A n \in plan.nodes \ {c} : child'[n] = child[n]
  BY DEF ChildStep, ReviewEnds, EndChild, Live, runVars, ViewInv, SettledInv, ReviewedInv, FleetTypes
<1>2. outcome # "completed" /\ outcome' # "completed"
  BY <1>1, AllSettled DEF Live
<1>3. /\ NodeOutcomes = [n \in Executed |-> Ran(child[n])]
      /\ NodeOutcomes' = [n \in Executed' |-> Ran(child'[n])]
  BY <1>2, NodesSeen, SeenNext DEF OwnSight, FullSight
<1>4. Executed' = Executed /\ c \in Executed
  BY <1>1 DEF Executed, Live
<1>5. WellFormed(plan) /\ depth \in Depths(plan) /\ IsFiniteSet(plan.nodes)
  <2>1. child[c] # "none"
    BY <1>1 DEF Live
  <2>2. pc \notin {"start", "plan", "base"} /\ WellFormed(plan)
    BY <2>1 DEF ViewInv, SettledInv, ReviewedInv, LayerOrder
  <2>3. outcome # "failed" /\ pc # "ended"
    BY <1>1, <2>1 DEF ViewInv, Orderly
  <2>4. pc \in {"base", "layer", "await"} \/ Over
    BY <2>2, <2>3 DEF ViewInv, SettledInv, ReviewedInv, FleetTypes, Laid, Over
  <2>. QED BY <2>2, <2>4, PlanIsFinite DEF ViewInv, Orderly
<1>6. \A n \in Executed : WorkStatus(Ran(child'[n])) \in Becomes(WorkStatus(Ran(child[n])))
  <2>. TAKE n \in Executed
  <2>1. CASE n = c
    <3>1. WorkStatus(Ran(child[n])) = "in-progress"
      BY <2>1, <1>1 DEF Ran, WorkStatus
    <3>2. WorkStatus(Ran(child'[n])) \in {"in-progress", "done", "failed"}
      BY <2>1, <1>1 DEF Ran, WorkStatus
    <3>. QED BY <3>1, <3>2 DEF Becomes
  <2>2. CASE n # c
    BY <2>2, <1>1, StaysItself DEF Executed
  <2>. QED BY <2>1, <2>2
<1>7. \A n \in plan.nodes :
        DeriveNodeStatuses(plan, NodeOutcomes')[n] \in Becomes(DeriveNodeStatuses(plan, NodeOutcomes)[n])
  <2>. DEFINE before == [n \in Executed |-> Ran(child[n])]
              after  == [n \in Executed |-> Ran(child'[n])]
  <2>1. NodeOutcomes = before /\ NodeOutcomes' = after
    BY <1>3, <1>4
  <2>2. DOMAIN before = Executed /\ DOMAIN after = Executed
    OBVIOUS
  <2>3. \A n \in Executed : WorkStatus(after[n]) \in Becomes(WorkStatus(before[n]))
    BY <1>6
  <2>. HIDE DEF before, after
  <2>. QED BY <1>5, <2>1, <2>2, <2>3, StatusesMoveOn
<1>. QED BY <1>1, <1>7 DEF Shown

\* A layer takes the nodes it runs on from todo.
LEMMA LayerMovesOn ==
  ASSUME ViewInv, ViewInv', ~cancelled, ~cancelled', StartLayer
  PROVE  \A n \in plan.nodes : Shown'[n] \in Becomes(Shown[n])
<1>. DEFINE run == {n \in LayerNodes(layer) : ~blockingDependency(n)}
<1>1. /\ UNCHANGED <<plan, depth, row, outcome>> /\ pc = "layer" /\ outcome # "completed"
      /\ child' = [n \in plan.nodes |-> IF n \in run THEN "seeding" ELSE child[n]]
  <2>1. child' = [n \in plan.nodes |->
                    IF n \in LayerNodes(layer) \ {m \in LayerNodes(layer) : blockingDependency(m)}
                      THEN "seeding" ELSE child[n]]
    BY DEF StartLayer
  <2>2. LayerNodes(layer) \ {m \in LayerNodes(layer) : blockingDependency(m)} = run
    OBVIOUS
  <2>. QED BY <2>1, <2>2 DEF StartLayer, ViewInv, SettledInv, Laid
<1>2. \A n \in run : /\ n \in plan.nodes /\ depth[n] = layer
                     /\ \A d \in plan.deps[n] : results[d] = "succeeded"
  BY DEF LayerNodes, blockingDependency
<1>3. WellFormed(plan) /\ depth \in Depths(plan) /\ IsFiniteSet(plan.nodes)
  BY <1>1, PlanIsFinite DEF ViewInv, Orderly, SettledInv, Laid
<1>4. \A n \in run : child[n] = "none" /\ \A d \in plan.deps[n] : d \in plan.nodes /\ child[d] = "succeeded"
  <2>1. \A n \in run : child[n] = "none"
    BY <1>1, <1>2 DEF ViewInv, SettledInv, ReviewedInv, FleetTypes, LayerOrder
  <2>2. \A n \in run : \A d \in plan.deps[n] : d \in plan.nodes
    BY <1>2, <1>3 DEF WellFormed
  <2>. QED BY <1>2, <2>1, <2>2 DEF ViewInv, SettledInv, ReviewedInv, LayerOrder
<1>. HIDE DEF run
<1>. DEFINE before == [n \in Executed |-> Ran(child[n])]
            after  == [n \in Executed' |-> Ran(child'[n])]
<1>5. NodeOutcomes = before /\ NodeOutcomes' = after
  <2>1. NodeOutcomes = [n \in Executed |-> Ran(child[n])]
    BY <1>1, NodesSeen DEF OwnSight, FullSight
  <2>2. NodeOutcomes' = [n \in Executed' |-> Ran(child'[n])]
    BY <1>1, SeenNext DEF OwnSight, FullSight
  <2>. QED BY <2>1, <2>2
<1>6. DOMAIN before = Executed /\ DOMAIN after = Executed' /\ Executed' = Executed \cup run
  BY <1>1, <1>2 DEF Executed
<1>7. \A n \in Executed : WorkStatus(after[n]) \in Becomes(WorkStatus(before[n]))
  <2>. TAKE n \in Executed
  <2>1. child'[n] = child[n]
    BY <1>1, <1>4 DEF Executed
  <2>2. after[n] = before[n]
    BY <1>6, <2>1
  <2>. HIDE DEF before, after
  <2>. QED BY <2>2, StaysItself
<1>8. \A n \in run : WorkStatus(after[n]) = "in-progress" /\ Shown[n] = "todo"
  <2>. TAKE n \in run
  <2>1. after[n] = "running"
    BY <1>1, <1>2, <1>6 DEF Ran, Live
  <2>2. n \in plan.nodes /\ n \notin DOMAIN NodeOutcomes
    BY <1>2, <1>4, <1>5, <1>6 DEF Executed
  <2>3. \A d \in plan.deps[n] : Shown[d] = "done"
    <3>. TAKE d \in plan.deps[n]
    <3>1. d \in plan.nodes /\ d \in Executed /\ before[d] = "succeeded"
      BY <1>4 DEF Executed, Ran, Live
    <3>2. Shown[d] = WorkStatus(NodeOutcomes[d])
      BY <1>3, <1>5, <1>6, <3>1, Derived DEF Shown
    <3>. QED BY <1>5, <3>1, <3>2 DEF WorkStatus
  <2>4. IF \E d \in plan.deps[n] : Shown[d] \in NotSucceeding THEN Shown[n] = "paused"
        ELSE IF \A d \in plan.deps[n] : Shown[d] = "done" THEN Shown[n] = "todo"
        ELSE Shown[n] = "waiting"
    BY <1>3, <2>2, Derived DEF Shown
  <2>5. Shown[n] = "todo"
    BY <2>3, <2>4 DEF NotSucceeding
  <2>. HIDE DEF after
  <2>. QED BY <2>1, <2>5 DEF WorkStatus
<1>. HIDE DEF before, after
<1>9. \A n \in plan.nodes : DeriveNodeStatuses(plan, after)[n] \in Becomes(DeriveNodeStatuses(plan, before)[n])
  <2>1. \A n \in plan.nodes \cap (DOMAIN after \ DOMAIN before) :
          WorkStatus(after[n]) \in Becomes(DeriveNodeStatuses(plan, before)[n])
    BY <1>5, <1>6, <1>8 DEF Shown, Becomes
  <2>2. \A n \in plan.nodes \cap DOMAIN before : WorkStatus(after[n]) \in Becomes(WorkStatus(before[n]))
    BY <1>6, <1>7
  <2>. QED BY <1>3, <1>6, <2>1, <2>2, StatusesMoveOn
<1>. QED BY <1>1, <1>5, <1>9 DEF Shown

\* Closing a fleet changes what is shown only by the breakdown its row gets.
LEMMA SettleMovesOn ==
  ASSUME ViewInv, ViewInv', ~cancelled, ~cancelled', Settle
  PROVE  \A n \in plan.nodes : Shown'[n] \in Becomes(Shown[n])
<1>1. /\ UNCHANGED <<plan, depth, layer, started, results, order, cancelled, outcome>>
      /\ pc = "settle" /\ row' \in {row, Settlement}
      /\ child' = [n \in plan.nodes |-> IF pc' = "ended" /\ child[n] \in Live THEN "terminated"
                                                                        ELSE child[n]]
  BY DEF Settle, runVars
<1>2. outcome \in {"failed", "completed"}
  BY <1>1 DEF ViewInv, SettledInv, Laid, Orderly
<1>3. child' = child
  <2>1. \A n \in plan.nodes : child[n] \notin Live
    BY <1>2, AllSettled DEF ViewInv, Orderly, Live
  <2>. QED BY <1>1, <2>1 DEF ViewInv, SettledInv, ReviewedInv, FleetTypes
<1>4. CASE row'.nodes = row.nodes
  BY <1>1, <1>3, <1>4, SameSight, StaysItself
<1>5. CASE row'.nodes # row.nodes
  <2>1. row' = Settlement
    BY <1>1, <1>5
  <2>2. OwnSight \/ FullSight
    BY NodesSeen
  <2>3. OwnSight' \/ FullSight'
    BY SeenNext
  <2>4. Breakdown' = Breakdown
    BY <1>1 DEF Breakdown
  <2>5. outcome = "completed"
    <3>. SUFFICES ASSUME outcome = "failed" PROVE FALSE
      BY <1>2
    <3>1. row.nodes = <<>>
      BY <2>2 DEF OwnSight, FullSight
    <3>2. row'.nodes = <<>>
      BY <1>1, <2>3 DEF OwnSight, FullSight
    <3>. QED BY <1>5, <3>1, <3>2
  <2>6. row'.nodes = Breakdown
    BY <2>1, <2>5 DEF Settlement
  <2>7. NodeOutcomes = [n \in Executed |-> Ran(child[n])]
    BY <1>5, <2>2, <2>6 DEF OwnSight, FullSight
  <2>8. CASE OwnSight'
    <3>1. NodeOutcomes' = [n \in Executed |-> Ran(child[n])]
      BY <1>1, <1>3, <2>8 DEF OwnSight, Executed
    <3>. QED BY <1>1, <2>7, <3>1, StaysItself DEF Shown
  <2>9. CASE FullSight'
    <3>. DEFINE before == [n \in Executed |-> Ran(child[n])]
    <3>1. NodeOutcomes' = results
      BY <1>1, <2>9 DEF FullSight
    <3>2. DOMAIN before = Executed /\ DOMAIN results = plan.nodes /\ Executed \subseteq plan.nodes
      BY DEF Executed, ViewInv, SettledInv, ReviewedInv, FleetTypes
    <3>3. \A n \in Executed : WorkStatus(results[n]) \in Becomes(WorkStatus(before[n]))
      <4>. TAKE n \in Executed
      <4>1. child[n] \in {"succeeded", "failed", "blocked"} /\ results[n] = child[n]
        BY <2>5, AllSettled DEF Executed
      <4>2. before[n] = IF child[n] = "succeeded" THEN "succeeded" ELSE "failed"
        BY <4>1 DEF Ran, Live
      <4>. HIDE DEF before
      <4>. QED BY <4>1, <4>2 DEF WorkStatus, Becomes
    <3>4. \A n \in plan.nodes \ Executed : WorkStatus(results[n]) \in Becomes(Shown[n])
      <4>. TAKE n \in plan.nodes \ Executed
      <4>1. child[n] = "none" /\ results[n] = "skipped"
        BY <2>5, AllSettled DEF Executed
      <4>2. Shown[n] = "paused"
        BY <2>5, <2>7, <4>1, SkippedArePaused
      <4>. QED BY <4>1, <4>2 DEF WorkStatus, Becomes
    <3>5. NodeOutcomes = before
      BY <2>7
    <3>. HIDE DEF before
    <3>6. \A n \in plan.nodes :
            DeriveNodeStatuses(plan, results)[n] \in Becomes(DeriveNodeStatuses(plan, before)[n])
      <4>1. \A n \in plan.nodes \cap DOMAIN before :
              WorkStatus(results[n]) \in Becomes(WorkStatus(before[n]))
        BY <3>2, <3>3
      <4>2. \A n \in plan.nodes \cap (DOMAIN results \ DOMAIN before) :
              WorkStatus(results[n]) \in Becomes(DeriveNodeStatuses(plan, before)[n])
        BY <3>2, <3>4, <3>5 DEF Shown
      <4>3. WellFormed(plan) /\ depth \in Depths(plan) /\ IsFiniteSet(plan.nodes)
        BY <2>5, AllSettled, PlanIsFinite DEF ViewInv
      <4>. QED BY <3>2, <4>1, <4>2, <4>3, StatusesMoveOn
    <3>. QED BY <1>1, <3>1, <3>5, <3>6 DEF Shown
  <2>. QED BY <2>3, <2>8, <2>9
<1>. QED BY <1>4, <1>5

\* Recording that the fleet runs adds no breakdown.
LEMMA RecordMovesOn ==
  ASSUME ViewInv, RecordStart
  PROVE  Shown' = Shown
<1>1. row' = row \/ row' = [status |-> "running", nodes |-> <<>>]
  BY RecordsRunning DEF ViewInv
<1>2. row = [status |-> row.status, nodes |-> <<>>]
  BY DEF RecordStart, ViewInv, SettledInv, Laid, RowSettled
<1>3. row.nodes = <<>> /\ row'.nodes = row.nodes
  BY <1>1, <1>2
<1>. QED BY <1>3, SameSight DEF RecordStart

\* Every step of a fleet that nobody cancelled takes every node on.
LEMMA NodesMoveOn ==
  ASSUME ViewInv, ViewInv', ~cancelled', Next, vars' # vars
  PROVE  /\ pc # "ended"
         /\ \A n \in plan.nodes : Shown'[n] \in Becomes(Shown[n])
<1>1. pc # "ended"
  <2>. SUFFICES ASSUME pc = "ended" PROVE FALSE
    OBVIOUS
  <2>1. \A n \in plan.nodes : child[n] \notin Live
    BY DEF ViewInv, Orderly
  <2>2. ~FleetStep
    <3>1. \A n \in plan.nodes : ~FutureCancelled(n)
      BY DEF FutureCancelled
    <3>. QED BY <3>1 DEF FleetStep, RecordStart, TopoLayers, ResolveBase, StartLayer, AwaitChild,
                        NextLayer, Finish, Settle
  <2>3. ~ChildrenStep /\ \A n \in plan.nodes : ~ReviewEnds(n)
    BY <2>1 DEF ChildrenStep, ChildStep, ReviewEnds, Live
  <2>. QED BY <2>2, <2>3 DEF Next, Cancel, Ended
<1>2. \A n \in plan.nodes : Shown'[n] \in Becomes(Shown[n])
  <2>1. CASE RecordStart
    BY <2>1, RecordMovesOn, StaysItself
  <2>2. CASE TopoLayers \/ ResolveBase \/ AwaitChild \/ NextLayer \/ Finish
    <3>1. UNCHANGED <<plan, child, row>>
      BY <2>2 DEF TopoLayers, ResolveBase, AwaitChild, NextLayer, Finish, runVars
    <3>. QED BY <3>1, SameSight, StaysItself
  <2>3. CASE StartLayer
    BY <2>3, LayerMovesOn DEF StartLayer
  <2>4. CASE Settle
    BY <2>4, SettleMovesOn DEF Settle
  <2>5. CASE \E n \in plan.nodes : FutureCancelled(n)
    BY <2>5 DEF FutureCancelled
  <2>6. CASE \E n \in plan.nodes : ChildStep(n) \/ ReviewEnds(n)
    <3>1. ~cancelled
      BY <2>6 DEF ChildStep, ReviewEnds
    <3>. QED BY <2>6, <3>1, ChildMovesOn
  <2>7. CASE Cancel
    BY <2>7 DEF Cancel
  <2>8. CASE Ended
    BY <1>1, <2>8 DEF Ended
  <2>. QED BY <2>1, <2>2, <2>3, <2>4, <2>5, <2>6, <2>7, <2>8 DEF Next, FleetStep, ChildrenStep
<1>. QED BY <1>1, <1>2

\* A row once written stays, and a plan is never changed.
LEMMA RowStays ==
  ASSUME ViewInv, Next
  PROVE  plan' = plan /\ (row.status # "none" => row'.status # "none")
<1>1. CASE RecordStart
  <2>1. row' = row \/ row' = [status |-> "running", nodes |-> <<>>]
    BY <1>1, RecordsRunning DEF ViewInv
  <2>. QED BY <1>1, <2>1 DEF RecordStart
<1>2. CASE Settle
  <2>1. row' \in {row, Settlement} /\ plan' = plan
    BY <1>2 DEF Settle
  <2>2. Settlement.status # "none"
    BY DEF Settlement
  <2>. QED BY <2>1, <2>2
<1>3. CASE ~RecordStart /\ ~Settle
  BY <1>3 DEF Next, FleetStep, ChildrenStep, Cancel, Ended, TopoLayers, ResolveBase, StartLayer,
              AwaitChild, NextLayer, Finish, FutureCancelled, ChildStep, ReviewEnds, vars
<1>. QED BY <1>1, <1>2, <1>3

\* For every plan: whatever its nodes come to and in whatever order, a viewer
\* of an uncancelled fleet (buildFleet) never sees a node taken back, never
\* sees the fleet done while it runs, and once it completed sees no node that
\* is still to come, whether or not the breakdown was recorded.
THEOREM FleetIsShownForward == Spec => PublishedMovesForward
<1>. DEFINE Step == ~cancelled' => \A before \in {Published}, after \in {Published'} :
                     before.nodes # <<>> =>
                       /\ \A n \in plan.nodes : after.nodes[n] \in Becomes(before.nodes[n])
                       /\ before.status = "done" =>
                            /\ after.status = "done" /\ ~before.running
                            /\ \A n \in plan.nodes : child[n] = "succeeded"
                       /\ pc' = "ended" /\ outcome = "completed" =>
                            \A n \in plan.nodes :
                              after.nodes[n] \in {"done", "failed", "paused", "waiting-input"}
<1>1. ViewInv /\ ViewInv' /\ [Next]_vars => [Step]_vars
  <2>. SUFFICES ASSUME ViewInv, ViewInv', Next, vars' # vars, ~cancelled', Published.nodes # <<>>
                PROVE  /\ \A n \in plan.nodes : Published'.nodes[n] \in Becomes(Published.nodes[n])
                       /\ Published.status # "done"
                       /\ pc' = "ended" /\ outcome = "completed" =>
                            \A n \in plan.nodes :
                              Published'.nodes[n] \in {"done", "failed", "paused", "waiting-input"}
    OBVIOUS
  <2>1. row.status # "none" /\ plan.nodes # {} /\ Published.nodes = Shown
    BY PublishedNodes, PublishedIsShown
  <2>2. plan' = plan /\ row'.status # "none"
    BY <2>1, RowStays
  <2>3. Published'.nodes = Shown'
    BY <2>1, <2>2, PublishedNext
  <2>4. pc # "ended" /\ \A n \in plan.nodes : Shown'[n] \in Becomes(Shown[n])
    BY NodesMoveOn
  <2>5. pc' = "ended" /\ outcome = "completed" =>
          \A n \in plan.nodes : Shown'[n] \in {"done", "failed", "paused", "waiting-input"}
    <3>. SUFFICES ASSUME pc' = "ended", outcome = "completed" PROVE AllConcluded'
      BY <2>2 DEF AllConcluded
    <3>1. pc = "settle"
      BY <2>4 DEF ViewInv, SettledInv, ReviewedInv, FleetTypes, Laid
    <3>2. outcome' = outcome
      BY <3>1 DEF Next, FleetStep, ChildrenStep, RecordStart, TopoLayers, ResolveBase, StartLayer,
                  AwaitChild, NextLayer, Finish, Settle, FutureCancelled, ChildStep, ReviewEnds,
                  Cancel, Ended, vars
    <3>. QED BY <3>2, ConcludedNext
  <2>. QED BY <2>1, <2>3, <2>4, <2>5, RunningIsNotDone
<1>2. Spec => [][Next]_vars
  BY DEF Spec
<1>. HIDE DEF Step
<1>3. Spec => [][Step]_vars
  BY <1>1, <1>2, ViewHolds, PTL
<1>. QED BY <1>3 DEF PublishedMovesForward, Step

=============================================================================
