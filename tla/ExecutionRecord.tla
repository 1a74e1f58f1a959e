-------------------------- MODULE ExecutionRecord --------------------------
(***************************************************************************)
(* The durable row of one workflow run and the activity that writes it.    *)
(* A write is an upsert keyed on the run; Temporal attempts it again when  *)
(* its completion is lost, and an attempt it gave up on may still reach    *)
(* the store after writes that were sent later.                            *)
(***************************************************************************)

CONSTANT Details  \* what a row's detail may say beside its wait

VARIABLES
  row,  \* the row the store holds
  late  \* writes whose attempt was given up on and that may still commit

recordVars == <<row, late>>

Statuses == {"running", "succeeded", "failed"}

Writes == [status : Statuses, waiting : BOOLEAN, detail : Details]

NoRow == [status |-> "none"]

Settled(r) == r.status \in {"succeeded", "failed"}

\* Mutant of Upsert: the last write to commit wins.
UpsertLastWins(old, new) == new

\* saveExecutionSQL: a settled row is never lowered to running again.
Upsert(old, new) == IF Settled(old) /\ new.status = "running" THEN old ELSE new

\* The write was acknowledged; earlier attempts of it may still be under way.
Recorded(w) == row' = Upsert(row, w) /\ late' \in {late, late \cup {w}}

\* Every attempt failed: some may have committed, some may commit later.
Unrecorded(w) == row' \in {row, Upsert(row, w)} /\ late' \in {late, late \cup {w}}

\* A write sent long ago commits.
LateWrite ==
  \E w \in late : row' = Upsert(row, w) /\ late' = late \ {w}

RowTypeOK ==
  /\ row \in Writes \cup {NoRow}
  /\ late \subseteq Writes

=============================================================================
