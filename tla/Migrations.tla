----------------------------- MODULE Migrations -----------------------------
(***************************************************************************)
(* Bringing the schemas up to date, and refusing to start on an old one    *)
(* (migrate.go, pgmigrate.Apply, schema.State): `migrate` commands, workers *)
(* and API servers of different builds, each started against one database, *)
(* any of which may fail, be killed or be run again at any step.           *)
(*                                                                         *)
(* Migration i of a context c is <<c, i>>.  A build carries the first      *)
(* Carries[p][c] of them: a newer build carries more.  What is recorded and *)
(* what has been run are kept apart; a transaction is one step.            *)
(***************************************************************************)
EXTENDS Integers, Sequences

CONSTANTS
  Contexts,   \* every context that owns a schema, in the order migrate goes through
  HubOnly,    \* the contexts the worker never touches
  Processes,
  Kind,       \* "migrate", "worker" or "serve"
  DevMode,    \* started with TEMPORAL_AGENTS_DEV_AUTO_MIGRATE
  Carries,    \* how many migrations of a context a process's build carries
  MaxRuns     \* how often a process is started

Names == {Contexts[i] : i \in DOMAIN Contexts}

ASSUME MigrationAssumption ==
  /\ Contexts \in Seq(STRING) /\ HubOnly \subseteq Names
  /\ Kind \in [Processes -> {"migrate", "worker", "serve"}] /\ DevMode \subseteq Processes
  /\ Carries \in [Processes -> [Names -> Nat]] /\ MaxRuns \in Nat

VARIABLES
  tracked,   \* the tracking table exists
  recorded,  \* the migrations the tracking table names
  ran,       \* how often the body of a migration has been run
  holder,    \* the session holding the advisory lock: <<process, start>> or Nobody
  started,   \* how often a process was started
  stage,     \* where a process is
  todo       \* the contexts it has still to go through

migrationVars == <<tracked, recorded, ran, holder, started, stage, todo>>

Nobody == <<>>
Carried(p) == UNION {{c} \X (1..Carries[p][c]) : c \in Names}
Bodies == UNION {Carried(p) : p \in Processes}

\* A worker depends on the contexts it uses, a server and migrate on them all.
ContextsOf(p) == {c \in Names : Kind[p] = "worker" => c \notin HubOnly}

\* The context a process is at: the first it has still to go through.
Current(p) ==
  Contexts[CHOOSE i \in DOMAIN Contexts :
             /\ Contexts[i] \in todo[p]
             /\ \A j \in DOMAIN Contexts : Contexts[j] \in todo[p] => i <= j]

PassedOver(p) == todo' = [todo EXCEPT ![p] = @ \ {Current(p)}]

Applies(p) == Kind[p] = "migrate" \/ p \in DevMode

\* What the build carries of a context and the tracking table does not name;
\* a database a newer build migrated misses nothing.
Missing(p, c) == {i \in 1..Carries[p][c] : <<c, i>> \notin recorded}

\* Mutant of UpToDate: a context that was ever migrated is good enough.
AnyVersion(p, c) == \E i \in 1..Carries[p][c] : <<c, i>> \in recorded
UpToDate(p, c) == Missing(p, c) = {}

AtRest == {"new", "migrated", "started", "refused", "failed", "collided", "dead"}
UnderLock == {"table", "create", "apply", "unlock", "abort"}

InitMigrations ==
  /\ tracked = FALSE /\ recorded = {} /\ ran = [m \in Bodies |-> 0] /\ holder = Nobody
  /\ started = [p \in Processes |-> 0] /\ stage = [p \in Processes |-> "new"]
  /\ todo = [p \in Processes |-> {}]

Moves(p, where) == stage' = [stage EXCEPT ![p] = where]
Session(p) == <<p, started[p]>>

-----------------------------------------------------------------------------
\* A process is started, or started again after it failed or was killed.
Start(p) ==
  /\ stage[p] \in {"new", "refused", "failed", "dead"} /\ started[p] < MaxRuns
  /\ started' = [started EXCEPT ![p] = @ + 1] /\ todo' = [todo EXCEPT ![p] = ContextsOf(p)]
  /\ Moves(p, "open")
  /\ UNCHANGED <<tracked, recorded, ran, holder>>

\* migrateSchemas and verifySchemas: one context after another, then on with
\* the process's own work.
Open(p) ==
  /\ stage[p] = "open" /\ todo[p] # {} /\ Applies(p)
  /\ Moves(p, "lock")
  /\ UNCHANGED <<tracked, recorded, ran, holder, started, todo>>

VerifyOne(p) ==
  /\ stage[p] = "open" /\ todo[p] # {} /\ ~Applies(p)
  /\ \/ /\ UpToDate(p, Current(p))
        /\ PassedOver(p) /\ UNCHANGED stage
     \/ ~UpToDate(p, Current(p)) /\ Moves(p, "refused") /\ UNCHANGED todo
  /\ UNCHANGED <<tracked, recorded, ran, holder, started>>

Done(p) ==
  /\ stage[p] = "open" /\ todo[p] = {}
  /\ Moves(p, IF Kind[p] = "migrate" THEN "migrated" ELSE "started")
  /\ UNCHANGED <<tracked, recorded, ran, holder, started, todo>>

-----------------------------------------------------------------------------
(* pgmigrate.Apply: one context, under the lock every process agrees on.   *)

Lock(p) ==
  /\ stage[p] = "lock" /\ holder = Nobody
  /\ holder' = Session(p) /\ Moves(p, "table")
  /\ UNCHANGED <<tracked, recorded, ran, started, todo>>

\* CREATE TABLE IF NOT EXISTS looks first and creates after: a table that
\* appeared in between is a duplicate key, and the process stops on it.
FindTable(p) ==
  /\ stage[p] = "table" /\ Moves(p, IF tracked THEN "apply" ELSE "create")
  /\ UNCHANGED <<tracked, recorded, ran, holder, started, todo>>

CreateTable(p) ==
  /\ stage[p] = "create"
  /\ tracked' = TRUE /\ Moves(p, IF tracked THEN "collided" ELSE "apply")
  /\ UNCHANGED <<recorded, ran, holder, started, todo>>

\* applyMigration, in filename order: a migration that is recorded is skipped,
\* the others run and are recorded in one transaction.
Following(p) ==
  LET missing == Missing(p, Current(p))
  IN <<Current(p), CHOOSE i \in missing : \A j \in missing : i <= j>>

\* Mutant of RolledBack: the tracking row outlives a failed body.
KeepsTheRow(p) == recorded \cup {Following(p)}
RolledBack(p) == recorded

ApplyMigration(p) ==
  /\ stage[p] = "apply" /\ Missing(p, Current(p)) # {}
  /\ recorded' = recorded \cup {Following(p)} /\ ran' = [ran EXCEPT ![Following(p)] = @ + 1]
  /\ UNCHANGED <<tracked, holder, started, stage, todo>>

FailMigration(p) ==
  /\ stage[p] = "apply" /\ Missing(p, Current(p)) # {}
  /\ recorded' = RolledBack(p) /\ Moves(p, "abort")
  /\ UNCHANGED <<tracked, ran, holder, started, todo>>

AllApplied(p) ==
  /\ stage[p] = "apply" /\ Missing(p, Current(p)) = {} /\ Moves(p, "unlock")
  /\ UNCHANGED <<tracked, recorded, ran, holder, started, todo>>

\* releaseConnection: unlocked, or closed with the lock, whatever Apply answers.
\* Mutant: the connection of a failed migration goes back to the pool locked.
ReleaseKeepsLock(p) == IF stage[p] = "abort" THEN holder ELSE Nobody
Release(p) == Nobody

Unlock(p) ==
  /\ stage[p] \in {"unlock", "abort"}
  /\ holder' = Release(p)
  /\ \/ /\ stage[p] = "unlock"
        /\ PassedOver(p) /\ Moves(p, "open")
     \/ stage[p] = "abort" /\ Moves(p, "failed") /\ UNCHANGED todo
  /\ UNCHANGED <<tracked, recorded, ran, started>>

\* The database does not answer, or the time allowed has passed: outside the
\* transactions too.
Fail(p) ==
  /\ \/ stage[p] \in {"open", "lock"} /\ Moves(p, "failed")
     \/ stage[p] \in {"table", "create"} /\ Moves(p, "abort")
  /\ UNCHANGED <<tracked, recorded, ran, holder, started, todo>>

\* A killed process; Postgres notices later that its session is gone.
Crash(p) ==
  /\ stage[p] \notin AtRest /\ Moves(p, "dead")
  /\ UNCHANGED <<tracked, recorded, ran, holder, started, todo>>

EndSession(p) ==
  /\ holder # Nobody /\ holder[1] = p /\ (holder # Session(p) \/ stage[p] \in {"dead", "collided"})
  /\ holder' = Nobody
  /\ UNCHANGED <<tracked, recorded, ran, started, stage, todo>>

Proceed(p) ==
  \/ Open(p) \/ VerifyOne(p) \/ Done(p) \/ Lock(p) \/ FindTable(p) \/ CreateTable(p)
  \/ ApplyMigration(p) \/ AllApplied(p) \/ Unlock(p)

NextMigrations ==
  \E p \in Processes :
    Start(p) \/ Proceed(p) \/ FailMigration(p) \/ Fail(p) \/ Crash(p) \/ EndSession(p)

\* A process that can go on does, and Postgres notices a session that is gone.
\* A failure, a kill or another start need never come.
MigrationFairness ==
  \A p \in Processes : WF_migrationVars(Proceed(p)) /\ WF_migrationVars(EndSession(p))

MigrationSpec == InitMigrations /\ [][NextMigrations]_migrationVars /\ MigrationFairness

-----------------------------------------------------------------------------
\* A migration is recorded exactly when its body ran, once, on a schema that
\* every migration before it had already shaped: whatever fails, dies, is run
\* again or runs an older build (pgmigrate.Apply's "a crash mid-way can never
\* leave the schema half-applied but marked as done").
SchemaIsItsRecord ==
  /\ \A m \in Bodies : ran[m] = IF m \in recorded THEN 1 ELSE 0
  /\ \A m \in recorded : \A i \in 1..m[2] : <<m[1], i>> \in recorded

\* Processes started together never stop one another on the tracking table:
\* they take turns (the race Apply's advisory lock is for).
NeverCollides == \A p \in Processes : stage[p] # "collided"

\* A worker or a server that started has everything its build needs of every
\* context it uses, although it looked at them one at a time and others were
\* migrating meanwhile (requireCurrentSchema).
StartsOnCurrentSchema ==
  \A p \in Processes : stage[p] = "started" =>
    \A c \in ContextsOf(p) : Missing(p, c) = {}

\* Nobody waits for ever for the lock of a process that failed or was killed
\* while it held it (releaseConnection).
EveryStartEnds == \A p \in Processes : stage[p] \notin AtRest ~> stage[p] \in AtRest

=============================================================================
