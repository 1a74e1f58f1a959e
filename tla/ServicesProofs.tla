--------------------------- MODULE ServicesProofs ---------------------------
(***************************************************************************)
(* The parts that share no state with one another, each for any bounds:    *)
(*                                                                         *)
(*   migrations  what the tracking table names is what has been run,       *)
(*               processes started together never stop one another, and    *)
(*               what starts, starts on a current schema                   *)
(*   planning    the plan that is stored, sent and told of is the judged   *)
(*               answer of an agent that changed nothing                   *)
(*   streams     a page that follows a conversation misses no turn         *)
(*   cleanup     nothing unmerged or uncommitted is lost unasked           *)
(*   agent       an answer is one of finished work, and all its tokens     *)
(*   plan        a plan is refused exactly when it has a cycle, and its    *)
(*               layers are its longest chains                             *)
(*   inbox       a read notice stays read through every retry              *)
(*   pilot       what a pass resolved it answered, and a row's outcome is  *)
(*               the one the pull request shows                            *)
(***************************************************************************)
EXTENDS ServiceParts, FiniteSetTheorems, SequenceTheorems, WellFoundedInduction, TLAPS

-----------------------------------------------------------------------------
(* Migrations.                                                             *)

Stages == AtRest \cup UnderLock \cup {"open", "lock"}

\* What every variable ranges over.
MTypes ==
  /\ tracked \in BOOLEAN
  /\ recorded \subseteq Bodies
  /\ ran \in [Bodies -> Nat]
  /\ started \in [Processes -> Nat]
  /\ stage \in [Processes -> Stages]
  /\ todo \in [Processes -> SUBSET Names]

\* Whoever works under the lock holds it, in the start it is in, and finds the
\* tracking table as it left it.
TakesTurns ==
  /\ \A p \in Processes : stage[p] \in UnderLock => holder = Session(p)
  /\ \A p \in Processes : stage[p] = "create" => ~tracked
  /\ NeverCollides

\* What a process has been through, it has everything of.
KeepsUp ==
  \A p \in Processes :
    /\ stage[p] \in UnderLock \cup {"lock"} => todo[p] # {}
    /\ stage[p] # "new" => \A c \in ContextsOf(p) \ todo[p] : Missing(p, c) = {}
    /\ stage[p] = "unlock" => Missing(p, Current(p)) = {}
    /\ stage[p] = "started" => todo[p] = {}

MInv == MTypes /\ SchemaIsItsRecord /\ TakesTurns /\ KeepsUp

-----------------------------------------------------------------------------
\* A non-empty set of naturals has a smallest element.
LEMMA SmallestExists ==
  ASSUME NEW T, T \subseteq Nat, T # {}
  PROVE  \E i \in T : \A j \in T : i <= j
<1>1. PICK i \in T : \A j \in T : ~(<<j, i>> \in OpToRel(<, Nat))
  BY NatLessThanWellFounded, WFMin
<1>2. \A j \in T : ~(j < i)
  BY <1>1 DEF OpToRel
<1>. QED BY <1>2

\* The context a process is at is one it has still to go through.
LEMMA CurrentIsAhead ==
  ASSUME MTypes, NEW p \in Processes, todo[p] # {}
  PROVE  Current(p) \in todo[p] /\ Current(p) \in Names
<1>. DEFINE T == {i \in DOMAIN Contexts : Contexts[i] \in todo[p]}
<1>1. DOMAIN Contexts \subseteq Nat
  BY MigrationAssumption
<1>2. T # {}
  BY DEF MTypes, Names
<1>3. \E i \in T : \A j \in T : i <= j
  <2>. HIDE DEF T
  <2>. QED BY <1>1, <1>2, SmallestExists, T \subseteq DOMAIN Contexts DEF T
<1>4. \E i \in DOMAIN Contexts :
        /\ Contexts[i] \in todo[p]
        /\ \A j \in DOMAIN Contexts : Contexts[j] \in todo[p] => i <= j
  BY <1>3
<1>. QED BY <1>4 DEF Current, Names, MTypes

\* The migration that runs is a missing one, and every earlier one is recorded.
LEMMA FollowingIsNext ==
  ASSUME MTypes, NEW p \in Processes, todo[p] # {}, Missing(p, Current(p)) # {}
  PROVE  \E i \in Missing(p, Current(p)) :
           /\ Following(p) = <<Current(p), i>>
           /\ \A j \in Missing(p, Current(p)) : i <= j
<1>1. Missing(p, Current(p)) \subseteq Nat
  BY CurrentIsAhead, MigrationAssumption DEF Missing
<1>2. \E i \in Missing(p, Current(p)) : \A j \in Missing(p, Current(p)) : i <= j
  BY <1>1, SmallestExists
<1>. QED BY <1>2 DEF Following

\* A build's migrations are bodies.
LEMMA CarriedAreBodies ==
  ASSUME NEW p \in Processes, NEW c \in Names, NEW i \in 1..Carries[p][c]
  PROVE  <<c, i>> \in Bodies
<1>1. <<c, i>> \in {c} \X (1..Carries[p][c])
  OBVIOUS
<1>2. <<c, i>> \in Carried(p)
  BY <1>1 DEF Carried
<1>. QED BY <1>2 DEF Bodies

-----------------------------------------------------------------------------
LEMMA InitIsGood == InitMigrations => MInv
<1>. SUFFICES ASSUME InitMigrations PROVE MInv
  OBVIOUS
<1>1. MTypes
  BY DEF InitMigrations, MTypes, Stages, AtRest
<1>2. SchemaIsItsRecord
  BY DEF InitMigrations, SchemaIsItsRecord
<1>3. TakesTurns
  BY DEF InitMigrations, TakesTurns, NeverCollides, UnderLock
<1>4. KeepsUp
  BY DEF InitMigrations, KeepsUp, UnderLock
<1>. QED BY <1>1, <1>2, <1>3, <1>4 DEF MInv

\* What is recorded is never forgotten.
LEMMA NothingIsUnrecorded ==
  ASSUME MTypes, [NextMigrations]_migrationVars
  PROVE  recorded \subseteq recorded'
BY DEF NextMigrations, Proceed, Start, Open, VerifyOne, Done, Lock, FindTable, CreateTable,
       ApplyMigration, FailMigration, RolledBack, AllApplied, Unlock, Fail, Crash, EndSession,
       migrationVars

LEMMA StepKeepsTypes ==
  ASSUME MInv, [NextMigrations]_migrationVars
  PROVE  MTypes'
<1>. USE DEF MInv, MTypes
<1>1. ASSUME NEW p \in Processes, Start(p) PROVE MTypes'
  BY <1>1 DEF Start, Moves, Stages, ContextsOf
<1>2. ASSUME NEW p \in Processes, ApplyMigration(p) PROVE MTypes'
  <2>1. todo[p] # {}
    BY <1>2 DEF ApplyMigration, KeepsUp, UnderLock
  <2>2. PICK i \in Missing(p, Current(p)) : Following(p) = <<Current(p), i>>
    BY <1>2, <2>1, FollowingIsNext DEF ApplyMigration
  <2>3. Following(p) \in Bodies
    BY <2>1, <2>2, CurrentIsAhead, CarriedAreBodies DEF Missing
  <2>. QED BY <1>2, <2>3 DEF ApplyMigration
<1>3. ASSUME NEW p \in Processes, Open(p) \/ VerifyOne(p) \/ Done(p) PROVE MTypes'
  BY <1>3 DEF Open, VerifyOne, Done, Moves, PassedOver, Stages, AtRest, UnderLock
<1>4. ASSUME NEW p \in Processes, Lock(p) \/ FindTable(p) \/ CreateTable(p) PROVE MTypes'
  BY <1>4 DEF Lock, FindTable, CreateTable, Moves, Stages, AtRest, UnderLock
<1>5. ASSUME NEW p \in Processes, AllApplied(p) \/ Unlock(p) PROVE MTypes'
  BY <1>5 DEF AllApplied, Unlock, Moves, PassedOver, Stages, AtRest, UnderLock
<1>6. ASSUME NEW p \in Processes, FailMigration(p) \/ Fail(p) \/ Crash(p) \/ EndSession(p)
      PROVE  MTypes'
  BY <1>6 DEF FailMigration, RolledBack, Fail, Crash, EndSession, Moves, Stages, AtRest, UnderLock
<1>7. CASE UNCHANGED migrationVars
  BY <1>7 DEF migrationVars
<1>. QED BY <1>1, <1>2, <1>3, <1>4, <1>5, <1>6, <1>7 DEF NextMigrations, Proceed

LEMMA StepKeepsRecord ==
  ASSUME MInv, [NextMigrations]_migrationVars
  PROVE  SchemaIsItsRecord'
<1>1. ASSUME NEW p \in Processes, ApplyMigration(p) PROVE SchemaIsItsRecord'
  <2>1. todo[p] # {} /\ Missing(p, Current(p)) # {}
    BY <1>1 DEF ApplyMigration, MInv, KeepsUp, UnderLock
  <2>2. PICK i \in Missing(p, Current(p)) :
          /\ Following(p) = <<Current(p), i>>
          /\ \A j \in Missing(p, Current(p)) : i <= j
    BY <2>1, FollowingIsNext DEF MInv
  <2>. DEFINE c == Current(p)
  <2>3. c \in Names
    BY <2>1, CurrentIsAhead DEF MInv
  <2>4. i \in 1..Carries[p][c] /\ <<c, i>> \notin recorded /\ Carries[p][c] \in Nat
    BY <2>3, MigrationAssumption DEF Missing
  <2>5. <<c, i>> \in Bodies
    BY <2>3, <2>4, CarriedAreBodies
  <2>6. recorded' = recorded \cup {<<c, i>>} /\ ran' = [ran EXCEPT ![<<c, i>>] = @ + 1]
    BY <1>1, <2>2 DEF ApplyMigration
  <2>. HIDE DEF c
  <2>7. \A m \in Bodies : ran'[m] = IF m \in recorded' THEN 1 ELSE 0
    BY <2>4, <2>5, <2>6 DEF MInv, MTypes, SchemaIsItsRecord
  <2>8. \A j \in 1..i : <<c, j>> \in recorded'
    <3>. SUFFICES ASSUME NEW j \in 1..i, <<c, j>> \notin recorded PROVE j = i
      BY <2>6
    <3>1. j \in Missing(p, c)
      BY <2>4 DEF Missing
    <3>. QED BY <2>2, <2>4, <3>1 DEF c
  <2>9. \A m \in recorded' : \A j \in 1..m[2] : <<m[1], j>> \in recorded'
    <3>1. ASSUME NEW m \in recorded PROVE \A j \in 1..m[2] : <<m[1], j>> \in recorded'
      BY <2>6 DEF MInv, SchemaIsItsRecord
    <3>2. ASSUME NEW m, m = <<c, i>> PROVE \A j \in 1..m[2] : <<m[1], j>> \in recorded'
      <4>1. m[1] = c /\ m[2] = i
        BY <3>2
      <4>. QED BY <2>8, <4>1
    <3>. QED BY <2>6, <3>1, <3>2
  <2>. QED BY <2>7, <2>9 DEF SchemaIsItsRecord
<1>2. ASSUME UNCHANGED <<recorded, ran>> PROVE SchemaIsItsRecord'
  BY <1>2 DEF MInv, SchemaIsItsRecord
<1>3. ASSUME NEW p \in Processes, ~ApplyMigration(p),
             Start(p) \/ Proceed(p) \/ FailMigration(p) \/ Fail(p) \/ Crash(p) \/ EndSession(p)
      PROVE  UNCHANGED <<recorded, ran>>
  BY <1>3 DEF Proceed, Start, Open, VerifyOne, Done, Lock, FindTable, CreateTable, FailMigration,
              RolledBack, AllApplied, Unlock, Fail, Crash, EndSession
<1>. QED BY <1>1, <1>2, <1>3 DEF NextMigrations, migrationVars

LEMMA StepKeepsTurns ==
  ASSUME MInv, [NextMigrations]_migrationVars
  PROVE  TakesTurns'
<1>. USE DEF MInv, MTypes, TakesTurns, NeverCollides, UnderLock, Session
<1>1. ASSUME NEW p \in Processes, Start(p) PROVE TakesTurns'
  BY <1>1 DEF Start, Moves
<1>2. ASSUME NEW p \in Processes, Open(p) \/ VerifyOne(p) \/ Done(p) PROVE TakesTurns'
  BY <1>2 DEF Open, VerifyOne, Done, Moves
<1>3. ASSUME NEW p \in Processes, Lock(p) PROVE TakesTurns'
  <2>1. \A q \in Processes : stage[q] \notin UnderLock
    BY <1>3 DEF Lock, Nobody
  <2>. QED BY <1>3, <2>1 DEF Lock, Moves
<1>4. ASSUME NEW p \in Processes, FindTable(p) PROVE TakesTurns'
  BY <1>4 DEF FindTable, Moves
<1>5. ASSUME NEW p \in Processes, CreateTable(p) PROVE TakesTurns'
  <2>1. ~tracked /\ stage' = [stage EXCEPT ![p] = "apply"]
    BY <1>5 DEF CreateTable, Moves
  <2>2. \A q \in Processes : q # p => stage[q] # "create"
    BY <1>5 DEF CreateTable
  <2>. QED BY <1>5, <2>1, <2>2 DEF CreateTable
<1>6. ASSUME NEW p \in Processes, ApplyMigration(p) \/ AllApplied(p) \/ FailMigration(p) \/ Fail(p)
      PROVE  TakesTurns'
  BY <1>6 DEF ApplyMigration, AllApplied, FailMigration, Fail, Moves
<1>7. ASSUME NEW p \in Processes, Unlock(p) PROVE TakesTurns'
  <2>1. \A q \in Processes : q # p => stage[q] \notin UnderLock
    BY <1>7 DEF Unlock
  <2>. QED BY <1>7, <2>1 DEF Unlock, Moves
<1>8. ASSUME NEW p \in Processes, Crash(p) PROVE TakesTurns'
  BY <1>8 DEF Crash, Moves
<1>9. ASSUME NEW p \in Processes, EndSession(p) PROVE TakesTurns'
  <2>1. \A q \in Processes : stage[q] \notin UnderLock
    BY <1>9 DEF EndSession
  <2>. QED BY <1>9, <2>1 DEF EndSession
<1>10. CASE UNCHANGED migrationVars
  BY <1>10 DEF migrationVars
<1>. QED BY <1>1, <1>2, <1>3, <1>4, <1>5, <1>6, <1>7, <1>8, <1>9, <1>10 DEF NextMigrations, Proceed

LEMMA StepKeepsUp ==
  ASSUME MInv, [NextMigrations]_migrationVars
  PROVE  KeepsUp'
<1>. USE DEF MInv, UnderLock
<1>. DEFINE Up(p) ==
       /\ stage[p] \in UnderLock \cup {"lock"} => todo[p] # {}
       /\ stage[p] # "new" => \A c \in ContextsOf(p) \ todo[p] : Missing(p, c) = {}
       /\ stage[p] = "unlock" => Missing(p, Current(p)) = {}
       /\ stage[p] = "started" => todo[p] = {}
<1>0. \A p, c : Missing(p, c)' \subseteq Missing(p, c)
  BY NothingIsUnrecorded DEF Missing
\* A process that does not move, and whose list does not, stays as it was.
<1>1. ASSUME NEW p \in Processes, UNCHANGED <<stage[p], todo[p]>> PROVE Up(p)'
  <2>1. Current(p)' = Current(p)
    BY <1>1 DEF Current
  <2>2. Missing(p, Current(p))' \subseteq Missing(p, Current(p))
    BY <2>1, <1>0 DEF Missing
  <2>. QED BY <1>0, <1>1, <2>2 DEF KeepsUp, ContextsOf
<1>2. ASSUME NEW p \in Processes, NEW q \in Processes, q # p,
             Start(p) \/ Proceed(p) \/ FailMigration(p) \/ Fail(p) \/ Crash(p) \/ EndSession(p)
      PROVE  UNCHANGED <<stage[q], todo[q]>>
  BY <1>2 DEF MTypes, Proceed, Start, Open, VerifyOne, Done, Lock, FindTable, CreateTable,
              ApplyMigration, FailMigration, AllApplied, Unlock, Fail, Crash, EndSession,
              PassedOver, Moves
<1>3. ASSUME NEW p \in Processes, Start(p) PROVE Up(p)'
  BY <1>3 DEF Start, Moves, MTypes, ContextsOf
<1>4. ASSUME NEW p \in Processes, Open(p) \/ Done(p) \/ Lock(p) PROVE Up(p)'
  BY <1>0, <1>4 DEF Open, Done, Lock, Moves, MTypes, KeepsUp, ContextsOf
<1>5. ASSUME NEW p \in Processes, VerifyOne(p) PROVE Up(p)'
  BY <1>0, <1>5 DEF VerifyOne, PassedOver, UpToDate, Moves, MTypes, KeepsUp, ContextsOf
<1>6. ASSUME NEW p \in Processes, FindTable(p) \/ CreateTable(p) PROVE Up(p)'
  BY <1>0, <1>6 DEF FindTable, CreateTable, Moves, MTypes, KeepsUp, ContextsOf
<1>7. ASSUME NEW p \in Processes, ApplyMigration(p) PROVE Up(p)'
  BY <1>1, <1>7 DEF ApplyMigration
<1>8. ASSUME NEW p \in Processes, AllApplied(p) PROVE Up(p)'
  <2>1. Missing(p, Current(p))' = {}
    BY <1>8 DEF AllApplied, Missing, Current
  <2>. QED BY <1>0, <1>8, <2>1 DEF AllApplied, Moves, MTypes, KeepsUp, ContextsOf
<1>9. ASSUME NEW p \in Processes, Unlock(p) PROVE Up(p)'
  BY <1>0, <1>9 DEF Unlock, PassedOver, Moves, MTypes, KeepsUp, ContextsOf
<1>10. ASSUME NEW p \in Processes, FailMigration(p) \/ Fail(p) \/ Crash(p) PROVE Up(p)'
  BY <1>0, <1>10 DEF FailMigration, Fail, Crash, Moves, MTypes, KeepsUp, ContextsOf, AtRest
<1>11. ASSUME NEW p \in Processes, EndSession(p) PROVE Up(p)'
  BY <1>1, <1>11 DEF EndSession
<1>12. CASE UNCHANGED migrationVars
  BY <1>1, <1>12 DEF migrationVars, KeepsUp
<1>13. ASSUME NEW p \in Processes,
              Start(p) \/ Proceed(p) \/ FailMigration(p) \/ Fail(p) \/ Crash(p) \/ EndSession(p)
       PROVE  KeepsUp'
  <2>1. Up(p)'
    BY <1>3, <1>4, <1>5, <1>6, <1>7, <1>8, <1>9, <1>10, <1>11, <1>13 DEF Proceed
  <2>2. \A q \in Processes : q # p => Up(q)'
    BY <1>1, <1>2, <1>13
  <2>. QED BY <2>1, <2>2 DEF KeepsUp
<1>. QED BY <1>12, <1>13 DEF NextMigrations

-----------------------------------------------------------------------------
\* The inductive invariant of the migrators (pgmigrate.Apply).
THEOREM MigrationInvariant == MigrationSpec => []MInv
<1>1. MInv /\ [NextMigrations]_migrationVars => MInv'
  BY StepKeepsTypes, StepKeepsRecord, StepKeepsTurns, StepKeepsUp DEF MInv
<1>. QED BY <1>1, InitIsGood, PTL DEF MigrationSpec

\* The tracking table names exactly the migrations whose body ran, each ran
\* once and after all before it, whoever fails, dies, is started again or runs
\* another build (pgmigrate.Apply).
THEOREM RecordIsTrue == MigrationSpec => []SchemaIsItsRecord
<1>1. MInv => SchemaIsItsRecord
  BY DEF MInv
<1>. QED BY <1>1, MigrationInvariant, PTL

\* However many processes are started together, none stops on the tracking
\* table another has just created: they take turns (Apply's advisory lock).
THEOREM ProcessesTakeTurns == MigrationSpec => []NeverCollides
<1>1. MInv => NeverCollides
  BY DEF MInv, TakesTurns
<1>. QED BY <1>1, MigrationInvariant, PTL

\* A worker or a server that started has every migration its build carries, of
\* every context it uses (requireCurrentSchema, migrateSchemas).
THEOREM StartsOnCurrent == MigrationSpec => []StartsOnCurrentSchema
<1>1. MInv => StartsOnCurrentSchema
  BY DEF MInv, KeepsUp, StartsOnCurrentSchema, AtRest
<1>. QED BY <1>1, MigrationInvariant, PTL

-----------------------------------------------------------------------------
(* Planning a fleet.                                                       *)

\* Where the worker and the workflow may stand.
PlanningSteps ==
  /\ worker \in {"idle", "begun", "clone", "agent", "verify", "done", "failed", "killed"}
  /\ flow \in {"start", "unrecorded", "generate", "store", "ready", "succeeding", "failing",
               "succeeded", "failed"}
  /\ clone \in BOOLEAN /\ readySent \in BOOLEAN /\ lateStore \in BOOLEAN
  /\ flow \in {"start", "unrecorded"} <=> worker = "idle"

\* The activity answers for a plan only once it has compared the checkout with
\* what it read first, and nothing reads it again.
JudgedWhole ==
  /\ worker \in {"clone", "agent", "verify"} => before = Planned!Fingerprint(began)
  /\ worker = "done" => left = began /\ Planned!ValidatePlan(answer.plan)

\* Whatever reaches the store, on time or late, is the judged answer.
StoresTheAnswer ==
  /\ flow \in {"store", "ready", "succeeding", "succeeded"} => worker = "done" /\ result = answer.plan
  /\ lateStore = TRUE \/ document # Planned!NoPlan => worker = "done"
  /\ flow \in {"ready", "succeeding", "succeeded"} => document = answer.plan
  /\ document \in {Planned!NoPlan, answer.plan}
  /\ readySent = TRUE => flow \in {"succeeding", "succeeded"}

\* A write that reports success is sent by a workflow that has stored its plan,
\* and describes that plan.
PlanTold == flow = "succeeded"
TellsThePlan(w) == w.status = "succeeded" => PlanTold /\ w.detail = Planned!Detail(answer.plan)

RowTellsThePlan == TellsThePlan(entry) /\ \A w \in pending : TellsThePlan(w)

PlanningInv ==
  PlanningSteps /\ JudgedWhole /\ StoresTheAnswer /\ RowTellsThePlan

LEMMA PlanningStarts == Planned!InitPlanning => PlanningInv
<1>. SUFFICES ASSUME Planned!InitPlanning PROVE PlanningInv
  OBVIOUS
<1>1. PlanningSteps
  BY DEF Planned!InitPlanning, PlanningSteps
<1>2. JudgedWhole
  BY DEF Planned!InitPlanning, JudgedWhole
<1>3. StoresTheAnswer
  BY DEF Planned!InitPlanning, StoresTheAnswer
<1>4. RowTellsThePlan
  BY DEF Planned!InitPlanning, RowTellsThePlan, TellsThePlan, Planned!NoRow
<1>. QED BY <1>1, <1>2, <1>3, <1>4 DEF PlanningInv

-----------------------------------------------------------------------------
\* Recording a write that says nothing of a success keeps what is told, while a
\* success that was told is neither taken back nor answered anew.
LEMMA QuietRecording ==
  ASSUME RowTellsThePlan, UNCHANGED answer, PlanTold => PlanTold',
         \/ UNCHANGED Planned!recordVars
         \/ Planned!LateWrite
         \/ \E p : \/ Planned!Recorded(Planned!Write("running", p)) \/ Planned!Unrecorded(Planned!Write("running", p))
                   \/ Planned!Recorded(Planned!Write("failed", p)) \/ Planned!Unrecorded(Planned!Write("failed", p))
  PROVE  RowTellsThePlan'
<1>1. ASSUME UNCHANGED Planned!recordVars \/ Planned!LateWrite PROVE RowTellsThePlan'
  BY <1>1 DEF RowTellsThePlan, TellsThePlan, Planned!recordVars, Planned!LateWrite, Planned!Upsert, Planned!Detail
<1>2. ASSUME NEW w, w.status # "succeeded", Planned!Recorded(w) \/ Planned!Unrecorded(w) PROVE RowTellsThePlan'
  BY <1>2 DEF RowTellsThePlan, TellsThePlan, Planned!Recorded, Planned!Unrecorded, Planned!Upsert, Planned!Detail
<1>3. \A p : Planned!Write("running", p).status = "running" /\ Planned!Write("failed", p).status = "failed"
  BY DEF Planned!Write
<1>. QED BY <1>1, <1>2, <1>3

LEMMA CheckoutKeeps == ASSUME PlanningInv, Planned!Touch PROVE PlanningInv'
BY QuietRecording DEF PlanningInv, Planned!Touch, PlanningSteps, JudgedWhole, StoresTheAnswer,
   PlanTold, Planned!workerVars, Planned!flowVars, Planned!storeVars, Planned!recordVars, Planned!Fingerprint

\* The activity's steps change nothing a workflow that went on has taken.
LEMMA WorkerKeeps == ASSUME PlanningInv, Planned!GeneratePlan PROVE PlanningInv'
<1>1. UNCHANGED <<flow, result, lateStore, document, readySent, entry, pending>>
  BY DEF Planned!GeneratePlan, Planned!ReadBefore, Planned!AddDisposableClone, Planned!RunReadOnly, Planned!Judge, Planned!Kill, Planned!Returns,
         Planned!flowVars, Planned!storeVars, Planned!recordVars
<1>2. worker \in {"begun", "clone", "agent", "verify"}
  BY DEF Planned!GeneratePlan, Planned!ReadBefore, Planned!AddDisposableClone, Planned!RunReadOnly, Planned!Judge, Planned!Kill
<1>3. flow \in {"generate", "failing", "failed"} /\ document = Planned!NoPlan /\ lateStore = FALSE
  BY <1>2 DEF PlanningInv, PlanningSteps, StoresTheAnswer
<1>4. PlanningSteps'
  BY <1>1, <1>3 DEF PlanningInv, PlanningSteps, Planned!GeneratePlan, Planned!ReadBefore, Planned!AddDisposableClone,
     Planned!RunReadOnly, Planned!Judge, Planned!Kill, Planned!Returns
<1>5. JudgedWhole'
  BY DEF PlanningInv, JudgedWhole, PlanningSteps, Planned!GeneratePlan, Planned!ReadBefore, Planned!AddDisposableClone,
     Planned!RunReadOnly, Planned!Judge, Planned!Kill, Planned!Returns, Planned!Fingerprint, Planned!checkoutVars
<1>6. StoresTheAnswer'
  BY <1>1, <1>3 DEF PlanningInv, PlanningSteps, StoresTheAnswer
<1>7. RowTellsThePlan'
  BY <1>1, <1>3 DEF PlanningInv, RowTellsThePlan, TellsThePlan, PlanTold
<1>. QED BY <1>4, <1>5, <1>6, <1>7 DEF PlanningInv

\* Steps of the workflow that record nothing.
LEMMA FlowKeeps ==
  ASSUME PlanningInv, Planned!AwaitPlan \/ Planned!StorePlan \/ Planned!LateStore \/ Planned!NotifyReady \/ Planned!CancelPlanning
  PROVE  PlanningInv'
<1>1. UNCHANGED <<worker, clone, before, answer, began, left, entry, pending>>
  BY DEF Planned!AwaitPlan, Planned!StorePlan, Planned!LateStore, Planned!NotifyReady, Planned!CancelPlanning, Planned!workerVars, Planned!checkoutVars,
         Planned!recordVars
<1>2. PlanTold => PlanTold'
  BY DEF Planned!AwaitPlan, Planned!StorePlan, Planned!LateStore, Planned!NotifyReady, Planned!CancelPlanning, PlanTold, Planned!flowVars
<1>3. PlanningSteps'
  BY <1>1 DEF PlanningInv, PlanningSteps, Planned!AwaitPlan, Planned!StorePlan, Planned!LateStore, Planned!NotifyReady,
     Planned!CancelPlanning, Planned!StoreFails, Planned!flowVars, Planned!storeVars
<1>4. StoresTheAnswer'
  <2>1. CASE Planned!AwaitPlan
    BY <1>1, <2>1 DEF Planned!AwaitPlan, PlanningInv, PlanningSteps, StoresTheAnswer, Planned!storeVars
  <2>2. CASE Planned!StorePlan
    BY <1>1, <2>2 DEF Planned!StorePlan, PlanningInv, PlanningSteps, StoresTheAnswer, Planned!StoreFails
  <2>3. CASE Planned!LateStore
    BY <1>1, <2>3 DEF Planned!LateStore, PlanningInv, PlanningSteps, StoresTheAnswer, Planned!flowVars
  <2>4. CASE Planned!NotifyReady
    BY <1>1, <2>4 DEF Planned!NotifyReady, PlanningInv, PlanningSteps, StoresTheAnswer, Planned!storeVars
  <2>5. CASE Planned!CancelPlanning
    BY <1>1, <2>5 DEF Planned!CancelPlanning, PlanningInv, PlanningSteps, StoresTheAnswer, Planned!storeVars
  <2>. QED BY <2>1, <2>2, <2>3, <2>4, <2>5
<1>5. JudgedWhole'
  BY <1>1 DEF PlanningInv, JudgedWhole, Planned!Fingerprint
<1>6. RowTellsThePlan'
  BY <1>1, <1>2, QuietRecording DEF PlanningInv, Planned!recordVars
<1>. QED BY <1>3, <1>4, <1>5, <1>6 DEF PlanningInv

\* Steps that write the row.
LEMMA RecordKeeps ==
  ASSUME PlanningInv, Planned!StartPlanning \/ Planned!Settle \/ Planned!LateRecord
  PROVE  PlanningInv'
<1>1. UNCHANGED <<clone, before, answer, began, left, result, readySent, lateStore, document>>
  BY DEF Planned!StartPlanning, Planned!Settle, Planned!LateRecord, Planned!workerVars, Planned!flowVars, Planned!checkoutVars, Planned!storeVars
<1>2. PlanTold => PlanTold'
  BY DEF Planned!StartPlanning, Planned!Settle, Planned!LateRecord, PlanTold, Planned!flowVars
<1>3. PlanningSteps'
  BY <1>1 DEF PlanningInv, PlanningSteps, Planned!StartPlanning, Planned!Settle, Planned!LateRecord, Planned!workerVars, Planned!flowVars
<1>4. StoresTheAnswer'
  BY <1>1 DEF PlanningInv, PlanningSteps, StoresTheAnswer, Planned!StartPlanning, Planned!Settle, Planned!LateRecord,
     Planned!workerVars, Planned!flowVars
<1>5. JudgedWhole'
  BY <1>1 DEF PlanningInv, PlanningSteps, JudgedWhole, Planned!Fingerprint,
     Planned!StartPlanning, Planned!Settle, Planned!LateRecord, Planned!workerVars
<1>6. RowTellsThePlan'
  <2>1. CASE Planned!StartPlanning \/ Planned!LateRecord
    BY <1>1, <1>2, <2>1, QuietRecording DEF PlanningInv, Planned!StartPlanning, Planned!LateRecord
  <2>2. CASE Planned!Settle /\ flow = "failing"
    BY <1>1, <1>2, <2>2, QuietRecording DEF PlanningInv, Planned!Settle
  <2>3. CASE Planned!Settle /\ flow = "succeeding"
    <3>. DEFINE w == Planned!Write("succeeded", result)
    <3>1. w.status = "succeeded" /\ w.detail = Planned!Detail(answer.plan)
      BY <2>3 DEF Planned!Write, PlanningInv, StoresTheAnswer
    <3>2. Planned!Recorded(w) \/ Planned!Unrecorded(w)
      BY <2>3 DEF Planned!Settle
    <3>3. PlanTold'
      BY <2>3 DEF Planned!Settle, PlanTold
    <3>. HIDE DEF w
    <3>4. entry' \in {entry, w} /\ pending' \subseteq pending \cup {w}
      BY <3>2 DEF Planned!Recorded, Planned!Unrecorded, Planned!Upsert
    <3>. QED BY <1>1, <3>1, <3>3, <3>4 DEF PlanningInv, RowTellsThePlan, TellsThePlan, Planned!Detail
  <2>. QED BY <2>1, <2>2, <2>3 DEF Planned!Settle
<1>. QED BY <1>3, <1>4, <1>5, <1>6 DEF PlanningInv

\* Whatever the checkout, the agent, the worker, the store and the operator do:
\* a plan that was announced or recorded is stored under the handle and can be
\* executed, and planning it disturbed nothing.
THEOREM StoredPlansAreSound == Planned!PlanningSpec => []PlansAreSound
<1>1. PlanningInv /\ [Planned!NextPlanning]_Planned!planningVars => PlanningInv'
  <2>. SUFFICES ASSUME PlanningInv, [Planned!NextPlanning]_Planned!planningVars PROVE PlanningInv'
    OBVIOUS
  <2>1. CASE UNCHANGED Planned!planningVars
    <3>1. UNCHANGED <<worker, flow, clone, before, answer, began, left, result, readySent,
                      lateStore, document, entry, pending>>
      BY <2>1 DEF Planned!planningVars, Planned!checkoutVars, Planned!workerVars, Planned!flowVars, Planned!storeVars, Planned!recordVars
    <3>. QED BY <3>1 DEF PlanningInv, PlanningSteps, JudgedWhole, StoresTheAnswer,
                RowTellsThePlan, TellsThePlan, PlanTold, Planned!Fingerprint, Planned!Detail
  <2>. QED BY <2>1, CheckoutKeeps, WorkerKeeps, FlowKeeps, RecordKeeps DEF Planned!NextPlanning
<1>2. PlanningInv => PlansAreSound
  <2>. SUFFICES ASSUME PlanningInv PROVE PlansAreSound
    OBVIOUS
  <2>1. worker = "done" => answer.plan # Planned!NoPlan
    BY DEF PlanningInv, JudgedWhole, Planned!ValidatePlan, Planned!WellFormed, Planned!NoPlan
  <2>2. Planned!HandlesResolve
    BY <2>1 DEF PlanningInv, PlanningSteps, JudgedWhole, StoresTheAnswer, RowTellsThePlan,
       TellsThePlan, PlanTold, Planned!HandlesResolve
  <2>3. Planned!PlansDisturbNothing
    BY DEF PlanningInv, JudgedWhole, StoresTheAnswer, Planned!PlansDisturbNothing
  <2>. QED BY <2>2, <2>3 DEF PlansAreSound, Planned!PlansAreSound, PlanningInv
<1>. QED BY <1>1, <1>2, PlanningStarts, PTL DEF Planned!PlanningSpec

-----------------------------------------------------------------------------
(* The live streams.                                                       *)

Turns == Stream!Numbers("conversation")

Talks(w) == Written[w] = "conversation"
Listens(r) == Follows[r] = "conversation"

\* What the variables range over, as far as a conversation goes.
StreamTypes ==
  /\ rows \subseteq [kind : {Written[w] : w \in Writers}, number : Nat]
  /\ drawn \in Nat
  /\ writer \in [Writers -> [step : {"new", "open", "committed", "rolled back"}, number : Nat]]
  /\ DOMAIN stream = Readers /\ stream = [r \in Readers |-> stream[r]]
  /\ after = [r \in Readers |-> after[r]] /\ stored = [r \in Readers |-> stored[r]]
  /\ heard = [r \in Readers |-> heard[r]]
  /\ \A r \in Readers : Listens(r) => stream[r] \in [open : BOOLEAN, position : Nat]

\* The turns are numbered without a gap, and the one being written is next.
Gapless(k) ==
  /\ Turns = 1..k
  /\ \A w \in Writers : Talks(w) /\ writer[w].step = "open" => writer[w].number = k + 1

\* Who writes a turn has the lock, and nobody else does.
LockHeld ==
  /\ lock # Stream!Free => lock \in Writers /\ Talks(lock) /\ writer[lock].step = "open"
  /\ \A w \in Writers : Talks(w) /\ writer[w].step = "open" => lock = w

\* A position is that of a turn, or the beginning, and what is before it was sent.
Covered(r, p) ==
  /\ p \in {0} \cup Turns
  /\ \A n \in Turns : n <= p => n \in heard[r]

Followed ==
  \A r \in Readers : Listens(r) =>
    Covered(r, stored[r]) /\ Covered(r, after[r]) /\ Covered(r, stream[r].position)

StreamInv == StreamTypes /\ (\E k \in Nat : Gapless(k)) /\ LockHeld /\ Followed

LEMMA LastOfRange ==
  ASSUME NEW k \in Nat
  PROVE  /\ Stream!Last(1..k) = k
         /\ \A p \in 0..k : p < k => Stream!Last({n \in 1..k : n > p}) = k
<1>1. ASSUME NEW S, S \subseteq 0..k, k \in S PROVE Stream!Max(S) = k
  <2>1. \E x \in S : \A y \in S : x >= y
    BY <1>1
  <2>2. Stream!Max(S) \in S /\ \A y \in S : Stream!Max(S) >= y
    BY <2>1, Zenon DEF Stream!Max
  <2>3. Stream!Max(S) \in 0..k /\ Stream!Max(S) >= k
    BY <1>1, <2>2
  <2>4. \A m \in 0..k : m >= k => m = k
    OBVIOUS
  <2>. QED BY <2>3, <2>4
<1>2. {0} \cup 1..k \subseteq 0..k /\ k \in {0} \cup 1..k
  OBVIOUS
<1>3. \A p \in 0..k : p < k => {0} \cup {n \in 1..k : n > p} \subseteq 0..k /\ k \in {0} \cup {n \in 1..k : n > p}
  OBVIOUS
<1>. QED BY <1>1, <1>2, <1>3 DEF Stream!Last

LEMMA StreamStarts == Stream!Init => StreamInv
<1>. SUFFICES ASSUME Stream!Init PROVE StreamInv
  OBVIOUS
<1>. USE DEF Stream!Init
<1>1. Turns = {} /\ Turns = 1..0
  BY DEF Turns, Stream!Numbers
<1>2. Gapless(0)
  BY <1>1 DEF Gapless
<1>3. StreamTypes /\ LockHeld
  BY DEF StreamTypes, LockHeld
<1>4. Followed
  BY <1>1 DEF Followed, Covered
<1>. QED BY <1>2, <1>3, <1>4 DEF StreamInv

\* A step of a writer leaves the readers alone.
LEMMA ReadersKeep ==
  ASSUME StreamInv, UNCHANGED <<stream, after, stored, heard>>, NEW k \in Nat, Gapless(k),
         Turns' = Turns \/ Turns' = 1..(k + 1)
  PROVE  Followed'
<1>. SUFFICES ASSUME NEW r \in Readers, Listens(r), NEW p, Covered(r, p)
              PROVE  p \in {0} \cup Turns' /\ \A n \in Turns' : n <= p => n \in heard[r]
  BY DEF StreamInv, Followed, Covered, Listens
<1>1. Turns = 1..k
  BY DEF Gapless
<1>2. CASE Turns' = Turns
  BY <1>2 DEF Covered
<1>3. CASE Turns' = 1..(k + 1)
  <2>1. p \in 0..k /\ \A n \in 1..k : n <= p => n \in heard[r]
    BY <1>1 DEF Covered
  <2>2. \A n \in 1..(k + 1) : n <= p => n \in 1..k
    BY <2>1
  <2>. QED BY <1>3, <2>1, <2>2
<1>. QED BY <1>2, <1>3

LEMMA InsertKeeps ==
  ASSUME StreamInv, Stream!Free \notin Writers, NEW w \in Writers, Stream!Insert(w) PROVE StreamInv'
<1>. PICK k \in Nat : Gapless(k)
  BY DEF StreamInv
<1>. DEFINE number == Stream!NextNumber(w).number
            opened == [step |-> "open", number |-> number]
<1>1. UNCHANGED <<rows, stream, after, stored, heard>> /\ Turns' = Turns
  BY DEF Stream!Insert, Turns, Stream!Numbers
<1>2. /\ number \in Nat /\ drawn' \in Nat
      /\ Talks(w) => number = k + 1
  <2>1. Turns = 1..k /\ drawn \in Nat
    BY DEF Gapless, StreamInv, StreamTypes
  <2>2. Stream!Last(Turns) = k
    BY <2>1, LastOfRange
  <2>. QED BY <2>1, <2>2 DEF Stream!Insert, Stream!NextNumber, Turns, Talks
<1>. HIDE DEF number
<1>3. /\ opened \in [step : {"new", "open", "committed", "rolled back"}, number : Nat]
      /\ opened.step = "open" /\ opened.number = number
  BY <1>2
<1>4. writer' = [writer EXCEPT ![w] = opened]
  BY DEF Stream!Insert, number
<1>. HIDE DEF opened
<1>5. /\ writer'[w] = opened /\ \A v \in Writers : v # w => writer'[v] = writer[v]
      /\ writer' \in [Writers -> [step : {"new", "open", "committed", "rolled back"}, number : Nat]]
  BY <1>3, <1>4 DEF StreamInv, StreamTypes
<1>6. StreamTypes'
  BY <1>1, <1>2, <1>5 DEF StreamInv, StreamTypes, Listens
<1>7. Gapless(k)'
  <2>1. Turns' = 1..k
    BY <1>1 DEF Gapless
  <2>2. ASSUME NEW v \in Writers, Talks(v), writer'[v].step = "open" PROVE writer'[v].number = k + 1
    BY <1>2, <1>3, <1>5, <2>2 DEF Gapless
  <2>. QED BY <2>1, <2>2 DEF Gapless, Talks
<1>8. LockHeld'
  <2>1. CASE Talks(w)
    <3>1. lock = Stream!Free /\ lock' = w
      BY <2>1 DEF Stream!Insert, Talks
    <3>. QED BY <1>3, <1>5, <2>1, <3>1 DEF LockHeld, StreamInv, Talks
  <2>2. CASE ~Talks(w)
    <3>1. lock' = lock
      BY <2>2 DEF Stream!Insert, Talks
    <3>. QED BY <1>3, <1>5, <2>2, <3>1 DEF LockHeld, StreamInv, Talks
  <2>. QED BY <2>1, <2>2
<1>9. Followed'
  BY <1>1, ReadersKeep
<1>. QED BY <1>6, <1>7, <1>8, <1>9 DEF StreamInv

\* Ending a transaction gives the lock back.
LEMMA ReleaseKeepsLockHeld ==
  ASSUME StreamInv, Stream!Free \notin Writers, NEW w \in Writers, writer[w].step = "open",
         NEW ending \in {"committed", "rolled back"},
         writer' = [writer EXCEPT ![w].step = ending], lock' = Stream!Unlocked(w)
  PROVE  /\ LockHeld'
         /\ writer' \in [Writers -> [step : {"new", "open", "committed", "rolled back"}, number : Nat]]
         /\ \A v \in Writers : writer'[v].step = "open" => v # w /\ writer'[v] = writer[v]
<1>. DEFINE ended == [writer[w] EXCEPT !.step = ending]
<1>1. writer \in [Writers -> [step : {"new", "open", "committed", "rolled back"}, number : Nat]]
  BY DEF StreamInv, StreamTypes
<1>2. /\ ended \in [step : {"new", "open", "committed", "rolled back"}, number : Nat]
      /\ ended.step # "open"
  BY <1>1
<1>3. writer' = [writer EXCEPT ![w] = ended]
  BY <1>1
<1>. HIDE DEF ended
<1>4. /\ writer'[w] = ended /\ \A v \in Writers : v # w => writer'[v] = writer[v]
      /\ writer' \in [Writers -> [step : {"new", "open", "committed", "rolled back"}, number : Nat]]
  BY <1>1, <1>2, <1>3
<1>5. CASE Talks(w)
  <2>1. lock = w /\ lock' = Stream!Free
    BY <1>5 DEF StreamInv, LockHeld, Stream!Unlocked
  <2>. QED BY <1>2, <1>4, <1>5, <2>1 DEF StreamInv, LockHeld, Talks
<1>6. CASE ~Talks(w)
  <2>1. lock # w /\ lock' = lock
    BY <1>6 DEF StreamInv, LockHeld, Stream!Unlocked
  <2>. QED BY <1>2, <1>4, <1>6, <2>1 DEF StreamInv, LockHeld, Talks
<1>. QED BY <1>5, <1>6

LEMMA CommitKeeps ==
  ASSUME StreamInv, Stream!Free \notin Writers, NEW w \in Writers, Stream!Commit(w) PROVE StreamInv'
<1>. PICK k \in Nat : Gapless(k)
  BY DEF StreamInv
<1>. DEFINE added == [kind |-> Written[w], number |-> writer[w].number]
<1>1. UNCHANGED <<drawn, stream, after, stored, heard>> /\ rows' = rows \cup {added}
  BY DEF Stream!Commit
<1>2. /\ LockHeld'
      /\ writer' \in [Writers -> [step : {"new", "open", "committed", "rolled back"}, number : Nat]]
      /\ \A v \in Writers : writer'[v].step = "open" => v # w /\ writer'[v] = writer[v]
  BY ReleaseKeepsLockHeld DEF Stream!Commit
<1>3. writer[w].number \in Nat /\ Turns = 1..k
  BY DEF StreamInv, StreamTypes, Gapless
<1>4. Turns' = IF Talks(w) THEN Turns \cup {writer[w].number} ELSE Turns
  <2>1. Turns' = {q.number : q \in {r \in rows \cup {added} : r.kind = "conversation"}}
    BY <1>1 DEF Turns, Stream!Numbers
  <2>2. Turns = {q.number : q \in {r \in rows : r.kind = "conversation"}}
    BY DEF Turns, Stream!Numbers
  <2>3. added.kind = Written[w] /\ added.number = writer[w].number
    OBVIOUS
  <2>. HIDE DEF added
  <2>4. CASE Talks(w)
    BY <2>1, <2>2, <2>3, <2>4 DEF Talks
  <2>5. CASE ~Talks(w)
    BY <2>1, <2>2, <2>3, <2>5 DEF Talks
  <2>. QED BY <2>4, <2>5
<1>5. StreamTypes'
  <2>1. added \in [kind : {Written[v] : v \in Writers}, number : Nat]
    BY <1>3
  <2>. HIDE DEF added
  <2>2. rows' \subseteq [kind : {Written[v] : v \in Writers}, number : Nat]
    BY <1>1, <2>1 DEF StreamInv, StreamTypes
  <2>. QED BY <1>1, <1>2, <2>2 DEF StreamInv, StreamTypes, Listens
<1>6. CASE Talks(w)
  <2>1. writer[w].number = k + 1 /\ Turns' = 1..(k + 1)
    BY <1>3, <1>4, <1>6 DEF Gapless, Stream!Commit
  <2>2. \A v \in Writers : ~(Talks(v) /\ writer'[v].step = "open")
    BY <1>2, <1>6 DEF StreamInv, LockHeld, Stream!Commit
  <2>3. Gapless(k + 1)'
    BY <2>1, <2>2 DEF Gapless, Talks
  <2>4. Followed'
    BY <1>1, <2>1, ReadersKeep
  <2>5. k + 1 \in Nat
    OBVIOUS
  <2>6. (\E j \in Nat : Gapless(j))'
    BY <2>3, <2>5
  <2>. QED BY <1>2, <1>5, <2>4, <2>6 DEF StreamInv
<1>7. CASE ~Talks(w)
  <2>1. Turns' = Turns
    BY <1>4, <1>7
  <2>2. Gapless(k)'
    BY <1>2, <2>1 DEF Gapless, Talks
  <2>3. Followed'
    BY <1>1, <2>1, ReadersKeep
  <2>. QED BY <1>2, <1>5, <2>2, <2>3 DEF StreamInv
<1>. QED BY <1>6, <1>7

LEMMA RollBackKeeps ==
  ASSUME StreamInv, Stream!Free \notin Writers, NEW w \in Writers, Stream!RollBack(w) PROVE StreamInv'
<1>. PICK k \in Nat : Gapless(k)
  BY DEF StreamInv
<1>1. UNCHANGED <<rows, drawn, stream, after, stored, heard>> /\ Turns' = Turns
  BY DEF Stream!RollBack, Turns, Stream!Numbers
<1>2. /\ LockHeld'
      /\ writer' \in [Writers -> [step : {"new", "open", "committed", "rolled back"}, number : Nat]]
      /\ \A v \in Writers : writer'[v].step = "open" => v # w /\ writer'[v] = writer[v]
  BY ReleaseKeepsLockHeld DEF Stream!RollBack
<1>3. StreamTypes'
  BY <1>1, <1>2 DEF StreamInv, StreamTypes, Listens
<1>4. Gapless(k)'
  BY <1>1, <1>2 DEF Gapless, Talks
<1>5. Followed'
  BY <1>1, ReadersKeep
<1>. QED BY <1>2, <1>3, <1>4, <1>5 DEF StreamInv

\* A step of a reader leaves the writers alone.
LEMMA WritersKeep ==
  ASSUME StreamInv, UNCHANGED <<rows, drawn, lock, writer>>, StreamTypes', Followed'
  PROVE  StreamInv'
<1>1. Turns' = Turns
  BY DEF Turns, Stream!Numbers
<1>. PICK k \in Nat : Gapless(k)
  BY DEF StreamInv
<1>2. Gapless(k)' /\ LockHeld'
  BY <1>1 DEF Gapless, LockHeld, Talks, StreamInv
<1>. QED BY <1>2 DEF StreamInv

\* A page starts again where its storage, or its address, says.
LEMMA OpenKeeps ==
  ASSUME StreamInv, NEW r \in Readers, Stream!Load(r) \/ Stream!Reconnect(r) PROVE StreamInv'
<1>. DEFINE address == IF Stream!Load(r) THEN stored[r] ELSE after[r]
            lastEventID == IF Stream!Load(r) THEN 0 ELSE stored[r]
            position == Stream!streamPosition(address, lastEventID)
            opened == [open |-> TRUE, position |-> position]
<1>1. Turns' = Turns /\ Turns \subseteq Nat
  BY DEF Turns, Stream!Numbers, Stream!Load, Stream!Reconnect, Stream!Open, StreamInv, Gapless
<1>2. /\ UNCHANGED <<rows, drawn, lock, writer, stored, heard>>
      /\ stream' = stream \/ stream' = [stream EXCEPT ![r] = opened]
      /\ after' = after \/ after' = [after EXCEPT ![r] = stored[r]]
  BY DEF Stream!Load, Stream!Reconnect, Stream!Open
<1>3. Listens(r) => Covered(r, stored[r]) /\ Covered(r, position)
  <2>1. position \in {stored[r], after[r], 0}
    BY DEF Stream!streamPosition
  <2>2. Covered(r, 0)
    BY DEF StreamInv, Covered, Gapless
  <2>. QED BY <2>1, <2>2 DEF StreamInv, Followed
<1>. HIDE DEF position
<1>4. opened.open = TRUE /\ opened.position = position
  OBVIOUS
<1>5. Listens(r) => opened \in [open : BOOLEAN, position : Nat]
  <2>1. ASSUME Listens(r) PROVE position \in Nat
    <3>1. Covered(r, position)
      BY <1>3, <2>1
    <3>2. position \in {0} \cup Turns
      BY <3>1 DEF Covered
    <3>3. Turns \subseteq Nat
      BY <1>1
    <3>. QED BY <3>2, <3>3
  <2>. QED BY <2>1 DEF Listens
<1>. HIDE DEF opened
<1>6. /\ \A q \in Readers : q # r => stream'[q] = stream[q] /\ after'[q] = after[q]
      /\ stream'[r] \in {stream[r], opened} /\ after'[r] \in {after[r], stored[r]}
      /\ DOMAIN stream' = Readers /\ stream' = [q \in Readers |-> stream'[q]]
      /\ after' = [q \in Readers |-> after'[q]]
  <2>1. stream = [q \in Readers |-> stream[q]] /\ after = [q \in Readers |-> after[q]]
        /\ DOMAIN stream = Readers
    BY DEF StreamInv, StreamTypes
  <2>2. /\ \A q \in Readers : q # r => stream'[q] = stream[q]
        /\ stream'[r] \in {stream[r], opened}
        /\ DOMAIN stream' = Readers /\ stream' = [q \in Readers |-> stream'[q]]
    BY <1>2, <2>1
  <2>3. /\ \A q \in Readers : q # r => after'[q] = after[q]
        /\ after'[r] \in {after[r], stored[r]} /\ after' = [q \in Readers |-> after'[q]]
    BY <1>2, <2>1
  <2>. QED BY <2>2, <2>3
<1>7. StreamTypes'
  BY <1>2, <1>5, <1>6 DEF StreamInv, StreamTypes, Listens
<1>8. ASSUME NEW q \in Readers, Listens(q)
      PROVE  Covered(q, stored[q]) /\ Covered(q, after'[q]) /\ Covered(q, stream'[q].position)
  BY <1>3, <1>4, <1>6, <1>8 DEF StreamInv, Followed
<1>9. Followed'
  BY <1>1, <1>2, <1>8 DEF Followed, Covered, Listens
<1>. QED BY <1>2, <1>7, <1>9, WritersKeep

\* One read of a conversation takes everything after the position.
LEMMA PollKeeps == ASSUME StreamInv, NEW r \in Readers, Stream!Poll(r) PROVE StreamInv'
<1>. DEFINE following == Stream!Following(r)
            last == Stream!Last(following)
            moved == [stream[r] EXCEPT !.position = last]
<1>. PICK k \in Nat : Gapless(k)
  BY DEF StreamInv
<1>1. /\ UNCHANGED <<rows, drawn, lock, writer, after>>
      /\ heard' = [heard EXCEPT ![r] = heard[r] \cup following]
      /\ stream' = [stream EXCEPT ![r] = moved]
      /\ stored' = [stored EXCEPT ![r] = last]
  BY DEF Stream!Poll, StreamInv, StreamTypes
<1>2. Turns' = Turns /\ Turns = 1..k
  BY <1>1 DEF Turns, Stream!Numbers, Gapless
<1>3. ASSUME Listens(r)
      PROVE  /\ last = k /\ last \in {0} \cup Turns
             /\ \A n \in Turns : n \in heard[r] \/ n \in following
  <2>1. Covered(r, stream[r].position)
    BY <1>3 DEF StreamInv, Followed
  <2>2. following = {n \in 1..k : n > stream[r].position} /\ following # {}
    BY <1>2, <1>3 DEF Stream!Following, Stream!Poll, Listens, Turns
  <2>3. stream[r].position \in 0..k
    BY <1>2, <2>1 DEF Covered
  <2>4. stream[r].position < k
    BY <2>2, <2>3
  <2>. DEFINE next(p) == {n \in 1..k : n > p}
  <2>7. \A p \in 0..k : p < k => Stream!Last(next(p)) = k
    BY LastOfRange
  <2>8. following = next(stream[r].position)
    BY <2>2
  <2>. HIDE DEF following, next
  <2>6. last = k /\ k > 0
    BY <2>3, <2>4, <2>7, <2>8
  <2>5. \A n \in 1..k : n <= stream[r].position \/ n > stream[r].position
    BY <2>3
  <2>. HIDE DEF last
  <2>. QED BY <1>2, <2>1, <2>2, <2>5, <2>6 DEF Covered
<1>4. Listens(r) => moved \in [open : BOOLEAN, position : Nat] /\ moved.position = last
  BY <1>3 DEF StreamInv, StreamTypes
<1>. HIDE DEF moved, following, last
<1>5. /\ \A q \in Readers : q # r =>
           stream'[q] = stream[q] /\ stored'[q] = stored[q] /\ heard'[q] = heard[q]
      /\ stream'[r] = moved /\ stored'[r] = last /\ heard'[r] = heard[r] \cup following
      /\ DOMAIN stream' = Readers /\ stream' = [q \in Readers |-> stream'[q]]
      /\ stored' = [q \in Readers |-> stored'[q]] /\ heard' = [q \in Readers |-> heard'[q]]
  BY <1>1 DEF StreamInv, StreamTypes
<1>6. StreamTypes'
  BY <1>1, <1>4, <1>5 DEF StreamInv, StreamTypes, Listens
<1>7. ASSUME NEW q \in Readers, Listens(q)
      PROVE  \A p \in {stored'[q], after'[q], stream'[q].position} :
               p \in {0} \cup Turns /\ \A n \in Turns : n <= p => n \in heard'[q]
  <2>1. Covered(q, stored[q]) /\ Covered(q, after[q]) /\ Covered(q, stream[q].position)
    BY <1>7 DEF StreamInv, Followed
  <2>2. CASE q # r
    BY <1>1, <1>5, <2>1, <2>2 DEF Covered
  <2>3. CASE q = r
    BY <1>1, <1>3, <1>4, <1>5, <1>7, <2>1, <2>3 DEF Covered
  <2>. QED BY <2>2, <2>3
<1>8. Followed'
  BY <1>2, <1>7 DEF Followed, Covered, Listens
<1>. QED BY <1>1, <1>6, <1>8, WritersKeep

LEMMA EndKeeps ==
  ASSUME StreamInv, NEW r \in Readers, NEW why, Stream!End(r, why) PROVE StreamInv'
<1>. DEFINE closed == [stream[r] EXCEPT !.open = FALSE]
<1>1. /\ UNCHANGED <<rows, drawn, lock, writer, after, stored, heard>>
      /\ stream' = [stream EXCEPT ![r] = closed]
  BY DEF Stream!End, StreamInv, StreamTypes
<1>2. Turns' = Turns
  BY <1>1 DEF Turns, Stream!Numbers
<1>3. Listens(r) => closed \in [open : BOOLEAN, position : Nat]
                    /\ closed.position = stream[r].position
  BY DEF StreamInv, StreamTypes
<1>. HIDE DEF closed
<1>4. /\ \A q \in Readers : q # r => stream'[q] = stream[q]
      /\ stream'[r] = closed
      /\ DOMAIN stream' = Readers /\ stream' = [q \in Readers |-> stream'[q]]
  BY <1>1 DEF StreamInv, StreamTypes
<1>5. StreamTypes'
  BY <1>1, <1>3, <1>4 DEF StreamInv, StreamTypes, Listens
<1>6. \A q \in Readers : Listens(q) => stream'[q].position = stream[q].position
  BY <1>3, <1>4
<1>7. Followed'
  BY <1>1, <1>2, <1>6 DEF StreamInv, Followed, Covered, Listens
<1>. QED BY <1>1, <1>5, <1>7, WritersKeep

LEMMA StillKeeps ==
  ASSUME StreamInv, UNCHANGED <<rows, drawn, lock, writer, stream, after, stored, heard>>
  PROVE  StreamInv'
<1>1. Turns' = Turns
  BY DEF Turns, Stream!Numbers
<1>2. StreamTypes'
  BY DEF StreamInv, StreamTypes, Listens
<1>3. Followed'
  BY <1>1 DEF StreamInv, Followed, Covered, Listens
<1>. QED BY <1>2, <1>3, WritersKeep

\* For any writers and readers: a page that has seen a turn was sent every
\* turn before it (Store.AppendMessage numbers under the session's lock,
\* streamConversation resumes after the last number), through lost
\* connections, reloads, expired credentials and rolled back transactions.
\* Free names the lock that nobody holds, so it is no writer.
THEOREM ConversationIsWhole ==
  ASSUME Stream!Free \notin Writers
  PROVE  Stream!Spec => []ConversationMissesNothing
<1>1. ASSUME StreamInv, [Stream!Next]_Stream!vars PROVE StreamInv'
  <2>1. CASE UNCHANGED Stream!vars
    BY <1>1, <2>1, StillKeeps DEF Stream!vars
  <2>2. ASSUME NEW w \in Writers, Stream!Insert(w) \/ Stream!Commit(w) \/ Stream!RollBack(w)
        PROVE  StreamInv'
    BY <1>1, <2>2, InsertKeeps, CommitKeeps, RollBackKeeps
  <2>3. ASSUME NEW r \in Readers, Stream!Load(r) \/ Stream!Reconnect(r) \/ Stream!Poll(r)
        PROVE  StreamInv'
    BY <1>1, <2>3, OpenKeeps, PollKeeps
  <2>4. ASSUME NEW r \in Readers, NEW why, Stream!End(r, why) PROVE StreamInv'
    BY <1>1, <2>4, EndKeeps
  <2>5. CASE Stream!ExpireOrSignIn
    BY <1>1, <2>5, StillKeeps DEF Stream!ExpireOrSignIn
  <2>. QED BY <1>1, <2>1, <2>2, <2>3, <2>4, <2>5 DEF Stream!Next
<1>2. StreamInv => ConversationMissesNothing
  BY DEF StreamInv, Followed, Covered, Listens, Turns, ConversationMissesNothing, Stream!ConversationMissesNothing, Stream!Missed
<1>. QED BY <1>1, <1>2, StreamStarts, PTL DEF Stream!Spec

-----------------------------------------------------------------------------
(* The cleanup command.                                                    *)

CleanTypes ==
  /\ tree \in [Clean!Worktrees -> {"clean", "dirty", "gone"}]
  /\ branch \in [Clean!Worktrees -> {"merged", "unmerged", "gone"}]
  /\ force \in BOOLEAN

\* The worktree in hand is one of the tool's, and is forced only if that was
\* agreed to for this very worktree.
InHand ==
  /\ listed \subseteq Managed
  /\ doing \in {"ask", "merged?", "ask force", "remove", "ask retry"} =>
       at \in Managed /\ (force => at \in consented)

CleanInv == CleanTypes /\ InHand

LEMMA CleanStep == ASSUME CleanInv, [Clean!Next]_Clean!vars PROVE CleanInv'
<1>. USE DEF CleanInv
<1>1. CASE UNCHANGED Clean!vars
  BY <1>1 DEF Clean!vars, CleanTypes, InHand
<1>2. ASSUME NEW w \in Clean!Worktrees, Clean!Work(w) PROVE CleanInv'
  BY <1>2 DEF Clean!Work, CleanTypes, InHand
<1>3. ASSUME NEW w \in Clean!Worktrees, Clean!Take(w) PROVE CleanInv'
  BY <1>3 DEF Clean!Take, CleanTypes, InHand
<1>4. CASE Clean!List
  BY <1>4 DEF Clean!List, Clean!UnderDir, CleanTypes, InHand
<1>5. CASE Clean!Leave \/ Clean!Agree \/ Clean!CheckMerged
  <2>1. /\ UNCHANGED <<tree, branch, listed, force, consented>>
        /\ \/ doing' = "next"
           \/ doing \in {"ask", "merged?"} /\ at' = at
    BY <1>5 DEF Clean!Leave, Clean!Agree, Clean!CheckMerged
  <2>. QED BY <2>1 DEF CleanTypes, InHand
<1>6. CASE Clean!AgreeForce
  BY <1>6 DEF Clean!AgreeForce, CleanTypes, InHand
<1>7. CASE Clean!Remove
  <2>1. at \in Managed /\ at \in Clean!Worktrees /\ (force => at \in consented)
    BY <1>7 DEF Clean!Remove, Clean!Worktrees, InHand
  <2>2. CleanTypes'
    BY <1>7, <2>1 DEF Clean!Remove, CleanTypes
  <2>3. UNCHANGED <<listed, force, consented>> /\ (doing' # "next" => doing' = "ask retry" /\ at' = at)
    BY <1>7 DEF Clean!Remove
  <2>. QED BY <2>1, <2>2, <2>3 DEF InHand
<1>. QED BY <1>1, <1>2, <1>3, <1>4, <1>5, <1>6, <1>7 DEF Clean!Next

\* For any worktrees, and an agent or a developer at work in them at any
\* time: what was not merged or not committed goes only with a worktree whose
\* forced removal was agreed to, and a worktree made elsewhere never
\* (Cleaner.handle, UnderDir, git worktree remove, git branch -d).  No
\* directory is both under the tool's and elsewhere.
THEOREM CleanupIsSafe ==
  ASSUME Managed \cap Others = {}
  PROVE  Clean!Spec => NothingIsLostUnasked
<1>. DEFINE Spared ==
       /\ \A w \in Clean!Worktrees \ consented' :
            /\ branch[w] = "unmerged" => branch'[w] # "gone"
            /\ tree[w] = "dirty" => tree'[w] # "gone"
       /\ \A w \in Others : tree'[w] # "gone"
            Elsewhere == \A w \in Others : tree[w] # "gone"
<1>1. Clean!Init => CleanInv /\ Elsewhere
  BY DEF Clean!Init, CleanInv, CleanTypes, InHand, Clean!Worktrees
<1>2. ASSUME CleanInv, Elsewhere, [Clean!Next]_Clean!vars
      PROVE  Elsewhere' /\ [Spared]_Clean!vars
  <2>1. Clean!Worktrees = Managed \cup Others
    BY DEF Clean!Worktrees
  <2>2. CASE UNCHANGED Clean!vars
    BY <1>2, <2>2 DEF Clean!vars
  <2>3. CASE UNCHANGED <<tree, branch>>
    BY <1>2, <2>3 DEF CleanInv, CleanTypes
  <2>4. ASSUME NEW w \in Clean!Worktrees, Clean!Work(w) PROVE Elsewhere' /\ Spared
    BY <1>2, <2>1, <2>4 DEF CleanInv, CleanTypes, Clean!Work
  <2>5. CASE Clean!Remove
    <3>1. at \in Managed /\ at \notin Others /\ (force => at \in consented') /\ consented' = consented
      BY <1>2, <2>5 DEF CleanInv, InHand, Clean!Remove
    <3>2. \A w \in Clean!Worktrees : w # at => tree'[w] = tree[w] /\ branch'[w] = branch[w]
      BY <1>2, <2>5 DEF CleanInv, CleanTypes, Clean!Remove
    <3>3. ~force => /\ branch[at] = "unmerged" => branch'[at] = "unmerged"
                    /\ tree[at] = "dirty" => tree'[at] = "dirty"
      BY <2>5 DEF Clean!Remove, Clean!RemovesTree, Clean!DeletesBranch
    <3>4. Spared
      BY <1>2, <2>1, <3>1, <3>2, <3>3
    <3>5. Elsewhere'
      BY <1>2, <2>1, <3>1, <3>2
    <3>. QED BY <3>4, <3>5
  <2>6. ASSUME NEW w \in Clean!Worktrees, Clean!Take(w) PROVE UNCHANGED <<tree, branch>>
    BY <2>6 DEF Clean!Take
  <2>7. ASSUME \/ Clean!List \/ Clean!Leave \/ Clean!Agree \/ Clean!CheckMerged \/ Clean!AgreeForce
        PROVE UNCHANGED <<tree, branch>>
    BY <2>7 DEF Clean!List, Clean!Leave, Clean!Agree, Clean!CheckMerged, Clean!AgreeForce
  <2>. HIDE DEF Spared, Elsewhere
  <2>. QED BY <1>2, <2>2, <2>3, <2>4, <2>5, <2>6, <2>7 DEF Clean!Next
<1>. HIDE DEF Elsewhere
<1>. QED BY <1>1, <1>2, CleanStep, PTL DEF Clean!Spec, NothingIsLostUnasked, Clean!NothingIsLostUnasked

-----------------------------------------------------------------------------
(* One activity that runs the coding agent.                                *)

AgentTypes ==
  /\ step \in {"idle", "running", "exited", "returned", "failed"} /\ told \in BOOLEAN
  /\ input \in {"none", "task", "continue"} /\ trailing \in BOOLEAN /\ spent \in Nat
  /\ progress \in [tokens : Nat, compacted : BOOLEAN, final : Nat]
  /\ res \in [output : Nat, tokens : Nat]

\* What a process's end is judged by is what it did, and its tokens and those
\* of the processes before it are all counted.
Accounted ==
  /\ step \in {"running", "exited"} =>
       /\ trailing => progress.compacted
       /\ spent = res.tokens + progress.tokens
  /\ step = "running" => told \/ input = "task"
  /\ step = "exited" => told
  /\ step = "returned" => told /\ ~trailing /\ spent = res.tokens

AgentInv == AgentTypes /\ Accounted

LEMMA TookCounts ==
  ASSUME AgentTypes
  PROVE  /\ Agent!Took \in [output : Nat, tokens : Nat]
         /\ Agent!Took.tokens = res.tokens + progress.tokens
BY DEF AgentTypes, Agent!Took

LEMMA WorkKeeps ==
  ASSUME AgentInv, NEW kind, NEW tokens \in {0, 1}, NEW text \in {0, 1},
         Agent!Work(kind, tokens, text)
  PROVE  AgentInv'
<1>. DEFINE worked == Agent!Applied(kind, tokens, text)
            used == IF kind = "message" THEN tokens ELSE 0
<1>1. /\ worked \in [tokens : Nat, compacted : BOOLEAN, final : Nat]
      /\ worked.tokens = progress.tokens + used /\ used \in Nat
  BY DEF Agent!Applied, AgentInv, AgentTypes
<1>2. /\ progress' = worked /\ spent' = spent + used /\ trailing' = FALSE
      /\ step = "running" /\ UNCHANGED <<step, input, res>>
      /\ told' = (told \/ input = "task")
  BY DEF Agent!Work, Agent!Told
<1>. HIDE DEF worked, used
<1>3. AgentTypes'
  <2>1. told' \in BOOLEAN /\ trailing' \in BOOLEAN
    BY <1>2, Zenon
  <2>2. spent' \in Nat
    BY <1>1, <1>2 DEF AgentInv, AgentTypes
  <2>. QED BY <1>1, <1>2, <2>1, <2>2 DEF AgentInv, AgentTypes
<1>4. spent' = res'.tokens + progress'.tokens
  BY <1>1, <1>2 DEF AgentInv, AgentTypes, Accounted
<1>. QED BY <1>2, <1>3, <1>4 DEF AgentInv, Accounted

LEMMA CompactKeeps ==
  ASSUME AgentInv, NEW reason, Agent!Compact(reason) PROVE AgentInv'
<1>. DEFINE compacted == [progress EXCEPT !.compacted = Agent!Compacted(reason)]
<1>1. /\ compacted \in [tokens : Nat, compacted : BOOLEAN, final : Nat]
      /\ compacted.tokens = progress.tokens
      /\ compacted.compacted <=> (progress.compacted \/ reason = "threshold")
  BY DEF Agent!Compacted, AgentInv, AgentTypes
<1>2. /\ progress' = compacted /\ trailing' = (trailing \/ reason = "threshold")
      /\ step = "running" /\ UNCHANGED <<step, input, res, spent>>
      /\ told' = (told \/ input = "task")
  BY DEF Agent!Compact, Agent!Told
<1>. HIDE DEF compacted
<1>3. AgentTypes'
  BY <1>1, <1>2 DEF AgentInv, AgentTypes
<1>4. trailing' => progress'.compacted
  BY <1>1, <1>2 DEF AgentInv, Accounted
<1>. QED BY <1>1, <1>2, <1>3, <1>4 DEF AgentInv, AgentTypes, Accounted

\* For any numbers of attempts, resumes and events: an answer is one of an
\* agent that had the task and did not trail off, with every token of its
\* attempt counted (piagent.runLoop, runOnce, progress.apply).
THEOREM AnswersAreFinished == Agent!Spec => []AnswersFinishedWork
<1>1. Agent!Init => AgentInv
  <2>1. /\ Agent!Fresh \in [tokens : Nat, compacted : BOOLEAN, final : Nat]
        /\ Agent!Nothing \in [output : Nat, tokens : Nat]
    BY DEF Agent!Fresh, Agent!Nothing
  <2>. SUFFICES ASSUME Agent!Init PROVE AgentTypes /\ Accounted
    BY DEF AgentInv
  <2>2. AgentTypes
    BY <2>1 DEF Agent!Init, AgentTypes
  <2>. QED BY <2>2 DEF Agent!Init, Accounted
<1>2. ASSUME AgentInv, [Agent!Next]_Agent!vars PROVE AgentInv'
  <2>. DEFINE fresh == Agent!Fresh
              nothing == Agent!Nothing
  <2>1. /\ fresh \in [tokens : Nat, compacted : BOOLEAN, final : Nat]
        /\ fresh.tokens = 0 /\ nothing \in [output : Nat, tokens : Nat] /\ nothing.tokens = 0
    BY DEF Agent!Fresh, Agent!Nothing
  <2>. HIDE DEF fresh, nothing
  <2>2. CASE UNCHANGED Agent!vars
    BY <1>2, <2>2 DEF Agent!vars, AgentInv, AgentTypes, Accounted
  <2>3. CASE Agent!RunAgent
    <3>1. /\ step' = "running" /\ input' = "task" /\ progress' = fresh /\ res' = nothing
          /\ spent' = 0 /\ trailing' = FALSE /\ told' = told
      BY <2>3 DEF Agent!RunAgent, fresh, nothing
    <3>2. AgentTypes'
      BY <1>2, <2>1, <3>1 DEF AgentInv, AgentTypes
    <3>. QED BY <2>1, <3>1, <3>2 DEF AgentInv, Accounted
  <2>4. CASE Agent!Exit
    BY <1>2, <2>4 DEF Agent!Exit, Agent!Told, AgentInv, AgentTypes, Accounted
  <2>5. CASE Agent!Resume
    <3>1. /\ step = "exited" /\ step' = "running" /\ input' = "continue" /\ progress' = fresh
          /\ res' = Agent!Took /\ UNCHANGED <<told, spent>> /\ trailing' = FALSE
      BY <2>5 DEF Agent!Resume, fresh
    <3>2. AgentTypes'
      BY <1>2, <2>1, <3>1, TookCounts DEF AgentInv, AgentTypes
    <3>3. spent' = res'.tokens + progress'.tokens
      BY <1>2, <2>1, <3>1, TookCounts DEF AgentInv, AgentTypes, Accounted
    <3>. QED BY <1>2, <3>1, <3>2, <3>3 DEF AgentInv, Accounted
  <2>6. CASE Agent!Return
    <3>1. /\ step = "exited" /\ UNCHANGED <<input, told, progress, spent, trailing>>
          /\ res' = Agent!Took /\ step' \in {"returned", "idle", "failed"}
          /\ step' = "returned" => ~progress.compacted
      BY <2>6 DEF Agent!Return, Agent!Answer, Agent!Retried
    <3>. QED BY <1>2, <3>1, TookCounts DEF AgentInv, AgentTypes, Accounted
  <2>7. CASE Agent!Fail
    BY <1>2, <2>7 DEF Agent!Fail, Agent!Retried, AgentInv, AgentTypes, Accounted
  <2>8. ASSUME NEW kind \in {"turn", "message", "tool"}, NEW tokens \in {0, 1}, NEW text \in {0, 1},
               Agent!Work(kind, tokens, text)
        PROVE  AgentInv'
    BY <1>2, <2>8, WorkKeeps
  <2>9. ASSUME NEW reason \in {"threshold", "retrying", "aborted"}, Agent!Compact(reason)
        PROVE  AgentInv'
    BY <1>2, <2>9, CompactKeeps
  <2>. QED BY <1>2, <2>2, <2>3, <2>4, <2>5, <2>6, <2>7, <2>8, <2>9 DEF Agent!Next
<1>3. AgentInv => AnswersFinishedWork
  BY DEF AgentInv, Accounted, AnswersFinishedWork, Agent!AnswersFinishedWork
<1>. QED BY <1>1, <1>2, <1>3, PTL DEF Agent!Spec

-----------------------------------------------------------------------------
(* The pilot loop.                                                         *)

\* By where a pass stands: nothing recorded yet, nothing decided yet, threads
\* at hand.
Early == {"open", "ask", "opened", "start"}
WithThreads == {"pause", "wait", "checkpoint", "agent", "advance", "push", "answer", "request",
                "restore"}
Underway == Early \cup {"determine", "poll", "load"} \cup WithThreads

AllResolved == loaded # {} /\ \A t \in loaded : threads[t] = "resolved"

PilotTypes ==
  /\ threads \in [Threads -> {"absent", "open", "resolved"}]
  /\ loaded \subseteq Threads

\* The commits a reply names are on the remote branch when it is given.
Pushed ==
  /\ pc = "push" => repo.ahead
  /\ pc = "answer" => repo.ahead /\ ~unpushed

\* What the pass has decided to say of itself is so.
Decided ==
  /\ pc \in Underway => detail = "undecided"
  /\ pc \in WithThreads => loaded # {}
  /\ pc \in {"request", "restore"} => AllResolved
  /\ detail = "addressed" => AllResolved
  /\ pc = "conclude" /\ detail = "undecided" => loaded = {}
  /\ detail = "nothing" => loaded = {}

\* A write claims what was decided when it was sent, and only the last one of
\* a pass settles its row.
Sent(w) ==
  /\ w.status \in {"running", "succeeded", "failed"}
  /\ w.detail = "undecided" \/ (pc = "ended" /\ w.detail = detail)
  /\ w.status # "running" => pc = "ended" /\ ~w.waiting

WritesAgree ==
  /\ pc \in Early => row = NoRow /\ late = {}
  /\ \A w \in late : Sent(w)
  /\ row # NoRow => Sent(row)
  /\ \A v, w \in late \cup {row} : Settled(v) /\ Settled(w) => v = w

PilotInv == PilotTypes /\ Pushed /\ Decided /\ WritesAgree

LEMMA PilotStarts == Init => PilotInv
<1>. SUFFICES ASSUME Init PROVE PilotInv
  OBVIOUS
<1>1. PilotTypes
  BY DEF Init, PilotTypes
<1>2. Pushed /\ Decided
  BY DEF Init, Pushed, Decided, Early, Underway, WithThreads
<1>3. WritesAgree
  BY DEF Init, WritesAgree, Settled, NoRow, Early
<1>. QED BY <1>1, <1>2, <1>3 DEF PilotInv

\* A step that writes nothing.
LEMMA NothingWritten ==
  ASSUME WritesAgree, UNCHANGED <<row, late>>, pc # "ended", pc' \in Early => pc \in Early
  PROVE  WritesAgree'
BY DEF WritesAgree, Sent, Settled

\* A write of a pass that goes on, or that gives up before it settled anything.
LEMMA RunningWritten ==
  ASSUME WritesAgree, pc # "ended", pc' \notin Early,
         NEW w, w.status = "running", w.detail = "undecided",
         Recorded(w) \/ Unrecorded(w)
  PROVE  WritesAgree'
<1>1. row' \in {row, w} /\ late' \subseteq late \cup {w}
  BY DEF Recorded, Unrecorded, Upsert
<1>2. \A v \in late \cup {row, w} : ~Settled(v)
  BY DEF WritesAgree, Sent, Settled, NoRow
<1>. QED BY <1>1, <1>2 DEF WritesAgree, Sent, Settled

\* The last write.
LEMMA LastWritten ==
  ASSUME WritesAgree, pc # "ended", pc' = "ended", detail' = detail,
         NEW w, w.status \in {"succeeded", "failed"}, w.detail = detail, ~w.waiting,
         Recorded(w) \/ Unrecorded(w)
  PROVE  WritesAgree'
<1>1. row' \in {row, w} /\ late' \subseteq late \cup {w}
  BY DEF Recorded, Unrecorded, Upsert
<1>2. \A v \in late \cup {row} : ~Settled(v)
  BY DEF WritesAgree, Sent, Settled, NoRow
<1>3. Sent(w)' /\ \A v \in late : Sent(v)'
  BY DEF WritesAgree, Sent
<1>4. row # NoRow => Sent(row)' \/ row' = w
  BY <1>1 DEF WritesAgree, Sent
<1>5. pc' \notin Early
  BY DEF Early
<1>. QED BY <1>1, <1>2, <1>3, <1>4, <1>5 DEF WritesAgree, Sent

\* A write sent long ago commits.
LEMMA LateWritten ==
  ASSUME WritesAgree, LateWrite, UNCHANGED <<pc, detail>>
  PROVE  WritesAgree' /\ (Settled(row) => row' = row)
<1>. PICK w \in late : row' = Upsert(row, w) /\ late' = late \ {w}
  BY DEF LateWrite
<1>1. row' \in {row, w} /\ pc \notin Early
  BY DEF Upsert, WritesAgree
<1>2. Settled(row) => row' = row
  <2>1. CASE w.status = "running"
    BY <2>1 DEF Upsert
  <2>2. CASE w.status # "running"
    <3>1. Settled(w)
      BY <2>2 DEF WritesAgree, Sent, Settled
    <3>. QED BY <1>1, <3>1 DEF WritesAgree
  <2>. QED BY <2>1, <2>2
<1>. QED BY <1>1, <1>2 DEF WritesAgree, Sent

-----------------------------------------------------------------------------
(* The steps of the pilot.                                                 *)

\* OpenPRWorkflow decides nothing.
LEMMA OpeningKeeps ==
  ASSUME PilotInv, OpenPR \/ AskFirstReview \/ Opened
  PROVE  PilotInv' /\ UNCHANGED <<threads, row>>
<1>1. UNCHANGED <<threads, loaded, detail, row, late>>
  <2>1. CASE OpenPR
    BY <2>1 DEF OpenPR, run, recordVars
  <2>2. CASE AskFirstReview
    BY <2>2 DEF AskFirstReview, run, recordVars
  <2>3. CASE Opened
    BY <2>3 DEF Opened, hub, recordVars
  <2>. QED BY <2>1, <2>2, <2>3
<1>2. pc \in {"open", "ask", "opened"} /\ pc' \in Early \cup {"ended"}
  BY DEF OpenPR, AskFirstReview, Opened, Goes, FailsTo, Early
<1>3. Pushed' /\ PilotTypes'
  BY <1>1, <1>2 DEF Pushed, PilotTypes, PilotInv, Early
<1>4. Decided'
  BY <1>1, <1>2 DEF Decided, AllResolved, PilotInv, Early, Underway, WithThreads
<1>5. WritesAgree'
  BY <1>1, <1>2, NothingWritten DEF PilotInv, Early
<1>. QED BY <1>1, <1>3, <1>4, <1>5 DEF PilotInv

\* Up to the threads.
LEMMA LookingKeeps ==
  ASSUME PilotInv, DeterminePR \/ CheckOngoingReview \/ LoadUnresolvedComments
  PROVE  PilotInv' /\ UNCHANGED <<threads, row>>
<1>1. UNCHANGED <<threads, detail, row, late>>
  BY DEF DeterminePR, CheckOngoingReview, LoadUnresolvedComments,
         hub, run, recordVars
<1>2. /\ pc \in {"determine", "poll", "load"}
      /\ pc' \in {"determine", "poll", "load", "conclude", "pause", "checkpoint", "settle"}
  BY DEF DeterminePR, CheckOngoingReview, LoadUnresolvedComments,
         Goes, Fails, FailsTo
<1>3. /\ loaded' \subseteq Threads
      /\ pc' = "conclude" => loaded' = {}
      /\ pc' \in {"pause", "checkpoint"} => loaded' # {}
  BY <1>2 DEF DeterminePR, CheckOngoingReview, LoadUnresolvedComments,
         UnresolvedThreads, page, Goes, Fails, FailsTo,
         PilotInv, PilotTypes
<1>4. detail = "undecided"
  BY <1>2 DEF PilotInv, Decided, Underway
<1>5. Pushed' /\ PilotTypes'
  BY <1>1, <1>2, <1>3 DEF Pushed, PilotTypes, PilotInv
<1>6. Decided'
  BY <1>1, <1>2, <1>3, <1>4 DEF Decided, Underway, WithThreads, Early
<1>7. WritesAgree'
  BY <1>1, <1>2, NothingWritten DEF PilotInv, Early
<1>. QED BY <1>1, <1>5, <1>6, <1>7 DEF PilotInv

\* From the checkpoint to the push: the threads stay at hand.
LEMMA WorkingKeeps ==
  ASSUME PilotInv,
         \/ MarkHeadAndStash \/ RunAgent
         \/ EnsureHeadAdvanced \/ PushBranch
  PROVE  PilotInv' /\ UNCHANGED <<threads, row>>
<1>1. UNCHANGED <<threads, loaded, detail, row, late>>
  BY DEF MarkHeadAndStash, RunAgent, EnsureHeadAdvanced, PushBranch,
         hub, run, recordVars
<1>2. /\ pc \in {"checkpoint", "agent", "advance", "push"}
      /\ pc' \in {"checkpoint", "agent", "advance", "push", "answer", "settle"}
  BY DEF MarkHeadAndStash, RunAgent, EnsureHeadAdvanced, PushBranch,
         Goes, Fails, FailsTo
<1>3. Pushed'
  <2>1. CASE EnsureHeadAdvanced
    BY <2>1 DEF EnsureHeadAdvanced, Pushed, Goes, Fails, FailsTo
  <2>2. CASE PushBranch
    BY <2>2 DEF PushBranch, Pushed, PilotInv, Goes, Fails, FailsTo
  <2>3. CASE MarkHeadAndStash \/ RunAgent
    <3>1. pc' \notin {"push", "answer"}
      BY <2>3 DEF MarkHeadAndStash, RunAgent, Goes, Fails, FailsTo
    <3>. QED BY <3>1 DEF Pushed
  <2>. QED BY <2>1, <2>2, <2>3
<1>4. detail = "undecided" /\ loaded # {}
  BY <1>2 DEF PilotInv, Decided, Underway, WithThreads
<1>5. PilotTypes'
  BY <1>1 DEF PilotTypes, PilotInv
<1>6. Decided'
  BY <1>1, <1>2, <1>4 DEF Decided, Underway, WithThreads, Early
<1>7. WritesAgree'
  BY <1>1, <1>2, NothingWritten DEF PilotInv, Early
<1>. QED BY <1>1, <1>3, <1>5, <1>6, <1>7 DEF PilotInv

\* Threads are answered and resolved once the commits are on the branch.
LEMMA AnsweringKeeps ==
  ASSUME PilotInv, ReplyAndResolve
  PROVE  /\ PilotInv' /\ row' = row
         /\ \A t \in Threads : threads[t] = "open" /\ threads'[t] = "resolved" =>
              t \in answered' \cap loaded /\ repo.ahead /\ ~unpushed
<1>. PICK done \in SUBSET loaded :
       /\ threads' = [t \in Threads |-> IF t \in done THEN "resolved" ELSE threads[t]]
       /\ \/ done = loaded /\ Goes("request")
          \/ Fails(QuickAttempts)
       /\ done \subseteq answered'
  BY DEF ReplyAndResolve
<1>1. UNCHANGED <<repo, unpushed, loaded, detail, row, late>> /\ pc = "answer"
  BY DEF ReplyAndResolve, work, run, recordVars
<1>2. repo.ahead /\ ~unpushed /\ detail = "undecided" /\ loaded # {} /\ loaded \subseteq Threads
  BY <1>1 DEF PilotInv, Pushed, Decided, Underway, WithThreads, PilotTypes
<1>3. /\ pc' \in {"answer", "request", "settle"}
      /\ pc' = "request" => \A t \in loaded : threads'[t] = "resolved"
  BY <1>1, <1>2 DEF Goes, Fails, FailsTo
<1>4. Pushed' /\ PilotTypes'
  BY <1>1, <1>2, <1>3 DEF Pushed, PilotTypes, PilotInv
<1>5. Decided'
  BY <1>1, <1>2, <1>3 DEF Decided, AllResolved, Underway, WithThreads, Early
<1>6. WritesAgree'
  BY <1>1, <1>3, NothingWritten DEF PilotInv, Early
<1>. QED BY <1>1, <1>2, <1>4, <1>5, <1>6 DEF PilotInv

\* From the answers to the end of the pass.
LEMMA ConcludingKeeps ==
  ASSUME PilotInv, RequestCopilotReview \/ RestoreStash \/ Conclude
  PROVE  PilotInv' /\ UNCHANGED <<threads, row>>
<1>1. UNCHANGED <<threads, loaded, row, late>>
  BY DEF RequestCopilotReview, RestoreStash, Conclude, hub, recordVars
<1>2. /\ pc \in {"request", "restore", "conclude"}
      /\ pc' \in {"request", "restore", "conclude", "settle"}
  BY DEF RequestCopilotReview, RestoreStash, Conclude,
         Goes, Fails, FailsTo
<1>3. Pushed' /\ PilotTypes'
  BY <1>1, <1>2 DEF Pushed, PilotTypes, PilotInv
<1>4. AllResolved => AllResolved'
  BY <1>1 DEF AllResolved
<1>5. Decided'
  <2>1. CASE RequestCopilotReview
    <3>1. detail' = detail /\ pc = "request" /\ pc' \in {"request", "restore", "settle"}
      BY <2>1 DEF RequestCopilotReview, run, Goes, Fails, FailsTo
    <3>. QED BY <1>1, <1>4, <3>1 DEF PilotInv, Decided, Underway, WithThreads, Early
  <2>2. CASE RestoreStash
    <3>1. detail' = "addressed" /\ pc = "restore" /\ pc' = "conclude"
      BY <2>2 DEF RestoreStash
    <3>. QED BY <1>1, <1>4, <3>1 DEF PilotInv, Decided, Underway, WithThreads, Early
  <2>3. CASE Conclude
    <3>1. detail' = (IF detail = "undecided" THEN "nothing" ELSE detail)
          /\ pc = "conclude" /\ pc' = "settle"
      BY <2>3 DEF Conclude
    <3>. QED BY <1>1, <1>4, <3>1 DEF PilotInv, Decided, Underway, WithThreads, Early
  <2>. QED BY <2>1, <2>2, <2>3
<1>6. WritesAgree'
  BY <1>1, <1>2, NothingWritten DEF PilotInv, Early
<1>. QED BY <1>1, <1>3, <1>5, <1>6 DEF PilotInv

\* The writes of a pass that has not settled.
LEMMA ReportingKeeps ==
  ASSUME PilotInv, StartPass \/ StartWaiting \/ StopWaiting
  PROVE  PilotInv' /\ UNCHANGED threads /\ ~Settled(row)
<1>1. UNCHANGED <<threads, loaded>> /\ detail' \in {detail, "stopped"}
      /\ (detail' # detail => pc' = "conclude")
  BY DEF StartPass, StartWaiting, StopWaiting, hub, run
<1>2. /\ pc \in {"start", "pause", "wait"}
      /\ \/ pc' \in {"determine", "settle", "ended"}
         \/ pc \in WithThreads /\ pc' \in {"wait", "checkpoint"}
         \/ pc' = "conclude" /\ detail' = "stopped"
  <2>1. CASE StartPass
    BY <2>1 DEF StartPass
  <2>2. CASE StartWaiting
    BY <2>2 DEF StartWaiting, WithThreads
  <2>3. CASE StopWaiting
    BY <2>3 DEF StopWaiting, WithThreads
  <2>. QED BY <2>1, <2>2, <2>3
<1>3. detail = "undecided" /\ (pc \in WithThreads => loaded # {})
  BY <1>2 DEF PilotInv, Decided, Underway, Early, WithThreads
<1>4. \E w : /\ w.status = "running" /\ w.detail = "undecided"
             /\ Recorded(w) \/ Unrecorded(w)
  <2>1. CASE StartPass
    <3>. DEFINE w == Running("running")
    <3>1. w.status = "running" /\ w.detail = "undecided"
      BY <1>3 DEF Running
    <3>2. Recorded(w) \/ Unrecorded(w)
      BY <2>1 DEF StartPass
    <3>. HIDE DEF w
    <3>. QED BY <3>1, <3>2
  <2>2. ASSUME NEW waiting, RecordWaiting(waiting)
        PROVE  \E w : /\ w.status = "running" /\ w.detail = "undecided"
                      /\ Recorded(w) \/ Unrecorded(w)
    <3>. DEFINE w == [status |-> "running", waiting |-> waiting, detail |-> detail]
    <3>1. w.status = "running" /\ w.detail = "undecided"
      BY <1>3
    <3>2. Recorded(w) \/ Unrecorded(w)
      BY <2>2 DEF RecordWaiting
    <3>. HIDE DEF w
    <3>. QED BY <3>1, <3>2
  <2>3. StartWaiting \/ StopWaiting => \E waiting : RecordWaiting(waiting)
    BY DEF StartWaiting, StopWaiting
  <2>. QED BY <2>1, <2>2, <2>3
<1>5. Pushed' /\ PilotTypes'
  BY <1>1, <1>2 DEF Pushed, PilotTypes, PilotInv
<1>6. Decided'
  BY <1>1, <1>2, <1>3 DEF PilotInv, Decided, Underway, WithThreads, Early
<1>7. WritesAgree'
  BY <1>2, <1>4, RunningWritten DEF PilotInv, Early
<1>8. ~Settled(row)
  BY <1>2 DEF PilotInv, WritesAgree, Sent, Settled, NoRow
<1>. QED BY <1>1, <1>5, <1>6, <1>7, <1>8 DEF PilotInv

\* The end of a pass: the next one's row is a row of its own.
LEMMA SettlingKeeps ==
  ASSUME PilotInv, SettlePass
  PROVE  PilotInv' /\ UNCHANGED threads /\ ~Settled(row)
<1>1. UNCHANGED threads /\ pc = "settle"
  BY DEF SettlePass, hub
<1>2. ~Settled(row)
  BY <1>1 DEF PilotInv, WritesAgree, Sent, Settled, NoRow
<1>3. CASE outcome = "continued"
  <2>1. /\ pc' = "start" /\ loaded' = {} /\ detail' = "undecided"
        /\ row' = NoRow /\ late' = {}
    BY <1>3 DEF SettlePass
  <2>2. Pushed' /\ PilotTypes'
    BY <1>1, <2>1 DEF Pushed, PilotTypes, PilotInv
  <2>3. Decided'
    BY <2>1 DEF Decided, WithThreads
  <2>4. WritesAgree'
    BY <2>1 DEF WritesAgree
  <2>. QED BY <1>1, <1>2, <2>2, <2>3, <2>4 DEF PilotInv
<1>4. CASE outcome # "continued"
  <2>. DEFINE w == Running(IF outcome = "failed" THEN "failed" ELSE "succeeded")
  <2>1. w.status \in {"succeeded", "failed"} /\ w.detail = detail /\ ~w.waiting
    BY DEF Running
  <2>2. /\ pc' = "ended" /\ UNCHANGED <<loaded, detail>>
        /\ Recorded(w) \/ Unrecorded(w)
    BY <1>4 DEF SettlePass
  <2>. HIDE DEF w
  <2>3. WritesAgree'
    BY <1>1, <2>1, <2>2, LastWritten DEF PilotInv
  <2>4. Pushed' /\ PilotTypes'
    BY <1>1, <2>2 DEF Pushed, PilotTypes, PilotInv
  <2>5. Decided'
    BY <1>1, <2>2 DEF PilotInv, Decided, AllResolved, Underway, Early, WithThreads
  <2>. QED BY <1>1, <1>2, <2>3, <2>4, <2>5 DEF PilotInv
<1>. QED BY <1>3, <1>4

\* Everybody else: nobody resolves a thread, or reopens one.
LEMMA OthersKeep ==
  ASSUME PilotInv, DeliverReview \/ OpenThread \/ Cancel
  PROVE  /\ PilotInv' /\ row' = row
         /\ \A t \in Threads : threads'[t] = "resolved" => threads[t] = "resolved"
<1>1. UNCHANGED <<repo, unpushed, loaded, detail, row, late, pc>>
  BY DEF DeliverReview, OpenThread, Cancel, others, hub, work,
         run, recordVars
<1>2. /\ threads' \in [Threads -> {"absent", "open", "resolved"}]
      /\ \A t \in Threads : threads'[t] = "resolved" <=> threads[t] = "resolved"
  <2>1. CASE DeliverReview
    BY <2>1 DEF DeliverReview, PilotInv, PilotTypes
  <2>2. CASE OpenThread
    BY <2>2 DEF OpenThread, PilotInv, PilotTypes
  <2>3. CASE Cancel
    BY <2>3 DEF Cancel, hub, PilotInv, PilotTypes
  <2>. QED BY <2>1, <2>2, <2>3
<1>3. PilotTypes' /\ Pushed' /\ WritesAgree'
  BY <1>1, <1>2 DEF PilotInv, PilotTypes, Pushed, WritesAgree, Sent
<1>4. AllResolved => AllResolved'
  BY <1>1, <1>2 DEF AllResolved, PilotInv, PilotTypes
<1>5. Decided'
  BY <1>1, <1>4 DEF PilotInv, Decided
<1>. QED BY <1>1, <1>2, <1>3, <1>5 DEF PilotInv

\* What a step leaves of a settled row and of an open thread.
PilotRowStands == Settled(row) /\ row' # NoRow => row' = row /\ ~row.waiting
PilotAnswers ==
  \A t \in Threads :
    threads[t] = "open" /\ threads'[t] = "resolved" =>
      t \in answered' \cap loaded /\ repo.ahead /\ ~unpushed

LEMMA PilotSteps ==
  ASSUME PilotInv, [Next]_vars
  PROVE  PilotInv' /\ PilotRowStands /\ PilotAnswers
<1>1. Settled(row) => ~row.waiting
  BY DEF PilotInv, WritesAgree, Sent, Settled, NoRow
<1>2. CASE UNCHANGED vars
  <2>1. UNCHANGED <<threads, repo, unpushed, loaded, detail, row, late, pc>>
    BY <1>2 DEF vars, hub, work, run, recordVars
  <2>2. PilotTypes' /\ Pushed' /\ Decided' /\ WritesAgree'
    BY <2>1 DEF PilotInv, PilotTypes, Pushed, Decided, AllResolved, WritesAgree, Sent
  <2>. QED BY <1>1, <2>1, <2>2 DEF PilotInv, PilotRowStands, PilotAnswers
<1>3. CASE Step
  BY <1>1, <1>3, OpeningKeeps, LookingKeeps, WorkingKeeps, AnsweringKeeps, ConcludingKeeps,
     ReportingKeeps, SettlingKeeps DEF Step, PilotRowStands, PilotAnswers
<1>4. CASE StopWaiting
  BY <1>1, <1>4, ReportingKeeps DEF PilotRowStands, PilotAnswers
<1>5. CASE DeliverReview \/ OpenThread \/ Cancel
  BY <1>1, <1>5, OthersKeep DEF PilotRowStands, PilotAnswers
<1>6. CASE LateCommit
  <2>1. UNCHANGED <<threads, repo, unpushed, loaded, detail, pc>> /\ LateWrite
    BY <1>6 DEF LateCommit, hub, work, run
  <2>2. WritesAgree' /\ (Settled(row) => row' = row)
    BY <2>1, LateWritten DEF PilotInv
  <2>3. PilotTypes' /\ Pushed' /\ Decided'
    BY <2>1 DEF PilotInv, PilotTypes, Pushed, Decided, AllResolved
  <2>. QED BY <1>1, <2>1, <2>2, <2>3 DEF PilotInv, PilotRowStands, PilotAnswers
<1>. QED BY <1>2, <1>3, <1>4, <1>5, <1>6 DEF Next, Ended

\* For any number of threads and any retry policy: a thread the pilot resolves
\* carries its reply, is one its pass was given, and the commits the reply
\* names are on the remote branch (PilotWorkflow, ReplyAndResolve).
THEOREM ResolvedIsAnswered == Spec => ResolvedMeansAnswered
<1>1. PilotInv /\ [Next]_vars => PilotInv' /\ [PilotAnswers]_vars
  BY PilotSteps
<1>. QED BY <1>1, PilotStarts, PTL DEF Spec, ResolvedMeansAnswered, PilotAnswers

\* For the same: a row that says "addressed" is one of a pass whose threads
\* are all resolved, "nothing" of one that had none, and a settled row stands,
\* whatever writes are repeated, lost or late (startPilotState,
\* finishPilotState, saveExecutionSQL).
THEOREM RowIsTrue == Spec => RowTellsTheTruth
<1>1. PilotInv => RowTellsAddressed
  BY DEF PilotInv, Decided, AllResolved, WritesAgree, Sent, RowTellsAddressed
<1>2. PilotInv /\ [Next]_vars => PilotInv' /\ [PilotRowStands]_vars
  BY PilotSteps
<1>. QED BY <1>1, <1>2, PilotStarts, PTL
     DEF Spec, RowTellsTheTruth, SettledRowStands, PilotRowStands

-----------------------------------------------------------------------------
(* The recursions over a fleet plan.                                       *)

\* A sequence of one element, and a sequence without its last.
LEMMA OneElement ==
  ASSUME NEW S, NEW n \in S
  PROVE  <<n>> \in Seq(S)
<1>1. Append(<<>>, n) \in Seq(S)
  OBVIOUS
<1>. QED BY <1>1

LEMMA ButTheLast ==
  ASSUME NEW S, NEW s \in Seq(S), s # <<>>
  PROVE  /\ SubSeq(s, 1, Len(s) - 1) \in Seq(S)
         /\ Len(SubSeq(s, 1, Len(s) - 1)) = Len(s) - 1
         /\ \A i \in 1..(Len(s) - 1) : SubSeq(s, 1, Len(s) - 1)[i] = s[i]
<1> DEFINE n == Len(s) - 1
<1>1. n \in Nat /\ 1 \in Int /\ n \in Int /\ \A i \in 1..n : s[i] \in S
  OBVIOUS
<1> HIDE DEF n
<1>2. /\ SubSeq(s, 1, n) \in Seq(S)
      /\ Len(SubSeq(s, 1, n)) = IF 1 <= n THEN n - 1 + 1 ELSE 0
      /\ \A i \in 1..(n - 1 + 1) : SubSeq(s, 1, n)[i] = s[1 + i - 1]
  BY <1>1, SubSeqProperties
<1>3. n - 1 + 1 = n /\ \A i \in 1..n : 1 + i - 1 = i
  BY <1>1
<1>4. /\ SubSeq(s, 1, n) \in Seq(S)
      /\ Len(SubSeq(s, 1, n)) = n
      /\ \A i \in 1..n : SubSeq(s, 1, n)[i] = s[i]
  BY <1>1, <1>2, <1>3
<1>. QED BY <1>4 DEF n

\* A sequence from one of its places on.
LEMMA FromOn ==
  ASSUME NEW S, NEW s \in Seq(S), NEW i \in 1..Len(s)
  PROVE  /\ SubSeq(s, i, Len(s)) \in Seq(S)
         /\ Len(SubSeq(s, i, Len(s))) = Len(s) - i + 1
         /\ \A k \in 1..(Len(s) - i + 1) : SubSeq(s, i, Len(s))[k] = s[i + k - 1]
<1> DEFINE n == Len(s)
<1>1. n \in Nat /\ i \in Int /\ n \in Int /\ i <= n /\ \A k \in i..n : s[k] \in S
  OBVIOUS
<1> HIDE DEF n
<1>2. /\ SubSeq(s, i, n) \in Seq(S)
      /\ Len(SubSeq(s, i, n)) = IF i <= n THEN n - i + 1 ELSE 0
      /\ \A k \in 1..(n - i + 1) : SubSeq(s, i, n)[k] = s[i + k - 1]
  BY <1>1, SubSeqProperties
<1>. QED BY <1>1, <1>2 DEF n

\* A sequence with one more element, and that without its first.
LEMMA AppendedTail ==
  ASSUME NEW S, NEW s \in Seq(S), NEW d \in S, s # <<>>
  PROVE  /\ Append(s, d) \in Seq(S) /\ Len(Append(s, d)) = Len(s) + 1
         /\ Append(s, d)[Len(s) + 1] = d /\ \A k \in 1..Len(s) : Append(s, d)[k] = s[k]
         /\ DOMAIN Tail(Append(s, d)) = 1..Len(s)
         /\ \A k \in 1..Len(s) : Tail(Append(s, d))[k] = Append(s, d)[k + 1]
<1> DEFINE c == Append(s, d)
<1>1. /\ c \in Seq(S) /\ Len(c) = Len(s) + 1 /\ c[Len(s) + 1] = d
      /\ \A k \in 1..Len(s) : c[k] = s[k]
  OBVIOUS
<1> HIDE DEF c
<1>2. c # <<>> /\ Len(c) - 1 = Len(s)
  BY <1>1
<1>3. /\ Tail(c) \in Seq(S) /\ Len(Tail(c)) = Len(c) - 1
      /\ \A k \in 1..Len(Tail(c)) : Tail(c)[k] = c[k + 1]
  BY <1>1, <1>2, HeadTailProperties
<1>4. DOMAIN Tail(c) = 1..Len(s)
  BY <1>2, <1>3
<1>. QED BY <1>1, <1>2, <1>3, <1>4 DEF c

\* The nodes the recursion at hand is done with: findCycle's black ones, those
\* whose depth TopoLayers knows.
Black == {n \in plan.nodes : color[n] = "black"}

Known == IF phase = "search" THEN Black ELSE DOMAIN depth

PlanTypes ==
  /\ plan.nodes \subseteq GraphNodes
  /\ plan.deps \in [plan.nodes -> SUBSET GraphNodes]
  /\ phase \in {"new", "malformed", "search", "cyclic", "valid", "layered"}
  /\ phase \in {"search", "cyclic", "valid", "layered"} => Graph!WellFormed(plan)
  /\ color \in [plan.nodes -> {"white", "gray", "black"}]
  /\ remaining \in [plan.nodes -> SUBSET GraphNodes]
  /\ stack \in Seq(plan.nodes)
  /\ phase \notin {"search", "cyclic", "valid"} => stack = <<>>

\* The calls in progress follow dependencies, none of them twice, and have gone
\* through what they no longer have to look at.
OnTheWay ==
  /\ \A i \in 1..(Len(stack) - 1) : stack[i + 1] \in plan.deps[stack[i]]
  /\ \A i, j \in 1..Len(stack) : stack[i] = stack[j] => i = j
  /\ \A i \in 1..Len(stack) : remaining[stack[i]] \subseteq plan.deps[stack[i]]
  /\ phase \in {"search", "valid"} =>
       \A i \in 1..Len(stack) :
         /\ stack[i] \notin Known
         /\ \A d \in plan.deps[stack[i]] \ remaining[stack[i]] :
              d \in Known \/ (i < Len(stack) /\ d = stack[i + 1])

\* No cycle among some nodes: in each group of them, one depends on none of it.
NoCycleAmong(nodes) ==
  \A loop \in SUBSET nodes : loop # {} => \E n \in loop : plan.deps[n] \cap loop = {}

\* What is black depends on black only, and has no cycle; what is gray is on
\* the path; and a plan that was accepted is black throughout.
Colored ==
  /\ \A n \in plan.nodes : color[n] = "black" => \A d \in plan.deps[n] : color[d] = "black"
  /\ phase \in {"new", "search"} =>
       \A n \in plan.nodes : color[n] = "gray" <=> \E i \in 1..Len(stack) : stack[i] = n
  /\ NoCycleAmong(Black)
  /\ phase \in {"valid", "layered"} => \A n \in plan.nodes : color[n] = "black"

\* What was reported follows dependencies round.
Reported == Graph!ReportedCycleIsReal /\ (phase = "cyclic" => cycle \in Seq(plan.nodes))

\* The depths that are known are those of a plan of their own.
Deep(nodes) ==
  \A n \in nodes :
    /\ depth[n] \in Nat /\ plan.deps[n] \subseteq nodes
    /\ \A d \in plan.deps[n] : depth[d] < depth[n]
    /\ depth[n] # 0 => \E d \in plan.deps[n] : depth[d] = depth[n] - 1

Measured ==
  /\ DOMAIN depth \subseteq plan.nodes /\ depth = [n \in DOMAIN depth |-> depth[n]]
  /\ Deep(DOMAIN depth)
  /\ phase \notin {"valid", "layered"} => DOMAIN depth = {}
  /\ phase = "layered" => DOMAIN depth = plan.nodes

PlanInv == PlanTypes /\ OnTheWay /\ Colored /\ Reported /\ Measured

\* A group of nodes that each depend on another of them is a cycle.
LEMMA CycleFound ==
  ASSUME plan.nodes \subseteq GraphNodes, plan.deps \in [plan.nodes -> SUBSET GraphNodes],
         NEW path \in Seq(plan.nodes), NEW i \in 1..Len(path),
         \A k \in i..(Len(path) - 1) : path[k + 1] \in plan.deps[path[k]],
         path[i] \in plan.deps[path[Len(path)]]
  PROVE  Graph!HasCycle(plan)
<1> DEFINE Loop == {path[k] : k \in i..Len(path)}
<1>1. \A k \in i..Len(path) : k \in 1..Len(path)
  OBVIOUS
<1>2. Loop \in SUBSET plan.nodes /\ path[i] \in Loop
  BY <1>1
<1>3. \A n \in Loop : plan.deps[n] \cap Loop # {}
  <2>. SUFFICES ASSUME NEW k \in i..Len(path)
                PROVE  plan.deps[path[k]] \cap Loop # {}
    OBVIOUS
  <2>1. CASE k = Len(path)
    BY <2>1, <1>2
  <2>2. CASE k # Len(path)
    <3>1. k \in i..(Len(path) - 1) /\ k + 1 \in i..Len(path)
      BY <2>2
    <3>. QED BY <3>1
  <2>. QED BY <2>1, <2>2
<1>. QED BY <1>2, <1>3 DEF Graph!HasCycle

\* The loop over the plan's nodes begins a call.
LEMMA LoopCalls ==
  ASSUME PlanTypes, OnTheWay, phase \in {"search", "valid"}, stack = <<>>, NEW n \in plan.nodes, n \notin Known,
         Graph!Call(n, remaining), plan' = plan, phase' = phase, Known' = Known
  PROVE  /\ stack' = <<n>>
         /\ stack' \in Seq(plan.nodes) /\ remaining' \in [plan.nodes -> SUBSET GraphNodes]
         /\ OnTheWay'
<1>1. stack' = <<n>> /\ Len(stack') = 1 /\ stack'[1] = n
  BY DEF Graph!Call
<1>2. remaining' \in [plan.nodes -> SUBSET GraphNodes] /\ remaining'[n] = plan.deps[n]
  BY DEF Graph!Call, PlanTypes
<1>3. stack' \in Seq(plan.nodes)
  BY <1>1, OneElement
<1>4. \A i \in 1..Len(stack') : i = 1
  BY <1>1
<1>5. 1..(Len(stack') - 1) = {}
  BY <1>1
<1>. QED BY <1>1, <1>2, <1>3, <1>4, <1>5 DEF OnTheWay

\* A call that looks at a dependency is of a node of the plan.
LEMMA Innermost ==
  ASSUME PlanTypes, stack # <<>>
  PROVE  /\ Len(stack) \in Nat \ {0} /\ Len(stack) \in 1..Len(stack)
         /\ Graph!Last(stack) = stack[Len(stack)] /\ Graph!Last(stack) \in plan.nodes
<1>1. stack \in Seq(plan.nodes)
  BY DEF PlanTypes
<1>2. Len(stack) \in Nat /\ Len(stack) # 0
  BY <1>1
<1>. QED BY <1>1, <1>2 DEF Graph!Last

\* A call looks at a dependency that is done with, and goes on.
LEMMA CallSkips ==
  ASSUME PlanTypes, OnTheWay, phase \in {"search", "valid"}, NEW d \in plan.nodes,
         Graph!LooksAt(d), d \in Known, remaining' = Graph!Without(d),
         plan' = plan, phase' = phase, stack' = stack, Known' = Known
  PROVE  remaining' \in [plan.nodes -> SUBSET GraphNodes] /\ OnTheWay'
<1>1. /\ stack # <<>> /\ stack \in Seq(plan.nodes) /\ remaining \in [plan.nodes -> SUBSET GraphNodes]
      /\ Len(stack) \in Nat /\ Graph!Last(stack) = stack[Len(stack)] /\ Graph!Last(stack) \in plan.nodes
  BY Innermost DEF Graph!LooksAt, PlanTypes
<1>2. remaining' = [remaining EXCEPT ![Graph!Last(stack)] = remaining[Graph!Last(stack)] \ {d}]
  BY DEF Graph!Without
<1>3. /\ remaining' \in [plan.nodes -> SUBSET GraphNodes]
      /\ \A m \in plan.nodes : remaining'[m] \subseteq remaining[m] /\ remaining[m] \ {d} \subseteq remaining'[m]
  BY <1>1, <1>2
<1>4. \A i \in 1..Len(stack) : stack[i] \in plan.nodes
  BY <1>1
<1>5. \A i \in 1..Len(stack) :
        \A e \in plan.deps[stack[i]] \ remaining'[stack[i]] :
          e \in Known \/ (i < Len(stack) /\ e = stack[i + 1])
  BY <1>3, <1>4 DEF OnTheWay
<1>. QED BY <1>3, <1>4, <1>5 DEF OnTheWay

\* A call makes one for its dependency, which it was not in a call for.
LEMMA CallCalls ==
  ASSUME PlanTypes, OnTheWay, phase \in {"search", "valid"}, NEW d \in plan.nodes,
         Graph!LooksAt(d), d \notin Known, \A i \in 1..Len(stack) : stack[i] # d,
         Graph!Call(d, Graph!Without(d)), plan' = plan, phase' = phase, Known' = Known
  PROVE  /\ stack' = Append(stack, d)
         /\ stack' \in Seq(plan.nodes) /\ remaining' \in [plan.nodes -> SUBSET GraphNodes]
         /\ OnTheWay'
<1>1. /\ stack # <<>> /\ stack \in Seq(plan.nodes) /\ remaining \in [plan.nodes -> SUBSET GraphNodes]
      /\ Len(stack) \in Nat \ {0} /\ Graph!Last(stack) = stack[Len(stack)] /\ Graph!Last(stack) \in plan.nodes
      /\ plan.deps \in [plan.nodes -> SUBSET GraphNodes] /\ d \in remaining[stack[Len(stack)]]
  BY Innermost DEF Graph!LooksAt, PlanTypes
<1> DEFINE len == Len(stack)
           top == stack[len]
<1>2. /\ stack' = Append(stack, d)
      /\ remaining' = [[remaining EXCEPT ![top] = remaining[top] \ {d}] EXCEPT ![d] = plan.deps[d]]
  BY <1>1 DEF Graph!Without, Graph!Call
<1>3. /\ stack' \in Seq(plan.nodes) /\ Len(stack') = len + 1 /\ stack'[len + 1] = d
      /\ \A i \in 1..len : stack'[i] = stack[i] /\ stack[i] \in plan.nodes /\ stack[i] # d
  BY <1>1, <1>2
<1>4. top \in plan.nodes /\ top # d
  BY <1>1, <1>3
<1>5. /\ remaining' \in [plan.nodes -> SUBSET GraphNodes]
      /\ remaining'[d] = plan.deps[d] /\ remaining'[top] = remaining[top] \ {d}
      /\ \A m \in plan.nodes \ {d, top} : remaining'[m] = remaining[m]
  BY <1>1, <1>2, <1>4
<1>6. \A i \in 1..(len - 1) : stack[i] # top
  BY <1>1 DEF OnTheWay
<1>7. \A i \in 1..len : i = len \/ remaining'[stack[i]] = remaining[stack[i]]
  BY <1>3, <1>5, <1>6
<1>a. d \in plan.deps[top]
  BY <1>1 DEF OnTheWay
<1>8. \A i \in 1..(Len(stack') - 1) : stack'[i + 1] \in plan.deps[stack'[i]]
  <2>. SUFFICES ASSUME NEW i \in 1..len
                PROVE  stack'[i + 1] \in plan.deps[stack'[i]]
    BY <1>1, <1>3
  <2>1. CASE i = len
    BY <2>1, <1>1, <1>3, <1>a
  <2>2. CASE i # len
    <3>1. i \in 1..(len - 1) /\ i + 1 \in 1..len
      BY <2>2, <1>1
    <3>. QED BY <3>1, <1>3 DEF OnTheWay
  <2>. QED BY <2>1, <2>2
<1>9. \A i, j \in 1..Len(stack') : stack'[i] = stack'[j] => i = j
  <2>. SUFFICES ASSUME NEW i \in 1..(len + 1), NEW j \in 1..(len + 1), stack'[i] = stack'[j]
                PROVE  i = j
    BY <1>3
  <2>1. CASE i \in 1..len /\ j \in 1..len
    BY <2>1, <1>3 DEF OnTheWay
  <2>2. CASE i = len + 1 \/ j = len + 1
    BY <2>2, <1>1, <1>3
  <2>. QED BY <2>1, <2>2, <1>1
<1>10. \A i \in 1..Len(stack') : remaining'[stack'[i]] \subseteq plan.deps[stack'[i]]
  <2>. SUFFICES ASSUME NEW i \in 1..(len + 1)
                PROVE  remaining'[stack'[i]] \subseteq plan.deps[stack'[i]]
    BY <1>3
  <2>1. CASE i = len + 1
    BY <2>1, <1>3, <1>5
  <2>2. CASE i \in 1..len
    BY <2>2, <1>3, <1>5, <1>7 DEF OnTheWay
  <2>. QED BY <2>1, <2>2, <1>1
<1>11. \A i \in 1..Len(stack') :
         /\ stack'[i] \notin Known
         /\ \A e \in plan.deps[stack'[i]] \ remaining'[stack'[i]] :
              e \in Known \/ (i < Len(stack') /\ e = stack'[i + 1])
  <2>. SUFFICES ASSUME NEW i \in 1..(len + 1)
                PROVE  /\ stack'[i] \notin Known
                       /\ \A e \in plan.deps[stack'[i]] \ remaining'[stack'[i]] :
                            e \in Known \/ (i < len + 1 /\ e = stack'[i + 1])
    BY <1>3
  <2>1. CASE i = len + 1
    BY <2>1, <1>3, <1>5
  <2>2. CASE i = len
    BY <2>2, <1>1, <1>3, <1>5 DEF OnTheWay
  <2>3. CASE i \in 1..(len - 1)
    <3>1. i \in 1..len /\ i + 1 \in 1..len /\ i # len /\ i < len + 1
      BY <2>3, <1>1
    <3>. QED BY <3>1, <1>3, <1>7 DEF OnTheWay
  <2>. QED BY <2>1, <2>2, <2>3, <1>1
<1>. QED BY <1>2, <1>3, <1>5, <1>8, <1>9, <1>10, <1>11 DEF OnTheWay

\* A call returns: what its node depends on is done with, and now it is too.
LEMMA CallReturns ==
  ASSUME PlanTypes, OnTheWay, phase \in {"search", "valid"}, Graph!Returns,
         plan' = plan, phase' = phase, remaining' = remaining,
         Known' = Known \cup {Graph!Last(stack)}
  PROVE  /\ Graph!Last(stack) \in plan.nodes \ Known
         /\ plan.deps[Graph!Last(stack)] \subseteq Known
         /\ Len(stack) \in Nat \ {0}
         /\ stack' \in Seq(plan.nodes)
         /\ Len(stack') = Len(stack) - 1
         /\ \A i \in 1..Len(stack') : stack'[i] = stack[i]
         /\ OnTheWay'
<1>1. /\ stack # <<>> /\ stack \in Seq(plan.nodes)
      /\ Len(stack) \in Nat \ {0} /\ Graph!Last(stack) = stack[Len(stack)] /\ Graph!Last(stack) \in plan.nodes
      /\ remaining[stack[Len(stack)]] = {}
  BY Innermost DEF Graph!Returns, PlanTypes
<1> DEFINE len == Len(stack)
           top == stack[len]
<1>2. stack' = SubSeq(stack, 1, len - 1)
  BY DEF Graph!Returns, Graph!Front
<1>3. /\ stack' \in Seq(plan.nodes) /\ Len(stack') = len - 1
      /\ \A i \in 1..(len - 1) : stack'[i] = stack[i]
  BY <1>1, <1>2, ButTheLast
<1>4. len \in 1..len /\ top \notin Known /\ plan.deps[top] \subseteq Known
  BY <1>1 DEF OnTheWay
<1>5. \A i \in 1..(len - 1) : i \in 1..len /\ stack[i] # top
  BY <1>1 DEF OnTheWay
<1>6. \A i \in 1..(Len(stack') - 1) : stack'[i + 1] \in plan.deps[stack'[i]]
  <2>. SUFFICES ASSUME NEW i \in 1..(len - 2)
                PROVE  stack'[i + 1] \in plan.deps[stack'[i]]
    BY <1>1, <1>3
  <2>1. i \in 1..(len - 1) /\ i + 1 \in 1..(len - 1)
    BY <1>1
  <2>. QED BY <2>1, <1>3 DEF OnTheWay
<1>7. \A i, j \in 1..Len(stack') : stack'[i] = stack'[j] => i = j
  BY <1>3, <1>5 DEF OnTheWay
<1>8. \A i \in 1..Len(stack') : remaining'[stack'[i]] \subseteq plan.deps[stack'[i]]
  BY <1>3, <1>5 DEF OnTheWay
<1>9. \A i \in 1..Len(stack') :
         /\ stack'[i] \notin Known \cup {top}
         /\ \A e \in plan.deps[stack'[i]] \ remaining'[stack'[i]] :
              e \in Known \cup {top} \/ (i < Len(stack') /\ e = stack'[i + 1])
  <2>. SUFFICES ASSUME NEW i \in 1..(len - 1)
                PROVE  /\ stack'[i] \notin Known \cup {top}
                       /\ \A e \in plan.deps[stack'[i]] \ remaining'[stack'[i]] :
                            e \in Known \cup {top} \/ (i < len - 1 /\ e = stack'[i + 1])
    BY <1>3
  <2>1. stack'[i] \notin Known \cup {top}
    BY <1>3, <1>5 DEF OnTheWay
  <2>2. CASE i = len - 1
    BY <2>1, <2>2, <1>1, <1>3, <1>5 DEF OnTheWay
  <2>3. CASE i < len - 1
    <3>1. i + 1 \in 1..(len - 1)
      BY <2>3, <1>1
    <3>. QED BY <2>1, <2>3, <3>1, <1>3, <1>5 DEF OnTheWay
  <2>. QED BY <2>2, <2>3, <1>1
<1>. QED BY <1>1, <1>3, <1>4, <1>6, <1>7, <1>8, <1>9 DEF OnTheWay

-----------------------------------------------------------------------------
LEMMA PlanBegins == Graph!Init => PlanInv
<1>. SUFFICES ASSUME Graph!Init PROVE PlanInv
  OBVIOUS
<1>1. PICK nodes \in SUBSET GraphNodes : plan \in Graph!PlansOver(nodes)
  BY DEF Graph!Init
<1>2. plan.nodes = nodes /\ plan.deps \in [nodes -> SUBSET GraphNodes]
  BY <1>1 DEF Graph!PlansOver
<1>3. /\ phase = "new" /\ stack = <<>> /\ cycle = <<>> /\ depth = <<>>
      /\ color = [n \in plan.nodes |-> "white"] /\ remaining = [n \in plan.nodes |-> {}]
  BY DEF Graph!Init
<1>4. stack \in Seq(plan.nodes) /\ Len(stack) = 0 /\ 1..Len(stack) = {} /\ 1..(Len(stack) - 1) = {}
  BY <1>3
<1>5. DOMAIN depth = {}
  BY <1>3
<1>6. PlanTypes
  BY <1>2, <1>3, <1>4 DEF PlanTypes
<1>7. OnTheWay
  BY <1>4 DEF OnTheWay
<1>8. Colored
  BY <1>3 DEF Colored, NoCycleAmong, Black
<1>9. Reported
  BY <1>3 DEF Reported, Graph!ReportedCycleIsReal
<1>10. depth = [n \in DOMAIN depth |-> depth[n]]
  BY <1>3
<1>11. Measured
  BY <1>3, <1>5, <1>10 DEF Measured, Deep
<1>. QED BY <1>6, <1>7, <1>8, <1>9, <1>11 DEF PlanInv

LEMMA ValidateKeeps ==
  ASSUME PlanInv, Graph!Validate
  PROVE  PlanInv'
<1>. USE DEF PlanInv, Graph!Validate
<1>1. phase' \in {"search", "malformed"} /\ (phase' = "search" => Graph!WellFormed(plan))
  OBVIOUS
<1>2. PlanTypes'
  BY <1>1 DEF PlanTypes, Graph!WellFormed
<1>3. Len(stack) = 0 /\ 1..Len(stack) = {} /\ 1..(Len(stack) - 1) = {}
  BY DEF PlanTypes
<1>4. OnTheWay'
  BY <1>3 DEF OnTheWay
<1>5. Colored' /\ Reported' /\ Measured'
  <2>1. Colored'
    BY DEF Colored, NoCycleAmong, Black
  <2>2. Reported'
    BY <1>1 DEF Reported, Graph!ReportedCycleIsReal
  <2>3. Measured'
    BY <1>1 DEF Measured, Deep
  <2>. QED BY <2>1, <2>2, <2>3
<1>. QED BY <1>2, <1>4, <1>5

-----------------------------------------------------------------------------
(* The depth-first search.                                                 *)

\* A visit begins: its node turns gray, and the black ones stay as they are.
LEMMA VisitColors ==
  ASSUME PlanTypes, Colored, phase = "search", phase' = phase, plan' = plan,
         NEW n \in plan.nodes, color[n] = "white",
         color' = [color EXCEPT ![n] = "gray"],
         \A m \in plan.nodes :
           (\E i \in 1..Len(stack') : stack'[i] = m) <=> m = n \/ \E i \in 1..Len(stack) : stack[i] = m
  PROVE  /\ color' \in [plan.nodes -> {"white", "gray", "black"}]
         /\ Known' = Known
         /\ Colored'
<1>1. color \in [plan.nodes -> {"white", "gray", "black"}]
  BY DEF PlanTypes
<1>2. /\ color' \in [plan.nodes -> {"white", "gray", "black"}]
      /\ \A m \in plan.nodes : color'[m] = IF m = n THEN "gray" ELSE color[m]
  BY <1>1
<1>3. \A m \in plan.nodes : color'[m] = "black" <=> color[m] = "black"
  BY <1>2
<1>4. Black' = Black
  BY <1>3 DEF Black
<1>5. Known' = Known
  BY <1>4 DEF Known
<1>6. \A m \in plan.nodes : color[m] = "black" => \A d \in plan.deps[m] : color[d] = "black" /\ d \in plan.nodes
  BY DEF Colored, PlanTypes, Graph!WellFormed
<1>7. \A m \in plan.nodes : color'[m] = "black" => \A d \in plan.deps[m] : color'[d] = "black"
  BY <1>3, <1>6
<1>8. \A m \in plan.nodes : color'[m] = "gray" <=> \E i \in 1..Len(stack') : stack'[i] = m
  <2>. SUFFICES ASSUME NEW m \in plan.nodes
                PROVE  color'[m] = "gray" <=> \E i \in 1..Len(stack') : stack'[i] = m
    OBVIOUS
  <2>1. color[m] = "gray" <=> \E i \in 1..Len(stack) : stack[i] = m
    BY DEF Colored
  <2>. QED BY <2>1, <1>2
<1>9. NoCycleAmong(Black)'
  BY <1>4 DEF Colored, NoCycleAmong
<1>. QED BY <1>2, <1>5, <1>7, <1>8, <1>9 DEF Colored

LEMMA VisitKeeps ==
  ASSUME PlanInv, phase = "search", NEW n \in plan.nodes, color[n] = "white",
         \/ stack = <<>> /\ Graph!Visit(n, remaining)
         \/ Graph!LooksAt(n) /\ Graph!Visit(n, Graph!Without(n)),
         UNCHANGED <<plan, depth>>
  PROVE  PlanInv'
<1>. USE DEF PlanInv
<1>1. /\ color' = [color EXCEPT ![n] = "gray"] /\ phase' = phase /\ cycle' = cycle
      /\ stack' = Append(stack, n) /\ stack \in Seq(plan.nodes)
  BY DEF Graph!Visit, Graph!Call, PlanTypes
<1>2. \A m \in plan.nodes :
        (\E i \in 1..Len(stack') : stack'[i] = m) <=> m = n \/ \E i \in 1..Len(stack) : stack[i] = m
  <2>1. /\ Len(stack) \in Nat /\ Len(stack') = Len(stack) + 1 /\ stack'[Len(stack) + 1] = n
        /\ \A i \in 1..Len(stack) : stack'[i] = stack[i]
    BY <1>1
  <2>. QED BY <2>1
<1>3. Known' = Known /\ Colored' /\ color' \in [plan.nodes -> {"white", "gray", "black"}]
  BY <1>1, <1>2, VisitColors
<1>4. n \notin Known /\ \A i \in 1..Len(stack) : stack[i] # n
  BY DEF Known, Black, Colored
<1>5. stack' \in Seq(plan.nodes) /\ remaining' \in [plan.nodes -> SUBSET GraphNodes] /\ OnTheWay'
  <2>1. CASE stack = <<>> /\ Graph!Visit(n, remaining)
    BY <2>1, <1>1, <1>3, <1>4, LoopCalls DEF Graph!Visit
  <2>2. CASE Graph!LooksAt(n) /\ Graph!Visit(n, Graph!Without(n))
    BY <2>2, <1>1, <1>3, <1>4, CallCalls DEF Graph!Visit
  <2>. QED BY <2>1, <2>2
<1>6. PlanTypes'
  BY <1>1, <1>3, <1>5 DEF PlanTypes, Graph!WellFormed
<1>7. Reported' /\ Measured'
  BY <1>1 DEF Reported, Graph!ReportedCycleIsReal, Measured, Deep
<1>. QED BY <1>3, <1>5, <1>6, <1>7

\* The path and the node it closes at are a cycle of dependencies.
LEMMA PathCloses ==
  ASSUME PlanTypes, OnTheWay, NEW d \in plan.nodes, Graph!LooksAt(d),
         NEW i \in 1..Len(stack), stack[i] = d
  PROVE  LET c == Append(SubSeq(stack, i, Len(stack)), d)
         IN  /\ c \in Seq(plan.nodes) /\ Len(c) > 1 /\ c[1] = c[Len(c)]
             /\ \A k \in 1..(Len(c) - 1) : c[k + 1] \in plan.deps[c[k]]
             /\ Graph!IsInjective(Tail(c))
<1> DEFINE len == Len(stack)
           path == SubSeq(stack, i, len)
           c == Append(path, d)
           m == len - i + 1
<1>1. /\ stack # <<>> /\ stack \in Seq(plan.nodes) /\ len \in Nat \ {0}
      /\ d \in remaining[stack[len]] /\ remaining[stack[len]] \subseteq plan.deps[stack[len]]
  BY Innermost DEF Graph!LooksAt, PlanTypes, OnTheWay
<1>2. m \in Nat \ {0} /\ \A k \in 1..m : i + k - 1 \in 1..len
  BY <1>1
<1>3. /\ c \in Seq(plan.nodes) /\ Len(c) = m + 1 /\ c[m + 1] = d
      /\ \A k \in 1..m : c[k] = stack[i + k - 1]
      /\ DOMAIN Tail(c) = 1..m /\ \A k \in 1..m : Tail(c)[k] = c[k + 1]
  <2>1. /\ path \in Seq(plan.nodes) /\ Len(path) = m
        /\ \A k \in 1..m : path[k] = stack[i + k - 1]
    BY <1>1, FromOn
  <2>. HIDE DEF path
  <2>2. path # <<>>
    BY <2>1, <1>2
  <2>3. /\ c \in Seq(plan.nodes) /\ Len(c) = Len(path) + 1 /\ c[Len(path) + 1] = d
        /\ \A k \in 1..Len(path) : c[k] = path[k]
        /\ DOMAIN Tail(c) = 1..Len(path) /\ \A k \in 1..Len(path) : Tail(c)[k] = c[k + 1]
    <3>1. ASSUME NEW s \in Seq(plan.nodes), s # <<>>
          PROVE  /\ Append(s, d) \in Seq(plan.nodes) /\ Len(Append(s, d)) = Len(s) + 1
                 /\ Append(s, d)[Len(s) + 1] = d /\ \A k \in 1..Len(s) : Append(s, d)[k] = s[k]
                 /\ DOMAIN Tail(Append(s, d)) = 1..Len(s)
                 /\ \A k \in 1..Len(s) : Tail(Append(s, d))[k] = Append(s, d)[k + 1]
      BY <3>1, AppendedTail, SMTT(60)
    <3>. QED BY <3>1, <2>1, <2>2, Zenon
  <2>. HIDE DEF c, m
  <2>. QED BY <2>1, <2>3
<1>. HIDE DEF c
<1>4. c[1] = d
  BY <1>2, <1>3
<1>5. \A k \in 1..m : c[k + 1] \in plan.deps[c[k]]
  <2>. SUFFICES ASSUME NEW k \in 1..m PROVE c[k + 1] \in plan.deps[c[k]]
    OBVIOUS
  <2>1. CASE k = m
    <3>1. i + m - 1 = len /\ m \in 1..m
      BY <1>1, <1>2
    <3>2. c[k + 1] = d /\ c[k] = stack[len]
      BY <2>1, <3>1, <1>3
    <3>. QED BY <3>2, <1>1
  <2>2. CASE k # m
    <3>1. k + 1 \in 1..m /\ i + (k + 1) - 1 = (i + k - 1) + 1 /\ i + k - 1 \in 1..(len - 1)
      BY <2>2, <1>1
    <3>2. c[k + 1] = stack[(i + k - 1) + 1] /\ c[k] = stack[i + k - 1]
      <4>1. c[k + 1] = stack[i + (k + 1) - 1]
        BY <3>1, <1>3, Zenon
      <4>2. c[k] = stack[i + k - 1]
        BY <1>3, Zenon
      <4>. QED BY <4>1, <4>2, <3>1, Zenon
    <3>. QED BY <3>1, <3>2 DEF OnTheWay
  <2>. QED BY <2>1, <2>2
<1>6. Graph!IsInjective(Tail(c))
  <2>1. \A k \in 1..m : c[k + 1] = stack[IF k = m THEN i ELSE i + k] /\ (k # m => i + k \in 1..len)
    <3>. SUFFICES ASSUME NEW k \in 1..m
                  PROVE  c[k + 1] = stack[IF k = m THEN i ELSE i + k] /\ (k # m => i + k \in 1..len)
      OBVIOUS
    <3>1. CASE k = m
      BY <3>1, <1>3
    <3>2. CASE k # m
      <4>1. k + 1 \in 1..m /\ i + (k + 1) - 1 = i + k /\ i + k \in 1..len
        BY <3>2, <1>1
      <4>. QED BY <3>2, <4>1, <1>3
    <3>. QED BY <3>1, <3>2
  <2>2. ASSUME NEW a \in 1..m, NEW b \in 1..m, c[a + 1] = c[b + 1]
        PROVE  a = b
    <3> DEFINE spot(k) == IF k = m THEN i ELSE i + k
    <3>1. spot(a) \in 1..len /\ spot(b) \in 1..len /\ stack[spot(a)] = stack[spot(b)]
      BY <2>1, <2>2
    <3>2. spot(a) = spot(b)
      BY <3>1 DEF OnTheWay
    <3>. QED BY <3>2, <1>1
  <2>. HIDE DEF m
  <2>. QED BY <2>2, <1>3, Zenon DEF Graph!IsInjective
<1>7. Len(c) > 1 /\ c[1] = c[Len(c)] /\ Len(c) - 1 = m
  BY <1>2, <1>3, <1>4
<1>8. /\ c \in Seq(plan.nodes) /\ Len(c) > 1 /\ c[1] = c[Len(c)]
      /\ \A k \in 1..(Len(c) - 1) : c[k + 1] \in plan.deps[c[k]]
      /\ Graph!IsInjective(Tail(c))
  BY <1>3, <1>5, <1>6, <1>7
<1>. QED BY <1>8 DEF c

LEMMA ClosesKeeps ==
  ASSUME PlanInv, phase = "search", NEW d \in plan.nodes, Graph!LooksAt(d), Graph!Closes(d),
         UNCHANGED <<plan, depth>>
  PROVE  PlanInv'
<1>. USE DEF PlanInv
<1>1. stack \in Seq(plan.nodes) /\ DOMAIN stack = 1..Len(stack)
  BY DEF PlanTypes
<1>2. PICK i \in 1..Len(stack) : stack[i] = d /\ cycle' = Append(SubSeq(stack, i, Len(stack)), d)
  BY <1>1 DEF Graph!Closes
<1>3. phase' = "cyclic" /\ UNCHANGED <<color, stack, remaining>>
  BY DEF Graph!Closes
<1>4. /\ cycle' \in Seq(plan.nodes) /\ Len(cycle') > 1 /\ cycle'[1] = cycle'[Len(cycle')]
      /\ \A k \in 1..(Len(cycle') - 1) : cycle'[k + 1] \in plan.deps[cycle'[k]]
      /\ Graph!IsInjective(Tail(cycle'))
  BY <1>2, PathCloses
<1>5. Reported'
  BY <1>3, <1>4 DEF Reported, Graph!ReportedCycleIsReal, Graph!IsInjective
<1>6. PlanTypes'
  BY <1>3 DEF PlanTypes, Graph!WellFormed
<1>7. OnTheWay'
  BY <1>3 DEF OnTheWay
<1>8. Colored'
  BY <1>3 DEF Colored, NoCycleAmong, Black
<1>9. Measured'
  BY <1>3 DEF Measured, Deep
<1>. QED BY <1>5, <1>6, <1>7, <1>8, <1>9

LEMMA BlackSkipped ==
  ASSUME PlanInv, phase = "search", NEW d \in plan.nodes, Graph!LooksAt(d), color[d] = "black",
         remaining' = Graph!Without(d), UNCHANGED <<plan, phase, color, stack, cycle, depth>>
  PROVE  PlanInv'
<1>. USE DEF PlanInv
<1>1. Black' = Black /\ Known' = Known /\ d \in Known
  BY DEF Known, Black
<1>2. remaining' \in [plan.nodes -> SUBSET GraphNodes] /\ OnTheWay'
  BY <1>1, CallSkips
<1>3. PlanTypes'
  BY <1>2 DEF PlanTypes, Graph!WellFormed
<1>4. Colored'
  BY <1>1 DEF Colored, NoCycleAmong
<1>5. Reported' /\ Measured'
  BY DEF Reported, Graph!ReportedCycleIsReal, Measured, Deep
<1>. QED BY <1>2, <1>3, <1>4, <1>5

\* A node whose dependencies are black turns black: a cycle among the black
\* nodes would have to lead through it, and none of them depends on it.
LEMMA ExploredKeeps ==
  ASSUME PlanInv, phase = "search", Graph!Explored, UNCHANGED <<plan, depth>>
  PROVE  PlanInv'
<1>. USE DEF PlanInv
<1> DEFINE top == Graph!Last(stack)
<1>1. Graph!Returns /\ color' = [color EXCEPT ![top] = "black"] /\ UNCHANGED <<phase, remaining, cycle>>
  BY DEF Graph!Explored
<1>2. stack # <<>> /\ top \in plan.nodes /\ top = stack[Len(stack)] /\ Len(stack) \in 1..Len(stack)
  BY <1>1, Innermost DEF Graph!Returns
<1> HIDE DEF top
<1>3. /\ color \in [plan.nodes -> {"white", "gray", "black"}]
      /\ color' \in [plan.nodes -> {"white", "gray", "black"}]
      /\ \A n \in plan.nodes : color'[n] = IF n = top THEN "black" ELSE color[n]
  BY <1>1, <1>2 DEF PlanTypes
<1>4. Black' = Black \cup {top}
  BY <1>2, <1>3 DEF Black
<1>5. Known = Black /\ Known' = Known \cup {top}
  BY <1>1, <1>4 DEF Known
<1>6. /\ top \notin Black /\ plan.deps[top] \subseteq Black
      /\ Len(stack) \in Nat \ {0} /\ stack' \in Seq(plan.nodes) /\ Len(stack') = Len(stack) - 1
      /\ \A i \in 1..Len(stack') : stack'[i] = stack[i]
      /\ OnTheWay'
  BY <1>1, <1>5, CallReturns DEF top
<1>7. PlanTypes'
  BY <1>1, <1>3, <1>6 DEF PlanTypes, Graph!WellFormed
<1>8. \A n \in plan.nodes : color'[n] = "gray" <=> \E i \in 1..Len(stack') : stack'[i] = n
  <2>. SUFFICES ASSUME NEW n \in plan.nodes
                PROVE  color'[n] = "gray" <=> \E i \in 1..Len(stack') : stack'[i] = n
    OBVIOUS
  <2>1. color[n] = "gray" <=> \E i \in 1..Len(stack) : stack[i] = n
    BY DEF Colored
  <2>2. \A i \in 1..Len(stack') : i \in 1..Len(stack) /\ i # Len(stack)
    BY <1>6
  <2>3. \A i \in 1..Len(stack) : i # Len(stack) => i \in 1..Len(stack')
    BY <1>6
  <2>4. \A i \in 1..Len(stack) : stack[i] = top => i = Len(stack)
    BY <1>2 DEF OnTheWay
  <2>5. CASE n = top
    <3>1. \A i \in 1..Len(stack') : stack'[i] # top
      BY <2>2, <2>4, <1>6
    <3>. QED BY <2>5, <3>1, <1>3
  <2>6. CASE n # top
    <3>1. (\E i \in 1..Len(stack') : stack'[i] = n) <=> \E i \in 1..Len(stack) : stack[i] = n
      BY <2>2, <2>3, <2>6, <1>2, <1>6
    <3>. QED BY <2>1, <2>6, <3>1, <1>3
  <2>. QED BY <2>5, <2>6
<1>9. \A n \in plan.nodes : color'[n] = "black" => \A d \in plan.deps[n] : color'[d] = "black"
  <2>. SUFFICES ASSUME NEW n \in plan.nodes, color'[n] = "black", NEW d \in plan.deps[n]
                PROVE  color'[d] = "black"
    OBVIOUS
  <2>1. d \in plan.nodes
    BY DEF PlanTypes, Graph!WellFormed
  <2>2. color[d] = "black"
    <3>1. CASE n = top
      BY <3>1, <1>6 DEF Black
    <3>2. CASE n # top
      BY <3>2, <1>3 DEF Colored
    <3>. QED BY <3>1, <3>2
  <2>. QED BY <2>1, <2>2, <1>3
<1>10. NoCycleAmong(Black)'
  <2>. SUFFICES ASSUME NEW loop \in SUBSET (Black \cup {top}), loop # {}
                PROVE  \E n \in loop : plan.deps[n] \cap loop = {}
    BY <1>4 DEF NoCycleAmong
  <2>1. CASE loop \subseteq Black
    BY <2>1 DEF Colored, NoCycleAmong
  <2>2. CASE loop = {top}
    BY <2>2, <1>6
  <2>3. CASE top \in loop /\ loop \ {top} # {}
    <3>1. PICK n \in loop \ {top} : plan.deps[n] \cap (loop \ {top}) = {}
      BY <2>3 DEF Colored, NoCycleAmong
    <3>2. n \in plan.nodes /\ color[n] = "black"
      BY <3>1 DEF Black
    <3>3. \A d \in plan.deps[n] : d # top
      BY <3>2, <1>2, <1>6 DEF Colored, Black
    <3>. QED BY <3>1, <3>3
  <2>. QED BY <2>1, <2>2, <2>3
<1>11. Colored'
  BY <1>1, <1>8, <1>9, <1>10 DEF Colored
<1>12. Reported' /\ Measured'
  BY <1>1 DEF Reported, Graph!ReportedCycleIsReal, Measured, Deep
<1>. QED BY <1>6, <1>7, <1>11, <1>12

\* Nothing is white and no call is left: everything is black.
LEMMA AcceptKeeps ==
  ASSUME PlanInv, phase = "search", Graph!Accept, UNCHANGED <<plan, depth>>
  PROVE  PlanInv'
<1>. USE DEF PlanInv
<1>1. /\ stack = <<>> /\ \A n \in plan.nodes : color[n] # "white"
      /\ phase' = "valid" /\ UNCHANGED <<color, stack, remaining, cycle>>
  BY DEF Graph!Accept
<1>2. Len(stack) = 0 /\ 1..Len(stack) = {} /\ 1..(Len(stack) - 1) = {}
  BY <1>1
<1>3. \A n \in plan.nodes : color[n] = "black"
  BY <1>1, <1>2 DEF PlanTypes, Colored
<1>4. PlanTypes'
  BY <1>1 DEF PlanTypes, Graph!WellFormed
<1>5. OnTheWay'
  BY <1>1, <1>2 DEF OnTheWay
<1>6. Colored'
  BY <1>1, <1>3 DEF Colored, NoCycleAmong, Black
<1>7. Reported'
  BY <1>1 DEF Reported, Graph!ReportedCycleIsReal
<1>8. Measured'
  BY <1>1 DEF Measured, Deep
<1>. QED BY <1>4, <1>5, <1>6, <1>7, <1>8

-----------------------------------------------------------------------------
(* The layers.                                                             *)

LEMMA AcceptedIsAcyclic ==
  ASSUME PlanInv, phase \in {"valid", "layered"}
  PROVE  ~Graph!HasCycle(plan)
<1>1. Black = plan.nodes
  BY DEF PlanInv, Colored, Black
<1>. QED BY <1>1 DEF PlanInv, Colored, NoCycleAmong, Graph!HasCycle

\* What a finite set maps to is bounded.
LEMMA Bounded ==
  ASSUME NEW T, IsFiniteSet(T), NEW f, \A t \in T : f[t] \in Nat
  PROVE  \E k \in Nat : \A t \in T : f[t] <= k
<1>1. PICK s \in Seq(T) : \A t \in T : \E i \in 1..Len(s) : s[i] = t
  BY DEF IsFiniteSet
<1>2. Len(s) \in Nat /\ \A i \in 1..Len(s) : f[s[i]] \in Nat
  BY <1>1
<1> DEFINE Bound(n, k) == \A i \in 1..n : f[s[i]] <= k
           Unbounded == {n \in 0..Len(s) : \A k \in Nat : ~Bound(n, k)}
<1>3. \A n \in 0..Len(s) : \E k \in Nat : Bound(n, k)
  <2>. SUFFICES ASSUME Unbounded # {} PROVE FALSE
    OBVIOUS
  <2>1. Unbounded \subseteq Nat
    BY <1>2
  <2>2. PICK n \in Unbounded : \A j \in Unbounded : n <= j
    <3>. HIDE DEF Unbounded
    <3>. QED BY <2>1, SmallestExists
  <2>3. n \in 0..Len(s) /\ n \in Nat /\ \A k \in Nat : ~Bound(n, k)
    BY <1>2
  <2>4. n # 0
    <3>1. Bound(0, 0)
      OBVIOUS
    <3>. QED BY <2>3, <3>1
  <2>5. n \in 1..Len(s) /\ n - 1 \in 0..Len(s) /\ ~(n <= n - 1)
    BY <2>3, <2>4, <1>2
  <2>6. n - 1 \notin Unbounded
    <3>. HIDE DEF Unbounded
    <3>. QED BY <2>2, <2>5
  <2>7. PICK k \in Nat : Bound(n - 1, k)
    BY <2>5, <2>6
  <2> DEFINE x == f[s[n]]
             l == k + x
  <2>8. x \in Nat
    BY <2>5, <1>2
  <2>9. l \in Nat /\ k <= l /\ x <= l
    <3>. HIDE DEF x
    <3>. QED BY <2>8
  <2>10. ASSUME NEW i \in 1..n PROVE f[s[i]] <= l
    <3>1. CASE i = n
      BY <3>1, <2>9
    <3>2. CASE i # n
      <4>1. i \in 1..(n - 1) /\ i \in 1..Len(s)
        BY <3>2, <2>5
      <4> DEFINE y == f[s[i]]
      <4>2. y <= k /\ y \in Nat
        BY <4>1, <2>7, <1>2
      <4>. HIDE DEF l, x, y
      <4>3. y <= l
        BY <4>2, <2>9
      <4>. QED BY <4>3 DEF y
    <3>. QED BY <3>1, <3>2
  <2>. HIDE DEF l
  <2>. QED BY <2>3, <2>9, <2>10
<1>4. PICK k \in Nat : Bound(Len(s), k)
  <2>1. Len(s) \in 0..Len(s)
    BY <1>2
  <2>. QED BY <2>1, <1>3
<1>5. \A t \in T : f[t] <= k
  BY <1>1, <1>4
<1>. QED BY <1>5

\* The deepest dependency's depth, and -1 where there is none.
LEMMA DeepestFound ==
  ASSUME NEW deps, IsFiniteSet(deps), \A d \in deps : depth[d] \in Nat
  PROVE  /\ Graph!Deepest(deps) \in Nat \cup {-1}
         /\ \A d \in deps : depth[d] <= Graph!Deepest(deps)
         /\ Graph!Deepest(deps) # -1 => \E d \in deps : depth[d] = Graph!Deepest(deps)
<1> DEFINE S == {-1} \cup {depth[d] : d \in deps}
           Above == {k \in Nat : \A x \in S : x <= k}
<1>1. \E m \in S : \A x \in S : m >= x
  <2>1. CASE deps = {}
    BY <2>1
  <2>2. CASE deps # {}
    <3>1. PICK b \in Nat : \A d \in deps : depth[d] <= b
      BY Bounded
    <3>2. Above # {}
      BY <3>1
    <3>3. PICK k \in Above : \A j \in Above : k <= j
      BY <3>2, SmallestExists
    <3>4. k \in S
      <4>. SUFFICES ASSUME \A d \in deps : depth[d] # k PROVE FALSE
        OBVIOUS
      <4>1. \A d \in deps : depth[d] <= k - 1
        BY <3>3
      <4>2. k - 1 \in Nat
        BY <4>1, <2>2, <3>3
      <4>3. k - 1 \in Above
        BY <4>1, <4>2
      <4>. QED BY <4>3, <3>3
    <3>. QED BY <3>3, <3>4
  <2>. QED BY <2>1, <2>2
<1> DEFINE m == CHOOSE x \in S : \A y \in S : x >= y
<1>2. Graph!Deepest(deps) = m
  BY DEF Graph!Deepest, Graph!Max
<1>3. m \in S /\ \A x \in S : m >= x
  BY <1>1
<1> HIDE DEF m
<1>4. m \in Nat \cup {-1} /\ \A d \in deps : depth[d] <= m
  BY <1>3
<1>5. m # -1 => \E d \in deps : depth[d] = m
  BY <1>3
<1>. QED BY <1>2, <1>4, <1>5

\* A step of the layering that only makes or goes on with calls.
LEMMA CallsKeep ==
  ASSUME PlanInv, phase = "valid", UNCHANGED <<plan, phase, color, cycle, depth>>,
         \/ \E n \in plan.nodes : stack = <<>> /\ n \notin DOMAIN depth /\ Graph!Call(n, remaining)
         \/ \E d \in plan.nodes : Graph!LooksAt(d) /\ Graph!Compute(d)
  PROVE  PlanInv'
<1>. USE DEF PlanInv
<1>1. Known = DOMAIN depth /\ Known' = Known
  BY DEF Known
<1> DEFINE Kept ==
             /\ stack' \in Seq(plan.nodes) /\ remaining' \in [plan.nodes -> SUBSET GraphNodes]
             /\ OnTheWay'
<1>2. ASSUME NEW n \in plan.nodes, stack = <<>>, n \notin DOMAIN depth, Graph!Call(n, remaining)
      PROVE  Kept
  BY <1>2, <1>1, LoopCalls
<1>3. ASSUME NEW d \in plan.nodes, Graph!LooksAt(d), d \in DOMAIN depth,
             remaining' = Graph!Without(d), stack' = stack
      PROVE  Kept
  BY <1>3, <1>1, CallSkips DEF PlanTypes
<1>4. ASSUME NEW d \in plan.nodes, Graph!LooksAt(d), d \notin DOMAIN depth,
             Graph!Call(d, Graph!Without(d))
      PROVE  Kept
  <2>1. ASSUME NEW i \in 1..Len(stack), stack[i] = d PROVE FALSE
    <3>1. /\ stack \in Seq(plan.nodes) /\ d \in plan.deps[stack[Len(stack)]]
      BY <1>4, Innermost DEF PlanTypes, OnTheWay, Graph!LooksAt
    <3>2. \A k \in i..(Len(stack) - 1) : stack[k + 1] \in plan.deps[stack[k]]
      BY <3>1 DEF OnTheWay
    <3>3. Graph!HasCycle(plan)
      BY <2>1, <3>1, <3>2, CycleFound DEF PlanTypes
    <3>. QED BY <3>3, AcceptedIsAcyclic
  <2>. QED BY <2>1, <1>1, <1>4, CallCalls
<1>5. Kept
  BY <1>2, <1>3, <1>4 DEF Graph!Compute
<1>6. PlanTypes'
  BY <1>5 DEF PlanTypes, Graph!WellFormed
<1>7. Colored'
  BY DEF Colored, NoCycleAmong, Black
<1>8. Reported' /\ Measured'
  BY DEF Reported, Graph!ReportedCycleIsReal, Measured, Deep
<1>. QED BY <1>5, <1>6, <1>7, <1>8

\* A call returns with its node's depth: one more than the deepest dependency's.
LEMMA ComputedKeeps ==
  ASSUME PlanInv, phase = "valid", Graph!Computed, UNCHANGED <<plan, color, cycle>>
  PROVE  PlanInv'
<1>. USE DEF PlanInv
<1> DEFINE top == Graph!Last(stack)
           found == Graph!Deepest(plan.deps[top])
<1>1. /\ Graph!Returns /\ UNCHANGED <<phase, remaining>>
      /\ depth' = [n \in DOMAIN depth \cup {top} |->
                     IF n = top THEN Graph!Deepest(plan.deps[n]) + 1 ELSE depth[n]]
  BY DEF Graph!Computed
<1>2. Known = DOMAIN depth /\ DOMAIN depth' = DOMAIN depth \cup {top} /\ Known' = DOMAIN depth \cup {top}
  BY <1>1 DEF Known
<1>3. /\ top \in plan.nodes /\ top \notin DOMAIN depth /\ plan.deps[top] \subseteq DOMAIN depth
      /\ Len(stack) \in Nat \ {0} /\ stack' \in Seq(plan.nodes) /\ OnTheWay'
  BY <1>1, <1>2, CallReturns
<1> HIDE DEF top
<1>4. PlanTypes'
  BY <1>1, <1>3 DEF PlanTypes, Graph!WellFormed
<1>5. /\ found \in Nat \cup {-1}
      /\ \A d \in plan.deps[top] : depth[d] <= found
      /\ found # -1 => \E d \in plan.deps[top] : depth[d] = found
  <2>1. IsFiniteSet(plan.deps[top])
    BY <1>3, GraphAssumption, FS_Subset DEF PlanTypes
  <2>2. \A d \in plan.deps[top] : depth[d] \in Nat
    BY <1>3 DEF Measured, Deep
  <2>. QED BY <2>1, <2>2, DeepestFound
<1>6. /\ depth'[top] = found + 1
      /\ \A n \in DOMAIN depth : n # top /\ depth'[n] = depth[n]
  BY <1>1, <1>3
<1> HIDE DEF found
<1>7. Deep(DOMAIN depth)'
  <2>. SUFFICES ASSUME NEW n \in DOMAIN depth \cup {top}
                PROVE  /\ depth'[n] \in Nat /\ plan.deps[n] \subseteq DOMAIN depth \cup {top}
                       /\ \A d \in plan.deps[n] : depth'[d] < depth'[n]
                       /\ depth'[n] # 0 => \E d \in plan.deps[n] : depth'[d] = depth'[n] - 1
    BY <1>2 DEF Deep
  <2>1. CASE n = top
    <3>1. \A d \in plan.deps[top] : depth'[d] = depth[d] /\ depth[d] \in Nat
      BY <1>3, <1>6 DEF Measured, Deep
    <3>2. depth'[top] \in Nat /\ \A d \in plan.deps[top] : depth'[d] < depth'[top]
      BY <3>1, <1>5, <1>6
    <3>3. depth'[top] # 0 => \E d \in plan.deps[top] : depth'[d] = depth'[top] - 1
      BY <3>1, <1>5, <1>6
    <3>. QED BY <2>1, <3>2, <3>3, <1>3
  <2>2. CASE n # top
    <3>1. n \in DOMAIN depth /\ plan.deps[n] \subseteq DOMAIN depth
      BY <2>2 DEF Measured, Deep
    <3>2. \A d \in plan.deps[n] : depth'[d] = depth[d]
      BY <3>1, <1>6
    <3>. QED BY <3>1, <3>2, <1>6 DEF Measured, Deep
  <2>. QED BY <2>1, <2>2
<1>8. depth' = [n \in DOMAIN depth' |-> depth'[n]]
  BY <1>1
<1>9. Measured'
  BY <1>1, <1>2, <1>3, <1>7, <1>8 DEF Measured
<1>10. Colored'
  BY <1>1 DEF Colored, NoCycleAmong, Black
<1>11. Reported'
  BY <1>1 DEF Reported, Graph!ReportedCycleIsReal
<1>. QED BY <1>3, <1>4, <1>9, <1>10, <1>11

LEMMA LayeredKeeps ==
  ASSUME PlanInv, phase = "valid", Graph!Layered, UNCHANGED <<plan, color, cycle>>
  PROVE  PlanInv'
<1>. USE DEF PlanInv
<1>1. /\ stack = <<>> /\ DOMAIN depth = plan.nodes
      /\ phase' = "layered" /\ UNCHANGED <<stack, remaining, depth>>
  BY DEF Graph!Layered
<1>2. Len(stack) = 0 /\ 1..Len(stack) = {} /\ 1..(Len(stack) - 1) = {}
  BY <1>1
<1>3. PlanTypes'
  BY <1>1 DEF PlanTypes, Graph!WellFormed
<1>4. OnTheWay'
  BY <1>1, <1>2 DEF OnTheWay
<1>5. Colored'
  BY <1>1 DEF Colored, NoCycleAmong, Black
<1>6. Reported' /\ Measured'
  BY <1>1 DEF Reported, Graph!ReportedCycleIsReal, Measured, Deep
<1>. QED BY <1>3, <1>4, <1>5, <1>6

-----------------------------------------------------------------------------
LEMMA PlanStepKeeps == PlanInv /\ [Graph!Next]_(Graph!vars) => PlanInv'
<1>. SUFFICES ASSUME PlanInv, [Graph!Next]_(Graph!vars) PROVE PlanInv'
  OBVIOUS
<1>1. CASE Graph!Validate
  BY <1>1, ValidateKeeps
<1>2. CASE Graph!findCycle
  <2>1. phase = "search" /\ UNCHANGED <<plan, depth>>
    BY <1>2 DEF Graph!findCycle
  <2>2. ASSUME NEW n \in plan.nodes, stack = <<>>, color[n] = "white", Graph!Visit(n, remaining)
        PROVE  PlanInv'
    BY <2>1, <2>2, VisitKeeps
  <2>3. ASSUME NEW d \in plan.nodes, Graph!LooksAt(d), Graph!Follow(d)
        PROVE  PlanInv'
    <3>1. CASE color[d] = "gray" /\ Graph!Closes(d)
      BY <3>1, <2>1, <2>3, ClosesKeeps
    <3>2. CASE color[d] = "white" /\ Graph!Visit(d, Graph!Without(d))
      BY <3>2, <2>1, <2>3, VisitKeeps
    <3>3. CASE /\ color[d] = "black" /\ remaining' = Graph!Without(d)
               /\ UNCHANGED <<phase, color, stack, cycle>>
      BY <3>3, <2>1, <2>3, BlackSkipped
    <3>. QED BY <2>3, <3>1, <3>2, <3>3 DEF Graph!Follow
  <2>4. CASE Graph!Explored
    BY <2>1, <2>4, ExploredKeeps
  <2>5. CASE Graph!Accept
    BY <2>1, <2>5, AcceptKeeps
  <2>. QED BY <1>2, <2>2, <2>3, <2>4, <2>5 DEF Graph!findCycle
<1>3. CASE Graph!TopoLayers
  <2>1. phase = "valid" /\ UNCHANGED <<plan, color, cycle>>
    BY <1>3 DEF Graph!TopoLayers
  <2>2. CASE /\ \E n \in plan.nodes : stack = <<>> /\ n \notin DOMAIN depth /\ Graph!Call(n, remaining)
             /\ UNCHANGED <<phase, depth>>
    BY <2>1, <2>2, CallsKeep
  <2>3. CASE /\ \E d \in plan.nodes : Graph!LooksAt(d) /\ Graph!Compute(d)
             /\ UNCHANGED <<phase, depth>>
    BY <2>1, <2>3, CallsKeep
  <2>4. CASE Graph!Computed
    BY <2>1, <2>4, ComputedKeeps
  <2>5. CASE Graph!Layered
    BY <2>1, <2>5, LayeredKeeps
  <2>. QED BY <1>3, <2>2, <2>3, <2>4, <2>5 DEF Graph!TopoLayers
<1>4. CASE UNCHANGED Graph!vars
  <2>. USE <1>4 DEF Graph!vars, PlanInv
  <2>1. PlanTypes'
    BY DEF PlanTypes, Graph!WellFormed
  <2>2. OnTheWay'
    BY DEF OnTheWay, Known, Black
  <2>3. Colored'
    BY DEF Colored, NoCycleAmong, Black
  <2>4. Reported' /\ Measured'
    BY DEF Reported, Graph!ReportedCycleIsReal, Measured, Deep
  <2>. QED BY <2>1, <2>2, <2>3, <2>4
<1>. QED BY <1>1, <1>2, <1>3, <1>4 DEF Graph!Next

-----------------------------------------------------------------------------
(* What the algorithms compute.                                            *)

LEMMA ReportedIsCyclic ==
  ASSUME PlanInv, phase = "cyclic"
  PROVE  Graph!HasCycle(plan)
<1>1. /\ cycle \in Seq(plan.nodes) /\ Len(cycle) > 1 /\ cycle[1] = cycle[Len(cycle)]
      /\ \A k \in 1..(Len(cycle) - 1) : cycle[k + 1] \in plan.deps[cycle[k]]
  BY DEF PlanInv, Reported, Graph!ReportedCycleIsReal
<1>2. /\ 2 \in 1..Len(cycle) /\ cycle[2] \in plan.deps[cycle[Len(cycle)]]
      /\ \A k \in 2..(Len(cycle) - 1) : cycle[k + 1] \in plan.deps[cycle[k]]
  <2>1. 1 \in 1..(Len(cycle) - 1) /\ 1 + 1 = 2
    BY <1>1
  <2>2. cycle[2] \in plan.deps[cycle[1]]
    BY <1>1, <2>1
  <2>. QED BY <1>1, <2>2
<1>. QED BY <1>1, <1>2, CycleFound DEF PlanInv, PlanTypes

\* What holds of the depths once they are all known.
LEMMA LayeredDepths ==
  ASSUME PlanInv, phase = "layered"
  PROVE  /\ depth \in [plan.nodes -> Nat]
         /\ plan.deps \in [plan.nodes -> SUBSET plan.nodes]
         /\ \A n \in plan.nodes : \A d \in plan.deps[n] : depth[d] < depth[n]
         /\ \A n \in plan.nodes : depth[n] # 0 => \E d \in plan.deps[n] : depth[d] = depth[n] - 1
         /\ IsFiniteSet(plan.nodes) /\ Cardinality(plan.nodes) \in Nat
<1>1. DOMAIN depth = plan.nodes /\ depth = [n \in DOMAIN depth |-> depth[n]] /\ Deep(plan.nodes)
  BY DEF PlanInv, Measured
<1>2. depth \in [plan.nodes -> Nat]
  BY <1>1 DEF Deep
<1>3. plan.deps \in [plan.nodes -> SUBSET plan.nodes]
  BY <1>1 DEF Deep, PlanInv, PlanTypes
<1>4. IsFiniteSet(plan.nodes) /\ Cardinality(plan.nodes) \in Nat
  BY GraphAssumption, FS_Subset, FS_CardinalityType DEF PlanInv, PlanTypes
<1>. QED BY <1>1, <1>2, <1>3, <1>4 DEF Deep

\* A chain from n that goes down one layer at a time.
Descends(n, c) ==
  /\ c \in [1..(depth[n] + 1) -> plan.nodes] /\ c[1] = n
  /\ \A i \in 1..depth[n] : c[i + 1] \in plan.deps[c[i]]
  /\ \A i \in 1..(depth[n] + 1) : depth[c[i]] = depth[n] - (i - 1)

LEMMA SomeDescends ==
  ASSUME PlanInv, phase = "layered"
  PROVE  \A n \in plan.nodes : \E c : Descends(n, c)
<1> DEFINE Stuck == {n \in plan.nodes : \A c : ~Descends(n, c)}
           Depth == {depth[n] : n \in Stuck}
<1>. SUFFICES ASSUME Stuck # {} PROVE FALSE
  OBVIOUS
<1>1. depth \in [plan.nodes -> Nat]
  BY LayeredDepths
<1>2. Depth \subseteq Nat /\ Depth # {}
  BY <1>1
<1>3. PICK k \in Depth : \A j \in Depth : k <= j
  <2>. HIDE DEF Depth
  <2>. QED BY <1>2, SmallestExists
<1>4. PICK n \in Stuck : depth[n] = k
  BY <1>3
<1>5. n \in plan.nodes /\ \A c : ~Descends(n, c)
  OBVIOUS
<1>6. CASE depth[n] = 0
  <2> DEFINE c == [i \in 1..1 |-> n]
  <2>1. 1..(depth[n] + 1) = 1..1 /\ 1..depth[n] = {}
    BY <1>6
  <2>2. c \in [1..(depth[n] + 1) -> plan.nodes] /\ c[1] = n
    BY <2>1, <1>5
  <2>3. \A i \in 1..(depth[n] + 1) : depth[c[i]] = depth[n] - (i - 1)
    BY <2>1, <1>6
  <2>4. Descends(n, c)
    BY <2>1, <2>2, <2>3 DEF Descends
  <2>. QED BY <2>4, <1>5
<1>7. CASE depth[n] # 0
  <2>1. PICK d \in plan.deps[n] : depth[d] = depth[n] - 1
    BY <1>5, <1>7, LayeredDepths
  <2>2. d \in plan.nodes /\ depth[d] \in Nat /\ depth[n] \in Nat /\ depth[n] = depth[d] + 1
    BY <1>1, <1>5, <2>1, LayeredDepths
  <2>3. d \notin Stuck
    <3>. SUFFICES ASSUME d \in Stuck PROVE FALSE
      OBVIOUS
    <3>1. depth[d] \in Depth
      OBVIOUS
    <3>. HIDE DEF Depth
    <3>. QED BY <3>1, <2>2, <1>3, <1>4
  <2>4. PICK b : Descends(d, b)
    BY <2>2, <2>3
  <2> DEFINE c == [i \in 1..(depth[n] + 1) |-> IF i = 1 THEN n ELSE b[i - 1]]
  <2>5. /\ b \in [1..depth[n] -> plan.nodes] /\ b[1] = d
        /\ \A i \in 1..depth[d] : b[i + 1] \in plan.deps[b[i]]
        /\ \A i \in 1..depth[n] : depth[b[i]] = depth[d] - (i - 1)
    BY <2>2, <2>4 DEF Descends
  <2>6. \A i \in 2..(depth[n] + 1) : i - 1 \in 1..depth[n] /\ c[i] = b[i - 1]
    BY <2>2
  <2>7. 1 \in 1..(depth[n] + 1) /\ c[1] = n
    BY <2>2
  <2>8. \A i \in 1..(depth[n] + 1) : i # 1 => i \in 2..(depth[n] + 1)
    BY <2>2
  <2>9. c \in [1..(depth[n] + 1) -> plan.nodes]
    BY <1>5, <2>5, <2>6, <2>8
  <2>. HIDE DEF c
  <2>10. \A i \in 1..depth[n] : c[i + 1] \in plan.deps[c[i]]
    <3>. SUFFICES ASSUME NEW i \in 1..depth[n] PROVE c[i + 1] \in plan.deps[c[i]]
      OBVIOUS
    <3>1. i + 1 \in 2..(depth[n] + 1) /\ (i + 1) - 1 = i /\ c[i + 1] = b[i]
      BY <2>2, <2>6
    <3>2. CASE i = 1
      BY <3>1, <3>2, <2>1, <2>5, <2>7
    <3>3. CASE i # 1
      <4>1. i \in 2..(depth[n] + 1) /\ i - 1 \in 1..depth[d] /\ (i - 1) + 1 = i
        BY <3>3, <2>2
      <4>2. c[i] = b[i - 1] /\ b[(i - 1) + 1] \in plan.deps[b[i - 1]]
        BY <4>1, <2>5, <2>6
      <4>. QED BY <3>1, <4>1, <4>2
    <3>. QED BY <3>2, <3>3
  <2>11. \A i \in 1..(depth[n] + 1) : depth[c[i]] = depth[n] - (i - 1)
    <3>. SUFFICES ASSUME NEW i \in 1..(depth[n] + 1) PROVE depth[c[i]] = depth[n] - (i - 1)
      OBVIOUS
    <3>1. CASE i = 1
      BY <3>1, <2>2, <2>7
    <3>2. CASE i # 1
      <4>1. i - 1 \in 1..depth[n] /\ c[i] = b[i - 1]
        BY <3>2, <2>6, <2>8
      <4>2. depth[b[i - 1]] = depth[d] - ((i - 1) - 1)
        BY <4>1, <2>5
      <4>. QED BY <4>1, <4>2, <2>2
    <3>. QED BY <3>1, <3>2
  <2>12. Descends(n, c)
    BY <2>7, <2>9, <2>10, <2>11 DEF Descends
  <2>. QED BY <2>12, <1>5
<1>. QED BY <1>6, <1>7

\* No chain has more steps than its first node has layers below it.
LEMMA ChainIsShort ==
  ASSUME PlanInv, phase = "layered", NEW k \in Nat \ {0}, NEW c \in [1..k -> plan.nodes],
         \A i \in 1..(k - 1) : c[i + 1] \in plan.deps[c[i]]
  PROVE  k - 1 <= depth[c[1]]
<1> DEFINE Off == {i \in 1..k : ~(depth[c[i]] + (i - 1) <= depth[c[1]])}
<1>1. \A i \in 1..k : c[i] \in plan.nodes /\ depth[c[i]] \in Nat
  BY LayeredDepths
<1>2. Off = {}
  <2>. SUFFICES ASSUME Off # {} PROVE FALSE
    OBVIOUS
  <2>1. Off \subseteq Nat
    OBVIOUS
  <2>2. PICK i \in Off : \A j \in Off : i <= j
    <3>. HIDE DEF Off
    <3>. QED BY <2>1, SmallestExists
  <2>3. i \in 1..k /\ ~(depth[c[i]] + (i - 1) <= depth[c[1]])
    BY <2>2
  <2>4. i # 1
    BY <2>3, <1>1
  <2>5. i - 1 \in 1..(k - 1) /\ i - 1 \in 1..k /\ (i - 1) + 1 = i /\ ~(i <= i - 1)
    BY <2>3, <2>4
  <2>6. depth[c[i]] < depth[c[i - 1]]
    <3>1. c[(i - 1) + 1] \in plan.deps[c[i - 1]] /\ c[i - 1] \in plan.nodes
      BY <2>5, <1>1
    <3>. QED BY <3>1, <2>5, LayeredDepths
  <2>7. i - 1 \notin Off
    <3>. HIDE DEF Off
    <3>. QED BY <2>2, <2>5
  <2>8. depth[c[i - 1]] + ((i - 1) - 1) <= depth[c[1]]
    BY <2>5, <2>7
  <2> DEFINE x == depth[c[i]]
             y == depth[c[i - 1]]
             z == depth[c[1]]
  <2>9. 1 \in 1..k
    BY <2>3
  <2>10. x \in Nat /\ y \in Nat /\ z \in Nat /\ i \in Int
    BY <1>1, <2>3, <2>5, <2>9
  <2>11. x < y /\ y + ((i - 1) - 1) <= z /\ ~(x + (i - 1) <= z)
    BY <2>3, <2>6, <2>8
  <2>. HIDE DEF x, y, z
  <2>. QED BY <2>10, <2>11
<1>3. k \in 1..k /\ 1 \in 1..k
  OBVIOUS
<1>4. depth[c[k]] + (k - 1) <= depth[c[1]]
  BY <1>2, <1>3
<1>. QED BY <1>1, <1>3, <1>4

\* The instance counts as FiniteSets does.
LEMMA SameCount ==
  ASSUME NEW S
  PROVE  Graph!Cardinality(S) = Cardinality(S)
BY DEF Graph!Cardinality, Cardinality

LEMMA DepthsFit ==
  ASSUME PlanInv, phase = "layered", NEW n \in plan.nodes
  PROVE  depth[n] \in 0..(Cardinality(plan.nodes) - 1)
<1>1. depth[n] \in Nat
  BY LayeredDepths
<1>2. PICK c : Descends(n, c)
  BY SomeDescends
<1>3. c \in Injection(1..(depth[n] + 1), plan.nodes)
  <2>1. c \in [1..(depth[n] + 1) -> plan.nodes]
    BY <1>2 DEF Descends
  <2>2. ASSUME NEW i \in 1..(depth[n] + 1), NEW j \in 1..(depth[n] + 1), c[i] = c[j]
        PROVE  i = j
    <3>1. depth[n] - (i - 1) = depth[n] - (j - 1)
      BY <1>2, <2>2 DEF Descends
    <3>. QED BY <3>1, <1>1
  <2>. QED BY <2>1, <2>2 DEF Injection, IsInjective
<1>4. Cardinality(1..(depth[n] + 1)) <= Cardinality(plan.nodes)
  BY <1>3, FS_Injection, LayeredDepths
<1>5. Cardinality(1..(depth[n] + 1)) = depth[n] + 1
  <2>1. 1 \in Int /\ depth[n] + 1 \in Int /\ ~(1 > depth[n] + 1) /\ (depth[n] + 1) - 1 + 1 = depth[n] + 1
    BY <1>1
  <2>. QED BY <2>1, FS_Interval
<1>. QED BY <1>1, <1>4, <1>5, LayeredDepths

\* The length of what is a function on 1..k.
LEMMA LengthOf ==
  ASSUME NEW S, NEW k \in Nat, NEW c \in [1..k -> S]
  PROVE  c \in Seq(S) /\ Len(c) = k
<1>1. c \in Seq(S)
  BY SeqDef
<1>. QED BY <1>1

\* A node's depth is the length of the longest chain that starts at it.
LEMMA DepthIsLongest ==
  ASSUME PlanInv, phase = "layered", NEW n \in plan.nodes
  PROVE  depth[n] = Graph!Max({Len(c) - 1 : c \in Graph!ChainsFrom(n)})
<1> DEFINE Lengths == {Len(c) - 1 : c \in Graph!ChainsFrom(n)}
<1>1. depth[n] \in Nat /\ depth[n] + 1 \in 1..Cardinality(plan.nodes)
  BY DepthsFit, LayeredDepths
<1>2. depth[n] \in Lengths
  <2>1. PICK c : Descends(n, c)
    BY SomeDescends
  <2>2. c \in [1..(depth[n] + 1) -> plan.nodes] /\ Len(c) = depth[n] + 1 /\ Len(c) - 1 = depth[n]
    BY <1>1, <2>1, LengthOf DEF Descends
  <2>3. c \in UNION {[1..k -> plan.nodes] : k \in 1..Cardinality(plan.nodes)}
    BY <1>1, <2>2
  <2>4. c[1] = n /\ \A i \in 1..(Len(c) - 1) : c[i + 1] \in plan.deps[c[i]]
    BY <2>1, <2>2 DEF Descends
  <2>5. c \in Graph!ChainsFrom(n)
    BY <2>3, <2>4, SameCount DEF Graph!ChainsFrom
  <2>. QED BY <2>2, <2>5
<1>3. \A l \in Lengths : l \in Int /\ l <= depth[n]
  <2>. SUFFICES ASSUME NEW c \in Graph!ChainsFrom(n)
                PROVE  Len(c) - 1 \in Int /\ Len(c) - 1 <= depth[n]
    OBVIOUS
  <2>1. /\ c \in UNION {[1..k -> plan.nodes] : k \in 1..Cardinality(plan.nodes)}
        /\ c[1] = n /\ \A i \in 1..(Len(c) - 1) : c[i + 1] \in plan.deps[c[i]]
    BY SameCount DEF Graph!ChainsFrom
  <2>2. PICK k \in 1..Cardinality(plan.nodes) : c \in [1..k -> plan.nodes]
    BY <2>1
  <2>3. k \in Nat \ {0} /\ Len(c) = k
    BY <2>2, LengthOf, LayeredDepths
  <2>4. k - 1 <= depth[c[1]]
    BY <2>1, <2>2, <2>3, ChainIsShort
  <2>. QED BY <2>1, <2>3, <2>4
<1>. HIDE DEF Lengths
<1> DEFINE m == CHOOSE x \in Lengths : \A y \in Lengths : x >= y
<1>4. m \in Lengths /\ \A y \in Lengths : m >= y
  BY <1>1, <1>2, <1>3
<1>5. m = depth[n]
  <2>. HIDE DEF m
  <2>. QED BY <1>1, <1>2, <1>3, <1>4
<1>. QED BY <1>5 DEF Lengths, Graph!Max

\* No two ways to give the nodes depths: the shallowest node they differ on
\* would have dependencies they agree on.
LEMMA DepthsAgree ==
  ASSUME PlanInv, phase = "layered", NEW e \in [plan.nodes -> Nat], Graph!IsDepth(plan, e)
  PROVE  e = depth
<1> DEFINE Differ == {n \in plan.nodes : e[n] # depth[n]}
           Depth == {depth[n] : n \in Differ}
<1>1. depth \in [plan.nodes -> Nat]
  BY LayeredDepths
<1>2. Differ = {}
  <2>. SUFFICES ASSUME Differ # {} PROVE FALSE
    OBVIOUS
  <2>1. Depth \subseteq Nat /\ Depth # {}
    BY <1>1
  <2>2. PICK k \in Depth : \A j \in Depth : k <= j
    <3>. HIDE DEF Depth
    <3>. QED BY <2>1, SmallestExists
  <2>3. PICK n \in Differ : depth[n] = k
    BY <2>2
  <2>4. n \in plan.nodes /\ e[n] # depth[n] /\ e[n] \in Nat /\ depth[n] \in Nat
    BY <1>1
  <2>5. \A d \in plan.deps[n] : d \in plan.nodes /\ depth[d] < depth[n] /\ depth[d] \in Nat
    BY <1>1, <2>4, LayeredDepths
  <2>6. ASSUME NEW d \in plan.deps[n] PROVE e[d] = depth[d]
    <3>. SUFFICES ASSUME e[d] # depth[d] PROVE FALSE
      OBVIOUS
    <3>1. depth[d] \in Depth /\ depth[d] < depth[n]
      BY <2>5
    <3>. HIDE DEF Depth
    <3>. QED BY <3>1, <2>2, <2>3, <2>4, <2>5
  <2>7. /\ \A d \in plan.deps[n] : e[d] < e[n]
        /\ e[n] # 0 => \E d \in plan.deps[n] : e[d] = e[n] - 1
    BY <2>4 DEF Graph!IsDepth
  <2>8. depth[n] # 0 => \E d \in plan.deps[n] : depth[d] = depth[n] - 1
    BY <2>4, LayeredDepths
  <2>9. ~(e[n] < depth[n])
    <3>. SUFFICES ASSUME e[n] < depth[n] PROVE FALSE
      OBVIOUS
    <3>1. PICK d \in plan.deps[n] : depth[d] = depth[n] - 1
      BY <2>4, <2>8
    <3>2. e[d] = depth[n] - 1 /\ e[d] < e[n]
      BY <2>6, <2>7, <3>1
    <3>. QED BY <3>2, <2>4
  <2>10. ~(depth[n] < e[n])
    <3>. SUFFICES ASSUME depth[n] < e[n] PROVE FALSE
      OBVIOUS
    <3>1. PICK d \in plan.deps[n] : e[d] = e[n] - 1
      BY <2>4, <2>7
    <3>2. depth[d] = e[n] - 1 /\ depth[d] < depth[n]
      BY <2>5, <2>6, <3>1
    <3>. QED BY <3>2, <2>4
  <2>. QED BY <2>4, <2>9, <2>10
<1>. QED BY <1>1, <1>2

LEMMA LayersFollow ==
  ASSUME PlanInv
  PROVE  Graph!LayersFollowLongestChain
<1>. SUFFICES ASSUME phase = "layered" PROVE Graph!LayersFollowLongestChain
  BY DEF Graph!LayersFollowLongestChain
<1>1. \A n \in plan.nodes : depth[n] = Graph!Max({Len(c) - 1 : c \in Graph!ChainsFrom(n)})
  BY DepthIsLongest
<1>2. ASSUME NEW n \in plan.nodes, NEW i \in 0..depth[n]
      PROVE  \E m \in plan.nodes : depth[m] = i
  <2>1. PICK c : Descends(n, c)
    BY SomeDescends
  <2>2. depth[n] \in Nat
    BY LayeredDepths
  <2> DEFINE j == depth[n] - i + 1
  <2>3. j \in 1..(depth[n] + 1) /\ depth[n] - (j - 1) = i
    BY <2>2
  <2>. HIDE DEF j
  <2>4. c[j] \in plan.nodes /\ depth[c[j]] = i
    BY <2>1, <2>3 DEF Descends
  <2>. QED BY <2>4
<1>3. Graph!Depths(plan) = {depth}
  <2>1. depth \in [plan.nodes -> 0..(Cardinality(plan.nodes) - 1)]
    BY DepthsFit, LayeredDepths
  <2>2. Graph!IsDepth(plan, depth)
    BY LayeredDepths DEF Graph!IsDepth
  <2>3. ASSUME NEW e \in [plan.nodes -> 0..(Cardinality(plan.nodes) - 1)], Graph!IsDepth(plan, e)
        PROVE  e = depth
    <3>1. e \in [plan.nodes -> Nat]
      BY LayeredDepths
    <3>. QED BY <2>3, <3>1, DepthsAgree
  <2>4. depth \in Graph!Depths(plan)
    BY <2>1, <2>2, SameCount DEF Graph!Depths
  <2>5. \A e \in Graph!Depths(plan) : e = depth
    BY <2>3, SameCount DEF Graph!Depths
  <2>. QED BY <2>4, <2>5
<1>. QED BY <1>1, <1>2, <1>3 DEF Graph!LayersFollowLongestChain

\* A plan is refused exactly when it has a cycle, the cycle shown is one, no
\* call is made within a call for the same node, and the layers follow the
\* longest chains, for plans over any finite set of nodes (findCycle,
\* TopoLayers).
THEOREM FindsCyclesAndLayersHolds == Graph!Spec => []FindsCyclesAndLayers
<1>1. PlanInv => FindsCyclesAndLayers
  <2>. SUFFICES ASSUME PlanInv PROVE FindsCyclesAndLayers
    OBVIOUS
  <2>1. Graph!AcceptsExactlyTheAcyclic
    BY ReportedIsCyclic, AcceptedIsAcyclic DEF Graph!AcceptsExactlyTheAcyclic
  <2>2. Graph!ReportedCycleIsReal
    BY DEF PlanInv, Reported
  <2>3. Graph!NeverCallsItself
    <3>1. DOMAIN stack = 1..Len(stack)
      BY DEF PlanInv, PlanTypes
    <3>. QED BY <3>1 DEF PlanInv, OnTheWay, Graph!NeverCallsItself, Graph!IsInjective
  <2>4. Graph!LayersFollowLongestChain
    BY LayersFollow
  <2>. QED BY <2>1, <2>2, <2>3, <2>4 DEF FindsCyclesAndLayers, Graph!FindsCyclesAndLayers
<1>. QED BY PlanBegins, PlanStepKeeps, <1>1, PTL DEF Graph!Spec

-----------------------------------------------------------------------------
(* Telling operators.                                                      *)

\* A delivery that is retried, and whatever other operators mark or clear,
\* leaves every notice read that an operator has read: only that operator's own
\* ClearRead takes the mark away (inbox.go, notificationpg.Put).
THEOREM ReadMarksStay == Notice!Spec => ReadStaysRead
<1>1. ASSUME Notice!Next, NEW r \in reads \ reads'
      PROVE  Notice!ClearRead(r[2])
  <2>1. ASSUME NEW n \in Notices, Notice!Send(n) PROVE FALSE
    BY <1>1, <2>1 DEF Notice!Send
  <2>2. ASSUME NEW n \in Notices, NEW kept \in BOOLEAN, NEW fails \in BOOLEAN,
               Notice!Attempt(n, kept, fails)
        PROVE  FALSE
    BY <1>1, <2>2 DEF Notice!Attempt, Notice!Put
  <2>3. ASSUME NEW p \in Principals, Notice!MarkAllRead(p) PROVE FALSE
    BY <1>1, <2>3 DEF Notice!MarkAllRead
  <2>4. ASSUME NEW p \in Principals, NEW n \in items, Notice!MarkRead(p, n) PROVE FALSE
    BY <1>1, <2>4 DEF Notice!MarkRead
  <2>5. ASSUME NEW p \in Principals, Notice!ClearRead(p) PROVE Notice!ClearRead(r[2])
    <3>1. r[2] = p
      BY <1>1, <2>5 DEF Notice!ClearRead
    <3>. QED BY <2>5, <3>1
  <2>. QED BY <1>1, <2>1, <2>2, <2>3, <2>4, <2>5 DEF Notice!Next
<1>2. [Notice!Next]_(Notice!vars) =>
        [\A r \in reads \ reads' : Notice!ClearRead(r[2])]_(Notice!vars)
  BY <1>1
<1>. QED BY <1>2, PTL DEF Notice!Spec, ReadStaysRead, Notice!ReadStaysRead

=============================================================================
