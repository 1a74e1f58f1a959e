------------------------------ MODULE Planning ------------------------------
(***************************************************************************)
(* Planning a fleet (FleetPlanWorkflow): an agent decomposes a goal in a   *)
(* disposable clone while the operator's checkout lives on, the plan it    *)
(* answers with is judged and stored under the handle the operator was     *)
(* given at the start, and the run is recorded.                            *)
(*                                                                         *)
(* The workflow and the worker that runs its agent are apart: the workflow *)
(* may give up on an activity (a timeout, a cancellation) that goes on, and *)
(* what it gave up on may still reach the store.  Runs of an older build,  *)
(* which carry no handle and store nothing, are left out.                  *)
(***************************************************************************)
EXTENDS FleetPlan, ExecutionRecord

CONSTANTS
  Contents,       \* what a checkout may hold: commits, index and files as one value
  Pristine,       \* the content git status reports nothing of
  StoreAttempts   \* attempts of StorePlan

VARIABLES
  source,      \* the content of the operator's checkout
  clone,       \* the disposable clone exists
  worker,      \* where GeneratePlan stands
  before,      \* the fingerprint it took first
  answer,      \* what the agent answered
  flow,        \* where the workflow stands
  asked,       \* a cancellation was requested of it
  result,      \* the plan it goes on with, or NoPlan
  stores,      \* attempts of StorePlan begun
  lateStore,   \* one that was given up on may still commit
  document,    \* the document under the handle, or NoPlan
  readySent,   \* "Fleet plan ready" was sent
  began, left  \* the checkout's content when planning began and when it was judged

checkoutVars == <<source, began, left>>
workerVars == <<clone, worker, before, answer>>
flowVars == <<flow, asked, result, stores, readySent>>
storeVars == <<lateStore, document>>
planningVars == <<checkoutVars, workerVars, flowVars, storeVars, recordVars>>

\* No plan has no nodes; what cannot be read as one is none.
NoPlan == [nodes |-> {}, deps |-> <<>>, legible |-> FALSE]

\* An agent answers with anything; its plan may not fit the store.
Answers == [plan : Plans, fits : BOOLEAN]

InitPlanning ==
  /\ source \in Contents /\ began = source /\ left = source
  /\ clone = FALSE /\ worker = "idle" /\ before = Pristine
  /\ answer = [plan |-> NoPlan, fits |-> FALSE]
  /\ flow = "start" /\ asked = FALSE /\ result = NoPlan /\ stores = 0 /\ readySent = FALSE
  /\ lateStore = FALSE /\ document = NoPlan
  /\ row = NoRow /\ late = {}

-----------------------------------------------------------------------------
(* The checkout.                                                           *)

\* The operator works on, or the agent escapes its clone.
Touch ==
  /\ source' \in Contents \ {source}
  /\ UNCHANGED <<began, left, workerVars, flowVars, storeVars, recordVars>>

\* Mutant of Fingerprint: whether the checkout is dirty.
DirtyFlag(content) == content # Pristine

\* HEAD, the index and every file, ignored ones included.
Fingerprint(content) == content

-----------------------------------------------------------------------------
(* GeneratePlan, run once.                                                 *)

\* Every return removes the clone; that the removal failed, nobody hears.
Returns(how) == worker' = how /\ clone' \in {FALSE, clone}

ReadBefore ==
  /\ worker = "begun"
  /\ \/ before' = Fingerprint(source) /\ began' = source /\ worker' = "clone" /\ UNCHANGED clone
     \/ Returns("failed") /\ UNCHANGED <<before, began>>
  /\ UNCHANGED <<source, left, answer, flowVars, storeVars, recordVars>>

\* A clone that failed half-way is removed by the adapter, which may fail too.
AddDisposableClone ==
  /\ worker = "clone"
  /\ \/ clone' = TRUE /\ worker' = "agent"
     \/ clone' \in BOOLEAN /\ worker' = "failed"
  /\ UNCHANGED <<before, answer, checkoutVars, flowVars, storeVars, recordVars>>

RunReadOnly ==
  /\ worker = "agent"
  /\ \/ answer' \in Answers /\ worker' = "verify" /\ UNCHANGED clone
     \/ Returns("failed") /\ UNCHANGED answer
  /\ UNCHANGED <<before, checkoutVars, flowVars, storeVars, recordVars>>

\* The tripwire, then the parser and the validation.
Judge ==
  /\ worker = "verify"
  /\ left' = source
  /\ \/ /\ Fingerprint(source) = before /\ ValidatePlan(answer.plan)
        /\ Returns("done")
     \/ Returns("failed")
  /\ UNCHANGED <<source, began, before, answer, flowVars, storeVars, recordVars>>

\* The worker is killed: nothing is returned and nothing removed.
Kill ==
  /\ worker \in {"begun", "clone", "agent", "verify"} /\ worker' = "killed"
  /\ UNCHANGED <<clone, before, answer, checkoutVars, flowVars, storeVars, recordVars>>

GeneratePlan == ReadBefore \/ AddDisposableClone \/ RunReadOnly \/ Judge \/ Kill


-----------------------------------------------------------------------------
(* FleetPlanWorkflow.                                                      *)

Detail(p) == [nodes |-> IF p = NoPlan THEN 0 ELSE Cardinality(p.nodes), paid |-> p # NoPlan]
Write(status, p) == [status |-> status, waiting |-> FALSE, detail |-> Detail(p)]

\* A run that cannot be recorded does not run.
StartPlanning ==
  /\ flow = "start"
  /\ \/ ~asked /\ Recorded(Write("running", NoPlan)) /\ flow' = "generate" /\ worker' = "begun"
     \/ Unrecorded(Write("running", NoPlan)) /\ flow' = "unrecorded" /\ UNCHANGED worker
  /\ UNCHANGED <<clone, before, answer, asked, result, stores, readySent, checkoutVars, storeVars>>

\* The activity's result arrives, or an error does: the activity's own, or that
\* of a timeout or a cancellation while it still goes on.
AwaitPlan ==
  /\ flow = "generate"
  /\ \/ ~asked /\ worker = "done" /\ result' = answer.plan /\ flow' = "store"
     \/ flow' = "failing" /\ UNCHANGED result
  /\ UNCHANGED <<asked, stores, readySent, workerVars, checkoutVars, storeVars, recordVars>>

\* Mutant of StoreFails: the plan is announced although it could not be stored.
GoesOnUnstored == "ready"
StoreFails == "failing"

\* StorePlan: refused for its size, or an upsert on the handle whose completion
\* may be lost, attempt after attempt; the last one given up on may be late.
StorePlan ==
  /\ flow = "store"
  /\ \/ ~answer.fits /\ flow' = StoreFails /\ UNCHANGED <<stores, lateStore, document>>
     \/ /\ answer.fits /\ ~asked /\ document' = result
        /\ flow' = "ready" /\ UNCHANGED <<stores, lateStore>>
     \/ /\ answer.fits /\ document' \in {document, result} /\ lateStore' \in {lateStore, TRUE}
        /\ stores' = stores + 1
        /\ flow' = IF stores' < StoreAttempts /\ ~asked THEN "store" ELSE StoreFails
  /\ UNCHANGED <<asked, result, readySent, workerVars, checkoutVars, recordVars>>

LateStore ==
  /\ lateStore /\ lateStore' = FALSE /\ document' = answer.plan
  /\ UNCHANGED <<workerVars, flowVars, checkoutVars, recordVars>>

\* The notice is best-effort; a cancellation that comes this late stops nothing.
NotifyReady ==
  /\ flow = "ready" /\ flow' = "succeeding" /\ readySent' \in {readySent, TRUE}
  /\ UNCHANGED <<asked, result, stores, workerVars, checkoutVars, storeVars, recordVars>>

\* finishFleetPlanState, on a context no cancellation reaches.
Settle ==
  /\ flow \in {"succeeding", "failing"}
  /\ LET w == Write(IF flow = "succeeding" THEN "succeeded" ELSE "failed", result)
     IN Recorded(w) \/ Unrecorded(w)
  /\ flow' = IF flow = "succeeding" THEN "succeeded" ELSE "failed"
  /\ UNCHANGED <<asked, result, stores, readySent, workerVars, checkoutVars, storeVars>>

CancelPlanning ==
  /\ flow \in {"start", "generate", "store", "ready"} /\ ~asked /\ asked' = TRUE
  /\ UNCHANGED <<flow, result, stores, readySent, workerVars, checkoutVars, storeVars, recordVars>>

LateRecord == LateWrite /\ UNCHANGED <<workerVars, flowVars, checkoutVars, storeVars>>

NextPlanning ==
  \/ Touch \/ GeneratePlan \/ LateStore \/ LateRecord \/ CancelPlanning
  \/ StartPlanning \/ AwaitPlan \/ StorePlan \/ NotifyReady \/ Settle

PlanningSpec == InitPlanning /\ [][NextPlanning]_planningVars

-----------------------------------------------------------------------------
(* What planning promises.                                                 *)

\* Whatever was announced, returned or recorded as succeeded is a plan the store
\* holds under the handle, valid for the fleet that will execute it, and the row
\* counts its nodes; a plan that was not is never told of (FleetPlanWorkflow: "a
\* plan that was not written must not be announced as ready").
HandlesResolve ==
  readySent \/ flow = "succeeded" \/ row.status = "succeeded" =>
    /\ document # NoPlan /\ ValidatePlan(document)
    /\ row.status = "succeeded" => row.detail = Detail(document)

\* A plan is stored only of a checkout that was the same, to the last ignored
\* file, when its agent was done as when it began, however dirty it was.
PlansDisturbNothing == document # NoPlan => left = began

\* Both: a stored plan can be executed, and cost the operator nothing but tokens.
PlansAreSound == HandlesResolve /\ PlansDisturbNothing

=============================================================================
