# temporal-agents in TLA+

A verification project for temporal-agents: workflows that develop, review and
steer code with coding agents, the stores that record them, and the HTTP hub
operators use. Modules are translated from the Go sources; `PROJECT.json` maps
each definition to the lines it models and lists the runs, the mutants that show
each property can fail, the hazards, the findings and the theorems.

## The system

| component | state it keeps | operations | hard behaviour | what makes it correct |
|---|---|---|---|---|
| steering pause (`steering`, `steeringpg`, `steeringtemporal`) | a session row, its events, a waiting child workflow and its signal channel | `Ask`, `SessionWorkflow`, `Decide`, reminders | two requests at once, record-then-signal, lost answers, a loop that goes away | one decision, final, valid for its round; the loop acts on that one |
| questioning conversation (`steering/questioning.go`) | messages, turns, the drafted guidance | ask, run a turn, draft | a turn that ends after the decision, or is retried | a late turn changes no decision; the draft is in the transcript |
| review loop (`codereview.ReviewWorkflow`) | carried input, the pass's row, the checkpoint, the checkout | checkpoint, implement, advance check, review, restore, continue as new | activities retried after they took effect, cancellation between steps | no work lost, convergence and cost are real, it stops |
| git adapter (`gitcli`) | working tree, stash, HEAD, branches | stash, pop, merge, worktree, clone | a shared stash, conflicts | never destroys uncommitted work |
| develop pipeline (`codereview.DevelopWorkflow`) | worktree, branch, seed merges, children | seed, agent, review, open-pr, pilot | resolver retries, lost branches, abandoned children | a node is developed on its whole seed; its one notice tells the truth |
| pilot loop and open-pr (`codereview.PilotWorkflow`, `OpenPRWorkflow`) | the pass's row, review threads, the remote branch | open, wait, agent, push, reply, resolve | comments that arrive while it works, failures between push and reply | a resolved thread was answered by pushed work; the loop ends |
| fleet (`fleet.FleetWorkflow`) | a plan, layers, node results, its row | validate, layer, start, await, settle | children that settle in any order, cancellation mid-layer | a node runs only on reviewed work; failure stops only what depends on it |
| fleet planning (`fleet.FleetPlanWorkflow`) | a disposable clone, the plan document, its row | fingerprint, clone, agent, judge, store | a killed worker, an operator who edits meanwhile | a stored plan can be executed and the checkout is untouched |
| execution records (`execstore`, `execpg`, `wfrecord`) | one row per run | upsert, settle, list | late and repeated writes | a settled row stays settled |
| agent hub (`agenthub` and adapters) | dismissals, launches, registered places; reads Temporal and the records | overview, dismiss, launch, register, locate | sources that disagree and move while they are read | what stood still is shown right; a request starts one run |
| identity (`identity`, `identitypg`, `oidcprovider`, `httpapi/auth.go`) | sign-ins in flight, sessions, provider tokens | begin, complete, authenticate, renew, sign out, purge | replayed callbacks, renewals that race a sign-out, outages | one sign-in, one session; it ends only for a reason |
| scoped settings and instructions (`scoped`, `setting`, `instruction`, `promptconfig`) | versions and pointers per key and scope | edit, reset, publish, resolve | concurrent writers, a loop that outlives an edit | no lost update, records stay readable, one version per loop |
| migrations (`pgmigrate`, `schema`, `migrate.go`) | recorded migrations, an advisory lock | migrate, verify, start | two builds at once, failure or death half-way | the record is the schema; nothing starts on an old one |
| notifications (`notification`, `notify`, `wfnotify`) | an inbox with read marks, channels | send, list, read, clear | retries of what was already read | what was read stays read |
| live streams (`httpapi/streaming.go`) | a position per reader | load, follow, reconnect | numbers committed out of order, expired credentials | no gap |
| agent runner (`piagent`) | a Pi session and its processes | run, compact, resume, retry | a process that ends in mid-work | an answer is one of finished work |
| cleanup (`cleanup`, `gitcli/cleanup.go`) | none of its own | list, ask, remove | an agent at work meanwhile | nothing unmerged is lost unasked |
| CLI, routing, web | none of their own beyond request handling | flags, routes, rendering | | mostly data shapes and I/O |

The workflows run on Temporal: their code between two blocking calls is one
step, an activity may run more than once and may take effect although its
completion is lost, a cancellation reaches a workflow at any blocking call, and
a closed parent terminates the children it left open. Stores are PostgreSQL at
READ COMMITTED. Those services, GitHub, the OpenID provider and the Pi agent are
outside the repository and appear only through how the code uses them; `map`
marks their definitions external.

## Modules

| module | models | composition |
|---|---|---|
| `SteeringPromise` | what a pause promises | abstract specification |
| `Steering` | `steering.Ask`, `SessionWorkflow`, `Service.Decide`, the store's statements | implements `SteeringPromise` |
| `Conversation` | `Service.Question`, `QuestionTurnWorkflow`, `SetGuidance` | runs beside all of `Steering` |
| `Configuration` | `scopedpg`, `scoped.Winner`, `Ensure`, publication at start-up | |
| `Directions` | | `Conversation` and `Configuration`, one at a time |
| `WorkingTree` | a checkout under the git adapter and an agent | |
| `RetryPolicies`, `ReviewBounds` | the constants a develop run and a review loop share, and those of the loop | |
| `ReviewLoop` | `ReviewWorkflow` and its activities | extends `WorkingTree`, `ReviewBounds` |
| `ExecutionRecord` | a run's row: the upsert, late attempts | |
| `PilotLoop` | `OpenPRWorkflow`, `PilotWorkflow`, the GitHub adapter | `WorkingTree`, `ExecutionRecord` |
| `NodeLifecycle` | what a fleet counts on of a child | abstract specification |
| `Develop` | `DevelopWorkflow`, its activities and its tails | extends `RetryPolicies`, implements `NodeLifecycle` |
| `DevelopAndReview` | | `Develop` and `ReviewLoop`, one at a time |
| `FleetPlan` | plans, validity, depths, declaratively | |
| `PlanAlgorithms` | `findCycle` and `TopoLayers`, call by call | checked against `FleetPlan` |
| `Planning` | `FleetPlanWorkflow` and its activities | `FleetPlan`, `ExecutionRecord` |
| `Fleet` | `FleetWorkflow` with its children | extends `FleetPlan` |
| `Overview` | the hub's reading of executions: chains, pages, overlays, dismissals | pure operators |
| `FleetOverview` | `DeriveNodeStatuses`, `AggregateStatus`, the fleet's status | pure operators over `Overview` |
| `FleetView` | `buildFleet` of a running fleet, with the rows its runs leave | composes `Fleet` and `FleetOverview` |
| `Collection` | `RunsFor`, `DismissFor` against five changing sources | over `Overview` |
| `Launch` | `StartWork`, `RegisterPlace`, the launcher | |
| `Locations` | `NewLocationRegistry`, step by step | |
| `HubParts` | | `Launch`, `Collection`, `Locations`, for any bounds |
| `Hub` | | `HubParts`, one part at a time |
| `Access`, `MCAccess` | `identity.Service`, its stores, the provider, the routes | |
| `AccessOutage` | | `Access` with the sessions lost while they could have been renewed |
| `Migrations` | `pgmigrate.Apply`, `Inspect`, `requireCurrentSchema` | |
| `EventStream`, `MCEventStream` | the two event streams and a page that follows them | |
| `AgentRun` | `piagent.runLoop` and `runOnce` | |
| `Inbox` | the notify activity and `notificationpg` | |
| `Cleanup` | `cleanup.Cleaner` and `gitcli/cleanup.go` | |
| `ServiceParts` | | `PilotLoop`, `Migrations`, `PlanAlgorithms`, `EventStream`, `AgentRun`, `Cleanup`, `Inbox`, `Planning`, for any bounds |
| `Services` | | `ServiceParts`, one part at a time |
| `SteeringProofs` | theorems on the pause and the conversation | extends `Conversation` |
| `ConfigurationProofs`, `DevelopProofs`, `AccessProofs` | theorems | extend their module |
| `ReviewLoopProofs` | theorems on the review loop | extends `DevelopAndReview` |
| `FleetProofs` | theorems on a fleet and on what is shown of it | extends `FleetView` |
| `HubProofs` | theorems on starting work, dismissals, the overview and places | extends `HubParts` |
| `ServicesProofs` | theorems on the parts, whatever their bounds | extends `ServiceParts` |

`Directions`, `DevelopAndReview`, `Hub` and `Services` put parts that share no
state side by side under one specification: `subject` is chosen at the start and
only that part takes steps. The states explored are the sum of the parts', every
part is explored in full, and an invariant that fails in a part fails in the run.

**Steering.** `row` and `events` are the two tables; `loop` is where `Ask`
stands; `session`, `wdec`, `err`, `mailbox`, `cancel` are `SessionWorkflow`'s
locals and context; `pc`, `req`, `snap`, `got`, `result` belong to one request
per operator. `Service.Decide` is three steps (read and validate, record, signal)
and the record is split again at its statement's snapshot: under READ COMMITTED
an `UPDATE` re-evaluates its row after waiting for a lock while a sub-select of
the same statement keeps reading the old snapshot. Every persistence activity is
attempted up to `MaxAttempts` times and a failed attempt may have written.

**Conversation.** A question and its turn are one record; an append holds the
session's advisory lock to its commit, so it is one step. A turn reads the
session, runs the agent, answers and drafts in separate steps, each of which may
fail and be retried from the start of the activity.

**Configuration.** A writer's transaction is taken apart at its statements: lock,
compare, append the version, move the pointer, commit. `Ships` says which text a
build brings. An instruction with its model, and a setting, are one `Key` each.

**ReviewLoop.** `repo` is the developer's checkout; `pass`, `resets`, `payload`,
`total` are `ReviewInput`; `rec` is the pass's row; `cp` is `Checkpoint.Stashed`.
A token count is one per agent run, a payload is blank or not. `spent`,
`recorded`, `unsettled` and `touched` observe and guide nothing.

**PilotLoop.** `threads` are GitHub's, `review` whether one is ongoing, `prs` the
pull requests, `repo.ahead` commits not pushed. Reviewers act between any two
steps. The row is `ExecutionRecord`'s, so an attempt the workflow gave up on may
still reach it.

**Develop.** `refs`, `home` and `trees` are the repository's branches, `repo` the
working directory of the run, `saved` the alias in the activity's heartbeat,
`next` the index of `seedBranches`; `quiet` is `failureNotified`. The resolver
agent may leave any tree, any merge state and any subset of commits. `StageNow`
and `WorkNow` map a run to `NodeLifecycle`; what the branch holds is read off
git's state, not off the program's place. A heartbeat is assumed to reach the
server (the SDK sends the first at once and flushes the last when an attempt
fails).

**Fleet, FleetView.** `plan`, `results`, `order`, `layer`, `depth` are
`FleetWorkflow`'s locals; `child` and `future` are kept apart because a cancelled
fleet's futures resolve before its children do. The ways a child can end are
those of `Develop` in its await-review mode. `FleetView` adds no state: it
computes at every step what the hub would publish from the rows, the running
children and the fleet's own row.

**Planning.** The workflow and the worker that runs its agent are apart, so that
an abandoned activity may still store. A killed worker leaves its clone, and so
does a return whose removal fails, because its error is discarded
(`activities.go:131`): `clone` records this and no property is about it. Runs of
an older build, which carry no handle and store nothing (`workflow.go:83`), are
left out. The operator's checkout is a value that changes at any time;
`Fingerprint` tells any two contents apart.

**Overview, Collection.** An execution is one iteration of a chain. `exec`,
`listed`, `rows` and `hidden` are the orchestrator, its lagging listing, the
durable rows and the dismissals; `reader` holds what `RunsFor` has read so far.

**Launch.** A request stands for the run id minted from it. `StartWork` is five
steps: read the launch, read the known work, submit, record, answer; each port
may fail after it acted.

**Locations.** `facts` is what was recorded of a response's places, in its order.
`pending` is what the registry has still to consider and `chosen` the best known
of each place so far (`Resolve`, `Consider`); `walked` and `settled` are the two
colours of the walk up the parents that looks for a loop (`SetOut`, `Climb`,
`Settle`, `Break`); `published` is the answer, parents first.

**PlanAlgorithms.** The depth-first search is its stack of calls: a node on the
path is gray, one whose call returned is black, and layers are known depths.

**Access.** One browser: its tabs share two cookies. A sign-in's number stands for
its four secrets. Requests are taken apart at their calls to the store and the
provider. A renewal ends in one of three ways, whatever the provider thinks of the
grant: it yields tokens, with an expiry or with none; the provider is not reached
(`WhenUnreachable`); or it answers and gives no tokens (`WhenAnsweredNoTokens`),
which `unreachable` and `Refresh` take for a refusal whatever the answer was:
`invalid_grant`, a 500, 503 or 429, or a body that cannot be read.

**Migrations.** `recorded` and `ran` keep what is recorded and what has been run
apart. A migration's transaction is one step; a failing one rolls back.

## Runs

| run | shows | bounds and why they are enough |
|---|---|---|
| `steering` | `ActsOnRecordedDecision`, `DecidedAnnouncedOnce`, the refinement `KeepsPromise`, and `DeliveredDecisionEndsWait` under fairness | two operators (a race needs two), two attempts (a retry after an effect needs two), two queued signals (one refused ahead of a valid one), another pause's decision signalled around the API at any time, one reminder; no guidance text, which `directions` has |
| `directions` | `DraftIsInTranscript`, `LateTurnChangesNoDecision`; `RecordedStaysReadable`, `WritersTakeTurns`, `LoopRunsUnderOneVersion` | one question and three messages with a direct signal (a decision at any point of the turn), two turn attempts; two writers, three versions and two passes (one edit between the passes, one version already there) |
| `fleet` | `RunsOnReviewedWork`, `CompletedTellsTheTruth`, `RowHoldsBreakdown`, `PublishedMovesForward`, `FleetEnds` | every plan of up to three nodes (chain, fork, join, unrelated, malformed, cyclic), two attempts |
| `develop` | the develop run: `NoOrphanInPlace`, `SettlesTruthfully`, the refinement `KeepsLifecycle`, and `DevelopGoesOn` under fairness; the review loop: `RowsTellTheTruth`, `DevelopersWorkSurvives`, and `NeverRunsAway` under fairness | two aliases (a collision needs a second), two dependencies (one merged before one in conflict), three attempts at the branch (create, collide, replace), two elsewhere, all three tails, clean and dirty checkouts; three passes (first, middle, last), two attempts per step, one budget renewal, clean and dirty checkouts with and without an older stash |
| `hub` | `OverviewTellsTheTruth`, `HidesWhatWasSeen`; `RequestsAreIdempotent`, `NeverCollidesKnowingly`; `PublishesOneTree` | two chains, three iterations between them (one chain asks and goes on, the other is a single run) and one event during a read of a one-item page; two callers, three calls, three requests in two trees, one of them isolated; every list of three facts over four directories and a remote |
| `access` | `SessionsAreGenuine`, `EndsOnlyWhenOver` | two tabs, one person (a sign-in's number tells whose it is), two sign-ins (a replay and a mix-up need two), three instants, lifetimes that end inside them; a provider that does not rotate refresh tokens but may answer anything at any time |
| `services` | pilot: `ResolvedMeansAnswered`, `RowTellsTheTruth`, `PilotLoopEnds`; migrations: `SchemaIsItsRecord`, `StartsOnCurrentSchema`, `EveryStartEnds`; plan: `FindsCyclesAndLayers`; stream: `ConversationMissesNothing`; agent: `AnswersFinishedWork`; cleanup: `NothingIsLostUnasked`; inbox: `ReadStaysRead`; planning: `PlansAreSound` | two threads, two attempts per step; three processes of two builds over two contexts, one migration ahead; every plan of up to four nodes; two writers and a reader per stream, pages of one; two attempts of two resumes; two worktrees and one made elsewhere; three notices to two people; every plan over two nodes, two store attempts |
| `steering_repeat`, `steering_orphan`, `review_stash`, `access_outage`, `hub_events` | findings, below | |

Deadlock is not checked where a part may really stop: a page left alone, an
answered call, an exhausted bound.

**Fairness.** `Steering`, `ReviewLoop`, `Fleet`, `Develop` and `PilotLoop` assume
weak fairness of workflow steps only: a Temporal worker keeps running and every
activity has a start-to-close timeout and a bounded retry policy. Operators and
reviewers are never assumed to answer, which is why the liveness properties say
"ends or asks a human", "only a child holds it up" and, of the pilot, "ends once
reviews are delivered and questions answered". A tail of a develop run and a
waiting pilot are fair only once cancelled, when a child's future or a timer
resolves at once. `Migrations` assumes that a live process takes its next step
and that PostgreSQL ends the session of a dead one; a start is never assumed to
succeed. The other parts check safety only.

## Findings

* `steering_repeat` / `RepeatLearnsDecision`: a request that races another is
  answered from its statement's snapshot: it reports success, learns nothing of
  the decision and signals the zero decision. `Receive` drops that one, so the
  loop is unharmed; the operator is not told.
* `steering_orphan` / `LoopGoneStopsAsking`: a loop that is cancelled while its
  session waits closes and terminates the session before its settlement: the row
  keeps asking. The property is about sessions that were recorded as waiting; one
  whose opening write committed although it was reported failed is not meant.
* `review_stash` / `ConvergedRestoresStash`: a checkpoint whose completion is
  lost is retried on a clean tree and reports nothing stashed; a pass that then
  converges leaves the developer's changes in the stash.
* `access_outage` / `OutageSignsNobodyOut`: a provider that answers a renewal with
  an error, or with half an answer, counts as one that refuses
  (`oidcprovider.go:206` and `293`), and the session is ended although its grant
  is good and was not revoked; only a provider that is not reached leaves it alone.
  "A revoked grant signs the operator out, an outage does not", says
  `oidcprovider_test.go:277`, and so do `service.go:329` and `oidcprovider.go:198`.
* `hub_events` / `HubEventsMissNothing`: events draw their numbers from a sequence
  in transactions that commit in any order; a reader that polls in between is past
  the lower number when it appears. The conversation's numbers are drawn under a
  lock and are safe (`ConversationMissesNothing`).

Met while modelling, not given runs of their own:

* Steering: a request answered with `ErrUnavailable` may have recorded its
  decision (`service.go:241`, against `session.go:33`); a decided session's loop
  may have been cancelled before acting (`session.go:48`).
* Review: a retried `EnsureHeadAdvanced` pops an older stash entry
  (`activities.go:690`, against `workflow.go:988`); the pass-limit pause follows a
  best-effort restore (`workflow.go:1108`, against `workflow.go:1020`); an
  operator's stop at the pass limit sends no notification (`workflow.go:1146`).
* Develop: a retried `CreateBranch` adopts an explicit branch its failed first
  attempt never created (`activities.go:293`, against `activities.go:248`); an
  `open-pr` child that fails after opening the pull request hands no link over
  (`workflow.go:877`); a resolver that commits the merge but leaves files behind
  ends in a blocked node whose branch holds the merge (`workflow.go:742`).
* Pilot: only the first hundred review threads are read, resolved ones included
  (`ghcli.go:157`, against `activities.go:620`); a retried `ReplyAndResolve`
  replies twice.
* Conversation: a turn retried after its append answers twice; two turns may run
  at once on one Pi session; a turn that ends after the settlement is missing from
  the session's tokens.
* Overview: between two iterations, under a lagging listing, a looping chain shows
  done; an iteration that fails before it recorded its start leaves the chain shown
  done; more running runs than the page holds are told with partial chains.
* Launch: a running run its viewer dismissed does not count as busy; two different
  requests for one tree may both pass `runningIn`; a concurrent repeat may be
  refused because of its own run; a run that ended before its launch was recorded
  may be started again.
* Access: signing out with an expired session is answered 401 and keeps the cookie;
  two tabs that sign in at once may both fail; a token write after a sign-out is
  answered "dependency unavailable"; with a provider that rotates refresh tokens
  two tabs renewing at once, or a renewal whose answer is lost, sign the operator
  out (`EndsOnlyWhenOver` holds: the provider answered and gave no tokens).
* Configuration: a questioning turn resolves its instruction again at every turn;
  a key nobody published answers as version 0.
* Streams: the address's position is preferred to `Last-Event-ID` on a reconnect
  (`streaming.go:60`), so messages come again; the steering dialog replaces them
  but adds their tokens again (`steering-modal.tsx:86`).
* Inbox: what a reader marked read is kept as marks of their own, so clearing those
  makes every message unread again; webhook and desktop notices are repeated by a
  retry; a page's list and its unread count are two reads.
* Agent: the tokens of a failed attempt are not counted; an empty last message
  returns an earlier process's text.
* Planning: a plan that fails after the agent ran records no tokens; an operator
  who edits the checkout while it is planned makes planning fail; a killed worker
  leaves its clone behind, and so does a removal that fails, which nobody hears of
  (`activities.go:131`, `gitcli.go:117`); a start write that committed although
  it was reported failed leaves a row running for ever, as in every workflow.

## Proofs

Each run shows its properties on a small instance; the theorems below hold for
every value of the constants. With them, every safety property that a run finds
to hold is proved. What each argument rests on:

**`SteeringProofs`**, for any operators, texts, retry policy, queue and reminder
bound (`SteeringAssumption`).

* `TypeOK /\ WaitShape` is inductive. `WaitShape` says what the session may hold
  in each phase: a decision is validated before it is kept, a settled success
  holds one, only a failed session is abandoned. `ResumesValid` and
  `FirstDecisionStands` follow, whatever is signalled around the API.
* `DecisionsAgree` is inductive on top where `RefusesDirect` holds: the round
  refuses whatever is signalled around the API. (A signal it accepts would be
  acted on without the store having recorded it, so the hypothesis is needed;
  another pause's decision, which the run sends, is refused.) Every copy of a
  decision in flight is the zero decision, one the round refuses, or the recorded
  one. `ActsOnRecorded`, `HistoryMatches` and the refinement `Implements` follow.
* `SaidOnce` is what `AnnouncedOnce` needs beside it: the session comes to its own
  settlement only when the row is already decided, so that the settlement, which
  announces too, finds nothing to say.
* `ConversationInv` adds that a turn about to draft has its text in the
  transcript and that a waiting row's draft is there. `DraftWasSaid` and
  `LateTurnIsLate` follow with no hypothesis on signals.

**`ConfigurationProofs`**, for any keys, scopes, builds, texts, writers and loops
(the assumptions of `Configuration`: finitely many writers and loops, "free" is no
writer, a build ships known texts). `StoreInv` follows a writer through its
statements: a pointer names a version that is there, who is between lock and
commit holds the key's lock, its uncommitted version is the last one, and a
build's publication has passed every key it no longer has left. `LoopInv` says
what a loop carries: versions of the store, the same from its first pass to its
records. `RecordsReadBack`, `StoreIsWrittenInTurns` and `LoopKeepsItsVersion`
follow.

**`ReviewLoopProofs`**, for any number of passes, attempts and renewals.
`ReviewInv` accounts for every token (the carried total, the row and the agent's
runs not yet in either), says what each step knows of the pass (`Phased`), that a
pass which converged saw no change by any attempt of its agent (`Witnessed`), and
that while the agent works nothing of the developer's is in the tree (`Shelved`).
`LoopTellsTheTruth` follows; `DeveloperLosesNothing` from `Shelved` and the lemmas
on stash and pop.

**`FleetProofs`**, for every finite set of node ids and every plan over it.
`RunsOnReviewed` comes from `LayerOrder`: results come from futures, futures from
children, and a node that has a child sits in a layer already entered, so no
dependency can be restarted below it. `CompletionIsTrue` and `RowIsWhole` need
`SettledInv` on top: layers are the plan's depths (`Laid`); the order lists what
has settled, each node once, and the layers before the current one are complete
(`Queued`); a result is its child's future, and a skip stands behind a node that
did not succeed (`Truthful`); the settled row is made of them (`RowSettled`).

`FleetIsShownForward` is about what the hub makes of all this. `ViewInv` adds to
`SettledInv` that the fleet's depth is one of its plan's, no child outlives the
fleet and nothing ran in one that failed (`Orderly`). The outcomes a viewer is
told come from the children's rows and running children, or, once the fleet has
settled, from its breakdown, and the two agree where both exist
(`OutcomesOfChildren`, `OutcomesOfBreakdown`); what is derived for a node that
has no outcome depends on its dependencies alone, so by induction on its depth it
moves on when outcomes do (`StatusesMoveOn`); and nothing of a completed fleet is
still to come (`NothingToCome`). One lemma per kind of step then compares what is
published before and after it.

**`DevelopProofs`**, for any names, dependencies and attempts
(`DevelopAssumption`). `DInv` is inductive. Its parts are `Path` (where the run
stands and what it shows for it), `Seeds` (which dependencies git holds while they
are merged, and that a conflict implies a merge in progress), `Notices` (what was
announced and who is left to announce) and `InPlace` (in the checkout the one
created branch is where the next attempt looks and the checkout stands on it;
without this last half the count of branches is not inductive). `NoOrphan` and
`TellsTruth` follow, and with `Phases`, which reads a run as a stage of
`NodeLifecycle`, so does the refinement `LifecycleIsKept`.

**`HubProofs`**, for any callers, requests and trees (`LaunchAssumption`):
`RepeatsAreHarmless` and `KnownWorkIsRespected`, from an invariant that ties each
call's step to what has been submitted and recorded for its request. For any
chains and collection, `HidesTheSeen`: between the viewer's look and the stored
dismissal four steps read the sources again, and only the item that was looked at
survives them (`Reviewed`).

`SteadyRunsAreShown` proves `OverviewTellsTheTruth` for any finite set of chains,
any limit and any number of iterations (`CollectionAssumption`): starts, records,
questions, closings, retention and the lagging listing go on between any two reads.
`OverviewInv` is inductive, and each of its parts is needed by a later one.

* `WorldInv`: a chain's rows are those of its iterations, but perhaps for the last;
  only the first says where it runs, only the last may still run, and no two
  iterations began at one time. Without it a collapsed chain could not be compared
  with the truth, nor two pages with one another.
* `Settled`: what is steady has begun and its sources agree. `LiveInv`: each live
  execution is told of once, and of a steady chain what the orchestrator says of
  its latest iteration.
* `PageInv`: a page tells of each chain once, and of a steady one all that its rows
  say together (`RecordedChain`); this is `RowsCollapse`, by induction over the rows
  from the last to the first.
* `Covered`: what the pages so far left out began before everything on them and
  comes after the cursor, so it cannot be lost between two pages (`PagesCover`).
* `ItemsInv`: what has been made visible is the truth, or the viewer dismissed just
  that (`ListedTruth`, `UnlistedTruth`).

Where a read ends early, `NewestAreShown` says that the newest are kept: the page
alone fills the collection with runs that began after anything not yet read. Two
conditions of the property are the code's own: a read that met more running runs
than a page holds may tell less, and a run that a schedule represents is not shown
as one of its own.

For any recorded facts (`PlacesAssumption`: places are numbers and the unknown one
is none of them), `OneTreeIsPublished`. `PlacesInv` says of each stage what it has
come to: while values are considered, each is outdone by what is chosen or still
pending (`BetterIsAnOrder`); then each place is as best known or opens a loop;
while the parents are walked, what is settled leads to a root and what is walked
hangs together; at last each place is published once, behind its parent. A walk
that meets itself has found a loop, two loops of best-known parents that meet are
one and the same (`LoopsThatMeet`), and each is cut at its smallest place, which
is why the answer does not depend on the order of the facts. Depths exist because
no place is left that hangs only under itself (`DepthsExist`).

**`ServicesProofs`** takes the parts of `ServiceParts` one after the other.

* Migrations, for any processes, builds and numbers of migrations
  (`MigrationAssumption`): every process past the lock holds it, and what is
  recorded of a context is a prefix of its migrations, each run once.
  `RecordIsTrue`, `StartsOnCurrent` and `ProcessesTakeTurns` follow; the last is
  not the property of a run, because the lock alone decides it.
* Plan algorithms, for any finite graph: gray nodes are a path, black ones lead to
  black ones only and lie on no cycle, and what `TopoLayers` has computed of a
  node is its longest chain of dependencies, which exists in an acyclic plan.
  `FindsCyclesAndLayersHolds`: the search reports a cycle if and only if there is
  one, and the layers are the plan's depths.
* Inbox: `ReadMarksStay`, for any notices and readers.
* Planning: `PlanningInv` says of each step what has been judged, stored and told,
  also of an abandoned worker and of row writes that are late. `StoredPlansAreSound`.
* Event streams: `StreamInv` says that the conversation's numbers are `1..k` with no
  gap. The number of an open transaction is `k + 1` and its writer holds the lock,
  which is exactly what the sequence behind the hub's events does not give.
  `ConversationIsWhole`, where the lock's "free" is no writer.
* Cleanup: `CleanInv`, the consent a forced removal has. `CleanupIsSafe`, where no
  directory is both under the tool's own and elsewhere.
* Agent runs: `AgentInv` counts tokens through processes and resumes and says when
  the agent has been given its task. `AnswersAreFinished`.
* Pilot: `PilotInv` says what a pass has decided by where it stands, that replies
  wait for the push, and that every write sent and not yet applied claims what was
  decided when it was sent, only the last of a pass settling its row.
  `ResolvedIsAnswered` and `RowIsTrue`, with writes repeated, lost or late.

**`AccessProofs`**, for any tabs, people, lifetimes and numbers of sign-ins. `AInv`
ties every sign-in in flight, every call and every session to the answer the
provider gave and to the session minted from it; `Genuine` follows. Subjects are
assumed to be people (`SubjectsArePeople`): no subject is the word for an absent
or refused one. `EndsForCause` needs, of each call about to end a session, the
reason it found, and that the reason lasts until the row is removed
(`EndsForAReason`). It holds whether or not the provider rotates refresh tokens,
and it promises no more than the code does: that the provider *answered* the
renewal without tokens, not that it withdrew the grant.

Left to TLC, and why:

* Liveness (`DeliveredDecisionEndsWait`, `NeverRunsAway`, `FleetEnds`,
  `DevelopGoesOn`, `PilotLoopEnds`, `EveryStartEnds`): fairness and `ENABLED`
  are out of the prover's reach.
* The five findings: what refutes a document or a comment is a behaviour, which TLC
  exhibits.
* Where a theorem has a hypothesis (`RefusesDirect`, `SubjectsArePeople`,
  the lock's "free", the directories of `CleanupIsSafe`) and a run's instance goes
  beyond it, only the run speaks of the rest.

## Plan

1. Done: every component above with its run; the type and safety invariants, the
   two refinements and the action properties listed under "Proofs".
2. Done: the proofs of every safety property of a run, the overview's last.
3. The review loop's row with `ExecutionRecord`'s late writes and its waiting
   badge, as the pilot's has.
4. Schedules in the overview, and the hub's single-item reads.

## Not modelled

The CLI, server wiring, routing, the OpenAPI document, DTOs and the web interface
carry data rather than protocol. Prompt rendering, stream parsing, plan parsing
and branch naming are string work. Schedules are read-only lists of what Temporal
says. Encryption and verification of tokens are the libraries'. The zombie of an
attempt that timed out is followed where it can reach a store or a row
(`ExecutionRecord`, `Planning`), not where it would go on editing a checkout
beside its successor. `PROJECT.json` gives the reason per component.
