----------------------------- MODULE Collection -----------------------------
(***************************************************************************)
(* A viewer's overview of the run satellites (agenthub.RunsFor), read      *)
(* while the runs go on.  Five sources change under the read: the          *)
(* orchestrator's executions, its visibility listing (which lags), the     *)
(* durable rows, written by the runs themselves, and the viewer's          *)
(* dismissals, each of which hides one exact state.                        *)
(***************************************************************************)
EXTENDS Overview

CONSTANTS
  Chains,    \* the workflow ids, numbers above 0
  Looping,   \* those that pass after pass ask their operator or continue as new
  Fired,     \* those a schedule fired, which its satellite represents
  MaxRuns,   \* iterations started, of all chains together
  MaxEvents, \* what happens to the runs while the collection is read
  Opened,    \* those whose own page the viewer opens
  Limit      \* the size of the collection, MaxLimit at most

ASSUME CollectionAssumption ==
  /\ Chains \subseteq Nat \ {0} /\ IsFiniteSet(Chains) /\ Looping \subseteq Chains
  /\ Fired \subseteq Chains /\ Opened \subseteq Chains
  /\ MaxLimit \in Nat /\ Limit \in 1..MaxLimit /\ MaxRuns \in Nat

VARIABLES
  exec,    \* what the orchestrator knows of each chain
  listed,  \* the iteration its listing shows running (0: none)
  starts,  \* when each iteration started
  rows,    \* the durable rows of each chain, in the order of its iterations
  hidden,  \* the viewer's dismissals: item to the state they acknowledged
  reader,  \* the read in progress
  dismiss, \* the dismissal in progress, from the look at one run it follows
  steady   \* chains nothing happened to since the read began

world == <<exec, listed, starts, rows>>
vars == <<world, hidden, reader, dismiss, steady>>

NoRead == [step |-> "idle", hidden |-> <<>>, live |-> {}, page |-> {}, ids |-> {}, seen |-> {},
           items |-> {}, cursor |-> 0, next |-> 0, published |-> {}, crowded |-> FALSE,
           events |-> 0]
NoDismissal == [step |-> "idle", id |-> 0, viewed |-> {}, chain |-> {}, item |-> {}]

Init ==
  /\ exec = [c \in Chains |-> "none"] /\ listed = [c \in Chains |-> 0]
  /\ starts = [c \in Chains |-> <<>>] /\ rows = [c \in Chains |-> <<>>]
  /\ hidden = <<>> /\ reader = NoRead /\ dismiss = NoDismissal /\ steady = {}

-----------------------------------------------------------------------------
(* The runs.                                                               *)

Clock == Cardinality({s \in Chains \X (1..MaxRuns) : s[2] <= Len(starts[s[1]])})

Happens(c) ==
  /\ reader.step \notin {"published", "failed"}
  /\ reader.step # "idle" => reader.events < MaxEvents
  /\ reader' = [reader EXCEPT !.events = IF reader.step = "idle" THEN 0 ELSE @ + 1]
  /\ steady' = steady \ {c} /\ UNCHANGED <<hidden, dismiss>>

\* The iteration is recorded and its row has not settled.
Recorded(c) ==
  Len(rows[c]) = Len(starts[c]) /\ rows[c] # <<>> /\ Last(rows[c]).outcome = "running"

StartRun(c) ==
  /\ exec[c] = "none" /\ Clock < MaxRuns
  /\ exec' = [exec EXCEPT ![c] = "running"]
  /\ starts' = [starts EXCEPT ![c] = <<Clock + 1>>]
  /\ Happens(c) /\ UNCHANGED <<listed, rows>>

\* The start is recorded before the iteration does anything; a later iteration
\* may fail to find out where it runs.
RecordStart(c) ==
  /\ exec[c] = "running" /\ Len(rows[c]) < Len(starts[c])
  /\ rows' = [rows EXCEPT ![c] =
                Append(@, [outcome |-> "running", waiting |-> FALSE,
                           place |-> IF @ = <<>> THEN "tree" ELSE Unsaid])]
  /\ Happens(c) /\ UNCHANGED <<exec, listed, starts>>

\* A pass asks its operator, or goes on.
Ask(c) ==
  /\ c \in Looping /\ exec[c] = "running" /\ Recorded(c)
  /\ rows' = [rows EXCEPT ![c][Len(rows[c])].waiting = ~@]
  /\ Happens(c) /\ UNCHANGED <<exec, listed, starts>>

\* The terminal row, when it is written.
SettleRow(c) ==
  /\ exec[c] = "running" /\ Recorded(c)
  /\ \E out \in {"succeeded", "failed"} :
       rows' = [rows EXCEPT ![c][Len(rows[c])] = [@ EXCEPT !.outcome = out, !.waiting = FALSE]]
  /\ Happens(c) /\ UNCHANGED <<exec, listed, starts>>

\* An iteration that recorded its success is continued as new.
ContinueAsNew(c) ==
  /\ c \in Looping /\ exec[c] = "running" /\ Clock < MaxRuns
  /\ Len(rows[c]) = Len(starts[c]) /\ Last(rows[c]).outcome = "succeeded"
  /\ starts' = [starts EXCEPT ![c] = Append(@, Clock + 1)]
  /\ Happens(c) /\ UNCHANGED <<exec, listed, rows>>

\* The execution closes: as its row says, or with the terminal write lost.
Close(c) ==
  /\ exec[c] = "running"
  /\ exec' = [exec EXCEPT ![c] = IF Len(rows[c]) = Len(starts[c]) /\ ~Recorded(c)
                                   THEN Last(rows[c]).outcome ELSE "failed"]
  /\ Happens(c) /\ UNCHANGED <<listed, starts, rows>>

\* Past its retention the orchestrator does not know the execution any more.
Forget(c) ==
  /\ exec[c] \in {"succeeded", "failed"}
  /\ exec' = [exec EXCEPT ![c] = "gone"]
  /\ Happens(c) /\ UNCHANGED <<listed, starts, rows>>

Listable(c) == IF exec[c] = "running" THEN Len(starts[c]) ELSE 0

\* The visibility listing catches up.
List(c) ==
  /\ listed[c] # Listable(c)
  /\ listed' = [listed EXCEPT ![c] = Listable(c)]
  /\ Happens(c) /\ UNCHANGED <<exec, starts, rows>>

WorldStep(c) ==
  \/ StartRun(c) \/ RecordStart(c) \/ Ask(c) \/ SettleRow(c) \/ ContinueAsNew(c)
  \/ Close(c) \/ Forget(c) \/ List(c)

-----------------------------------------------------------------------------
(* The sources.                                                            *)

\* An iteration as a source tells of it: the orchestrator has no place.
Iteration(c, i, out, waiting, place) ==
  [id |-> c, run |-> i, start |-> starts[c][i], outcome |-> out,
   tokens |-> IF out \in {"succeeded", "failed"} THEN 1 ELSE 0, label |-> Unsaid,
   waiting |-> waiting, class |-> "run", parent |-> Unsaid, detached |-> FALSE,
   schedule |-> IF c \in Fired THEN "schedule" ELSE Unsaid, plan |-> Unsaid, place |-> place]

Rows == UNION {{Iteration(c, i, rows[c][i].outcome, rows[c][i].waiting, rows[c][i].place) :
                  i \in 1..Len(rows[c])} : c \in Chains}

RunningExecutions ==
  {Iteration(c, listed[c], "running", FALSE, Unsaid) : c \in {d \in Chains : listed[d] # 0}}

\* Executions: what a batch of descriptions answers now.
Executions ==
  [c \in {d \in Chains : exec[d] \notin {"none", "gone"}} |->
     [Iteration(c, Len(starts[c]), exec[c], FALSE, Unsaid) EXCEPT !.tokens = 0]]

Eligible == {e \in Rows : isRunSatellite(e)}

\* The identities of those that are: what makes one so never changes.
Satellites(executions) == {e.id : e \in {x \in executions : isRunSatellite(x)}}

ChainsOf(ids) == {aggregateChain(RowsOf(Eligible, id)) : id \in ids}

-----------------------------------------------------------------------------
(* The read.                                                               *)

\* The sources agree on the chain: its latest iteration is recorded or listed,
\* and the listing shows no other.  (An iteration that ended because its start
\* could not be recorded is known to the orchestrator alone.)
InSync(c) ==
  /\ listed[c] \in {0, Listable(c)}
  /\ Len(rows[c]) = Len(starts[c]) \/ (exec[c] = "running" /\ listed[c] # 0)
  /\ exec[c] = "running" /\ ~Recorded(c) => listed[c] # 0

BeginRead ==
  /\ reader.step = "idle" /\ dismiss.step = "idle"
  /\ reader' = [NoRead EXCEPT !.step = "live", !.hidden = hidden]
  /\ steady' = {c \in Chains : exec[c] # "none" /\ InSync(c)}
  /\ UNCHANGED <<world, hidden, dismiss>>

ReadLive ==
  /\ reader.step = "live"
  /\ reader' = [reader EXCEPT !.step = "page", !.live = RunningExecutions]
  /\ UNCHANGED <<world, hidden, dismiss, steady>>

\* Mutant of ReadPage: the whole chain is read only of what is on the page.
ReadPageOnly ==
  /\ reader.step = "page"
  /\ LET page == Page(Eligible, collectionPageLimit(Limit, Cardinality(DOMAIN reader.hidden)),
                      {}, reader.cursor)
     IN reader' = [reader EXCEPT !.step = "states", !.page = ChainsOf(page.items),
                                 !.ids = page.items, !.next = page.next]
  /\ UNCHANGED <<world, hidden, dismiss, steady>>

\* One page of the rows, and every row of the running chains with the first.
ReadPage ==
  /\ reader.step = "page"
  /\ LET required == IF reader.cursor = 0 THEN IdsOf({e \in reader.live : isRunSatellite(e)}) ELSE {}
         page     == Page(Eligible, collectionPageLimit(Limit, Cardinality(DOMAIN reader.hidden)),
                          required, reader.cursor)
     IN reader' = [reader EXCEPT !.step = "states",
                                 !.page = ChainsOf(page.items \cup page.required),
                                 !.ids = page.items, !.next = page.next]
  /\ UNCHANGED <<world, hidden, dismiss, steady>>

NewestItems(items) ==
  LET newestFirst == {p \in items \X items :
                        \/ p[1].start > p[2].start
                        \/ p[1].start = p[2].start /\ p[1].id < p[2].id}
  IN Foremost(items, Limit, newestFirst)

\* The orchestrator is asked of the stale rows, the page is resolved, and the
\* read ends when enough of the page is visible or there is no next one.
ResolvePage ==
  /\ reader.step = "states"
  /\ LET live     == addExecutionStates(reader.live, {c.latest : c \in reader.page}, Executions)
         pageIds  == {c.latest.id : c \in reader.page}
         keep     == Satellites(live \cup {c.latest : c \in reader.page})
         resolved == resolveExecutionChains(reader.page,
                       boundedLiveCandidates(live, pageIds, Limit, keep), Executions, keep)
         unseen   == {c \in resolved : c.latest.id \notin reader.seen}
         visible  == {r \in {runFrom(c) : c \in unseen} : ~Dismissed(reader.hidden, r)}
         items    == reader.items \cup visible
         enough   == \/ Cardinality(reader.ids \cap IdsOf(items)) >= Limit
                     \/ reader.next = 0
     IN reader' = [reader EXCEPT !.step = IF enough THEN "published" ELSE "page",
                                 !.live = IF enough THEN {} ELSE live, !.page = {}, !.ids = {},
                                 !.seen = IF enough THEN {} ELSE @ \cup {c.latest.id : c \in unseen},
                                 !.items = IF enough THEN {} ELSE items,
                                 !.crowded = @ \/ Cardinality({e \in live : isRunSatellite(e)}) > Limit,
                                 !.cursor = IF enough THEN 0 ELSE reader.next, !.next = 0,
                                 !.published = IF enough THEN NewestItems(items) ELSE {}]
  /\ UNCHANGED <<world, hidden, dismiss, steady>>

\* A source fails: the read answers nothing rather than half.
ReadFails ==
  /\ reader.step \in {"live", "page", "states"}
  /\ reader' = [NoRead EXCEPT !.step = "failed"] /\ steady' = {}
  /\ UNCHANGED <<world, hidden, dismiss>>

ReadStep == BeginRead \/ ReadLive \/ ReadPage \/ ResolvePage \/ ReadFails

-----------------------------------------------------------------------------
(* Dismissals.  One stored while the collection is read does not concern    *)
(* the read, which has its dismissals already: here they come before it.    *)

\* What the run is, from its rows, the listing and the orchestrator's word.
ItemFrom(c, chains) ==
  LET live  == addExecutionStates(RunningExecutions, {d.latest : d \in chains}, Executions)
      mine  == {c} \cap Satellites(live \cup {d.latest : d \in chains})
      found == resolveExecutionChains(chains, live, Executions, mine)
  IN IF found # {} THEN {runFrom(d) : d \in found}
     ELSE {runFrom([iterations |-> 1, latest |-> Executions[d], start |-> Executions[d].start,
                    tokens |-> 0]) : d \in ({c} \cap DOMAIN Executions) \ Fired}

RowsRead(c) == ChainsOf({c} \cap IdsOf(Eligible))

\* The viewer opens the run's own page.
View(c) ==
  /\ reader.step = "idle" /\ dismiss.step = "idle" /\ hidden = <<>> /\ ItemFrom(c, RowsRead(c)) # {}
  /\ dismiss' = [NoDismissal EXCEPT !.step = "rows", !.id = c, !.viewed = ItemFrom(c, RowsRead(c))]
  /\ UNCHANGED <<world, hidden, reader, steady>>

\* DismissFor, currentStateRevision: the rows of the run ...
ReadRows ==
  /\ dismiss.step = "rows"
  /\ dismiss' = [dismiss EXCEPT !.step = "live", !.chain = RowsRead(dismiss.id)]
  /\ UNCHANGED <<world, hidden, reader, steady>>

Current == ItemFrom(dismiss.id, dismiss.chain)

\* Mutant of CheckRevision: what is current is dismissed, whatever was reviewed.
CheckNothing ==
  /\ dismiss.step = "live"
  /\ dismiss' = IF Current # {} THEN [dismiss EXCEPT !.step = "store", !.chain = {}, !.item = Current]
                                ELSE NoDismissal
  /\ UNCHANGED <<world, hidden, reader, steady>>

\* ... reconciled with the live state: ErrNotFound, ErrStateChanged, or a match.
CheckRevision ==
  /\ dismiss.step = "live"
  /\ dismiss' = IF Current = dismiss.viewed
                  THEN [dismiss EXCEPT !.step = "store", !.chain = {}, !.item = Current]
                ELSE NoDismissal
  /\ UNCHANGED <<world, hidden, reader, steady>>

StoreDismissal ==
  /\ dismiss.step = "store"
  /\ hidden' = [c \in DOMAIN hidden \cup {dismiss.id} |->
                  IF c = dismiss.id THEN CHOOSE item \in dismiss.item : TRUE ELSE hidden[c]]
  /\ steady' = steady \ {dismiss.id} /\ dismiss' = NoDismissal
  /\ UNCHANGED <<world, reader>>

Undismiss(c) ==
  /\ reader.step = "idle" /\ c \in DOMAIN hidden
  /\ hidden' = [d \in DOMAIN hidden \ {c} |-> hidden[d]]
  /\ steady' = steady \ {c}
  /\ UNCHANGED <<world, reader, dismiss>>

DismissStep ==
  \/ ReadRows \/ CheckRevision \/ StoreDismissal
  \/ \E c \in Opened : View(c) \/ Undismiss(c)

Next == ReadStep \/ DismissStep \/ \E c \in Chains : WorldStep(c)

Spec == Init /\ [][Next]_vars

-----------------------------------------------------------------------------
(* What an overview promises.                                              *)

\* A chain's state told from all there is to know of it.
Truth(c) ==
  LET last    == Last(rows[c])
      placed  == {i \in 1..Len(rows[c]) : rows[c][i].place # Unsaid}
      status  == IF exec[c] = "running"
                   THEN IF Recorded(c) /\ last.waiting THEN "waiting-input" ELSE "in-progress"
                 ELSE IF exec[c] = "succeeded" \/ (rows[c] # <<>> /\ last.outcome = "succeeded")
                   THEN "done" ELSE "failed"
  IN [id |-> c, running |-> exec[c] = "running", label |-> Unsaid, status |-> status,
      start |-> starts[c][1], iterations |-> Len(starts[c]),
      tokens |-> Cardinality({i \in 1..Len(rows[c]) : rows[c][i].outcome # "running"}),
      place |-> IF placed = {} THEN Unsaid
                ELSE rows[c][CHOOSE i \in placed : \A j \in placed : j <= i].place]

Published(c) == {r \in reader.published : r.id = c}

\* A run nothing happened to while the collection was read is shown exactly as
\* it is, all its iterations told together, whatever happened to the others.
\* Only a read that met more running runs than a page holds may tell less.
\* (agenthub/service.go RunsFor, resolveExecutionChains, addExecutionStates)
SteadyRunsAreToldRight ==
  reader.step = "published" /\ ~reader.crowded =>
    \A c \in steady : Published(c) \subseteq {Truth(c)}

\* It is left out only because the viewer dismissed exactly this state, because
\* a schedule represents it, or because newer runs fill the collection.  A run
\* that changed since it was dismissed is back.
\* (agenthub/service.go RunsFor, dismissalSet.has)
SteadyRunsAreNotLost ==
  reader.step = "published" /\ ~reader.crowded =>
    \A c \in steady \ Fired :
      \/ Published(c) # {} \/ (c \in DOMAIN reader.hidden /\ reader.hidden[c] = Truth(c))
      \/ /\ Cardinality(reader.published) = Limit
         /\ \A r \in reader.published : r.start > starts[c][1]

\* Both: what nothing happened to during the read is in the overview, and right.
OverviewTellsTheTruth == SteadyRunsAreToldRight /\ SteadyRunsAreNotLost

\* A dismissal hides exactly the state its viewer looked at, however the run
\* went on in between and whatever order its sources were read in.
\* (agenthub/service.go DismissFor: a stale state revision is refused)
HidesWhatWasSeen ==
  [][\A c \in DOMAIN hidden' :
       (c \notin DOMAIN hidden \/ hidden[c] # hidden'[c]) => hidden'[c] \in dismiss.viewed]_vars

=============================================================================
