------------------------------ MODULE Overview ------------------------------
(***************************************************************************)
(* What the agent hub makes of the executions it reads: the orchestrator's *)
(* live listing, the rows of the execution record and the approved plans.  *)
(*                                                                         *)
(*   An execution is one iteration of a chain: a record with the chain's   *)
(*   id, the iteration's run number, when it started, its outcome, its     *)
(*   tokens, and what was asked of it (Unsaid when the source is silent).  *)
(*   A world is what the sources answer: rows and live are sets of         *)
(*   executions, known maps the chains the orchestrator can describe to    *)
(*   their latest iteration.                                               *)
(***************************************************************************)
EXTENDS Integers, FiniteSets, Sequences, SequencesExt

CONSTANT MaxLimit  \* the largest page a collection serves

Unsaid == ""

Outcomes == {"running", "succeeded", "failed", "blocked", "skipped"}

Running(e) == e.outcome = "running"

WorkStatus(outcome) ==
  CASE outcome = "running"   -> "in-progress"
    [] outcome = "succeeded" -> "done"
    [] outcome = "blocked"   -> "waiting-input"
    [] outcome = "skipped"   -> "paused"
    [] OTHER                 -> "failed"

\* Execution.Status: a running execution that asks a human says so.
Status(e) == IF Running(e) /\ e.waiting THEN "waiting-input" ELSE WorkStatus(e.outcome)

runClasses == {"run", "develop", "review", "pilot", "fleet-plan"}

isRunSatellite(e) ==
  /\ e.class \in runClasses /\ e.schedule = Unsaid
  /\ e.parent = Unsaid \/ e.detached

isFleet(e) == e.class = "fleet"

Least(a, b) == IF a < b THEN a ELSE b

firstNonEmpty(a, b) == IF a # Unsaid THEN a ELSE b

-----------------------------------------------------------------------------
(* A chain of iterations, collapsed to one item.                           *)

newer(a, b) == a.start > b.start \/ (a.start = b.start /\ a.run > b.run)

\* What the latest iteration takes from an older one: facts, never its wait.
Inherit(latest, older) ==
  [latest EXCEPT !.label    = firstNonEmpty(@, older.label),
                 !.plan     = firstNonEmpty(@, older.plan),
                 !.schedule = firstNonEmpty(@, older.schedule),
                 !.parent   = firstNonEmpty(@, older.parent),
                 !.place    = firstNonEmpty(@, older.place)]

\* appendToChain of the record: rows come newest first.
appendToChain(chain, e) ==
  LET start  == IF chain.iterations = 0 THEN e.start ELSE Least(chain.start, e.start)
      tokens == chain.tokens + e.tokens
      latest == IF chain.iterations = 0 THEN e
                ELSE IF newer(e, chain.latest) THEN Inherit(e, chain.latest)
                ELSE Inherit(chain.latest, e)
  IN [iterations |-> chain.iterations + 1, tokens |-> tokens, start |-> start,
      latest |-> [latest EXCEPT !.start = start, !.tokens = tokens]]

noChain == [iterations |-> 0, tokens |-> 0]

\* Rows in order: each behind those that are newer.
NewestFirst(rows) ==
  [i \in 1..Cardinality(rows) |->
     CHOOSE e \in rows : Cardinality({o \in rows : newer(o, e)}) = i - 1]

aggregateChain(rows) ==
  LET chain[n \in 0..Cardinality(rows)] ==
        IF n = 0 THEN noChain ELSE appendToChain(chain[n - 1], NewestFirst(rows)[n])
  IN chain[Cardinality(rows)]

\* merge of the service: the same in memory, for the executions of one node.
merge(chain, e) ==
  IF chain.iterations = 0 THEN [iterations |-> 1, latest |-> e]
  ELSE LET old    == chain.latest
           latest == IF newer(e, old) THEN Inherit(e, old) ELSE Inherit(old, e)
       IN [iterations |-> chain.iterations + 1,
           latest |-> [latest EXCEPT !.tokens = old.tokens + e.tokens,
                                     !.start = Least(old.start, e.start),
                                     !.detached = old.detached \/ e.detached]]

-----------------------------------------------------------------------------
(* The record's pages: identities first, then every row of them.           *)

IdsOf(executions) == {e.id : e \in executions}

RowsOf(executions, id) == {e \in executions : e.id = id}

Started(executions, id) ==
  CHOOSE t \in {e.start : e \in RowsOf(executions, id)} :
    \A e \in RowsOf(executions, id) : t <= e.start

\* The first n of some in an order: fewer than n of them are before.
Foremost(some, n, order) == {x \in some : Cardinality({y \in some : <<y, x>> \in order}) < n}

\* The identities as their pages list them: newest chain first.
Listing(eligible) ==
  {p \in IdsOf(eligible) \X IdsOf(eligible) :
     \/ Started(eligible, p[1]) > Started(eligible, p[2])
     \/ Started(eligible, p[1]) = Started(eligible, p[2]) /\ p[1] < p[2]}

\* selectedExecutionsSQL: the identities of a page, with one more to tell
\* whether there is a next page, and the required ones.
Selected(eligible, limit, required, cursor) ==
  LET beyond == {id \in IdsOf(eligible) : cursor = 0 \/ <<cursor, id>> \in Listing(eligible)}
      page   == Foremost(beyond, limit + 1, Listing(eligible))
  IN page \cup Foremost((IdsOf(eligible) \cap required) \ page, limit, Listing(eligible))

\* chainPage and splitRequired: the page, what it carries of the required
\* identities, and the cursor of the next one (0: there is none).
Page(eligible, limit, required, cursor) ==
  LET selected == Selected(eligible, limit, required, cursor)
      items    == Foremost(selected, limit, Listing(eligible))
      more     == Cardinality(selected) > limit
  IN [items    |-> items,
      required |-> IF more THEN Foremost((selected \ items) \cap required, limit, Listing(eligible))
                           ELSE {},
      next     |-> IF more THEN CHOOSE id \in items :
                                  \A other \in items \ {id} : <<other, id>> \in Listing(eligible)
                           ELSE 0]

-----------------------------------------------------------------------------
(* Reconciling a page with the live state.                                 *)

\* Mutant of settle: nobody is asked.
settleUnasked(e, known) == [e EXCEPT !.outcome = "failed"]

\* An execution whose row says running and that no listing shows: the
\* orchestrator is asked, and one it does not know has failed.
settle(e, known) ==
  IF e.id \in DOMAIN known
    THEN [e EXCEPT !.outcome = known[e.id].outcome, !.run = known[e.id].run]
    ELSE [e EXCEPT !.outcome = "failed"]

\* addExecutionStates: the same for all of them, added to the live state.
addExecutionStates(live, latest, known) ==
  live \cup {settle(e, known) : e \in {r \in latest : Running(r) /\ r.id \notin IdsOf(live)}}

\* boundedLiveCandidates: the live state of the page and the newest others.
\* (satellites: the identities that count as runs of the satellite's own.)
boundedLiveCandidates(live, selected, limit, satellites) ==
  {e \in live : e.id \in selected}
    \cup Foremost({e \in live : e.id \in satellites}, limit,
                  {p \in live \X live : newer(p[1], p[2])})

\* What the live state says of a chain replaces what its rows say.
Overlay(chain, current) ==
  [chain EXCEPT
     !.iterations = IF current.run # chain.latest.run THEN @ + 1 ELSE @,
     !.latest     = [@ EXCEPT !.outcome = current.outcome, !.run = current.run]]

\* resolveExecutionChains: the rows' chains under the live state, and the live
\* executions no row tells of; keep is the identities asked for.
resolveExecutionChains(chains, live, known, keep) ==
  LET kept     == {c \in chains : c.latest.id \in keep}
      unlisted == {e \in live : e.id \in keep /\ \A c \in kept : c.latest.id # e.id}
      all      == kept \cup {[iterations |-> 1, latest |-> e, start |-> e.start, tokens |-> e.tokens] : e \in unlisted}
      current(c) == IF c.latest.id \in IdsOf(live)
                      THEN Overlay(c, CHOOSE e \in live : e.id = c.latest.id)
                    ELSE IF Running(c.latest) THEN [c EXCEPT !.latest = settle(@, known)]
                    ELSE c
  IN {current(c) : c \in all}

\* runFrom: the published run.  StateRevision is a hash of exactly these facts.
runFrom(chain) ==
  [id |-> chain.latest.id, running |-> Running(chain.latest), label |-> chain.latest.label,
   status |-> Status(chain.latest), start |-> chain.start, iterations |-> chain.iterations,
   tokens |-> chain.tokens, place |-> chain.latest.place]

-----------------------------------------------------------------------------
(* What one viewer's dismissals leave of a collection.                      *)

collectionPageLimit(limit, dismissed) ==
  IF dismissed >= MaxLimit - limit THEN MaxLimit ELSE limit + dismissed

\* Mutant of Dismissed: an item stays hidden when its state changes.
DismissedForGood(hidden, item) == item.id \in DOMAIN hidden

\* hidden maps an item to the revision its viewer dismissed.
Dismissed(hidden, item) == item.id \in DOMAIN hidden /\ hidden[item.id] = item

=============================================================================
