------------------------------- MODULE Launch -------------------------------
(***************************************************************************)
(* Starting work from the hub (agenthub.StartWork and RegisterPlace): calls *)
(* that interleave with each other, with the runs they start and with the  *)
(* work of others, and whose every port may fail after it has acted.       *)
(*                                                                         *)
(* A request is a caller's identity for what it wants and where; the run it *)
(* names is minted from it (wfid.ForRequest), so requests stand for their  *)
(* runs.  A typed directory is what an operator registers; the probe says  *)
(* which working tree holds it.                                            *)
(***************************************************************************)
EXTENDS Integers, FiniteSets

CONSTANTS
  Callers,    \* operators; each has at most one call in flight
  Requests,   \* request identities
  Typed,      \* directories an operator may register
  Trees,      \* working trees
  Probe,      \* the tree that holds a typed directory, NoTree when none does
  NoTree,
  Target,     \* the place each request names
  Isolated,   \* requests that ask for a worktree of their own
  Elsewhere,  \* the tree where somebody else's run is going on, or NoTree
  MaxCalls    \* calls in all

NoBody == ""

ASSUME LaunchAssumption ==
  /\ NoBody \notin Callers
  /\ Probe \in [Typed -> Trees \cup {NoTree}] /\ NoTree \notin Trees
  /\ Target \in [Requests -> Trees] /\ Isolated \subseteq Requests
  /\ Elsewhere \in Trees \cup {NoTree} /\ MaxCalls \in Nat

VARIABLES
  registry,  \* registered trees: who registered each first
  launches,  \* recorded launches: who started each request's run
  begun,     \* executions begun under each request's run
  running,   \* the runs going on
  seen,      \* the runs the hub's sources show running, with their tree
  worked,    \* the trees the hub has seen work in, now or before
  other,     \* somebody else's run: running, over, or dismissed while it runs
  call,      \* each caller's call
  calls,     \* calls begun
  answers,   \* what callers were told: request and initiator
  overEarly, \* runs over before their launch was recorded and every repeat knew
  watched    \* per call: the trees with work the sources showed since it began

runs == <<begun, running, seen, worked, other, overEarly>>
launchVars == <<registry, launches, runs, call, calls, answers, watched>>

NoOne  == [step |-> "idle", request |-> "", busy |-> {}, worked |-> {}]

InitLaunch ==
  /\ registry = [t \in Trees |-> NoBody] /\ launches = [r \in Requests |-> NoBody]
  /\ begun = [r \in Requests |-> 0] /\ running = {} /\ seen = {}
  /\ worked = {Elsewhere} \ {NoTree}
  /\ other = IF Elsewhere = NoTree THEN "over" ELSE "running"
  /\ call = [c \in Callers |-> NoOne] /\ calls = 0 /\ answers = {}
  /\ overEarly = {} /\ watched = [c \in Callers |-> {}]

\* A run in a worktree of its own leaves its request's tree alone.
RunsIn(r) == IF r \in Isolated THEN NoTree ELSE Target[r]

BusyTrees == {RunsIn(r) : r \in seen} \cup {t \in {Elsewhere} : other = "running"}

-----------------------------------------------------------------------------
(* Registering a place.                                                    *)

\* RegisterPlace: the probe's tree is stored, whatever was typed, unless it is
\* registered already; a directory no tree holds is refused.
Register(c, typed) ==
  /\ Probe[typed] # NoTree
  /\ registry' = [registry EXCEPT ![Probe[typed]] = IF @ = NoBody THEN c ELSE @]
  /\ UNCHANGED <<launches, runs, call, calls, answers, watched>>

-----------------------------------------------------------------------------
(* Starting work.                                                          *)

At(c, step) == call[c].step = step

Goes(c, next) == call' = [call EXCEPT ![c] = next]

\* Answered, refused, or failed: the caller's call is over.
Over(c) == call' = [call EXCEPT ![c] = NoOne] /\ watched' = [watched EXCEPT ![c] = {}]

Begin(c, r) ==
  /\ At(c, "idle") /\ calls < MaxCalls
  /\ calls' = calls + 1
  /\ Goes(c, [NoOne EXCEPT !.step = "repeat", !.request = r])
  /\ watched' = [watched EXCEPT ![c] = BusyTrees \ {NoTree}]
  /\ UNCHANGED <<registry, launches, runs, answers>>

\* A port fails: the answer is "unavailable", and nothing more is done.
Unavailable(c) ==
  /\ ~At(c, "idle") /\ Over(c)
  /\ UNCHANGED <<registry, launches, runs, calls, answers>>

\* Mutant of AlreadyStarted: a repeat is judged as a new start.
AlwaysNew(c) ==
  /\ At(c, "repeat")
  /\ Goes(c, [call[c] EXCEPT !.step = "known"]) /\ UNCHANGED <<answers, watched>>
  /\ UNCHANGED <<registry, launches, runs, calls>>

\* alreadyStarted: a request with a recorded launch is answered with that one.
AlreadyStarted(c) ==
  /\ At(c, "repeat")
  /\ LET r == call[c].request IN
       IF launches[r] # NoBody
         THEN Over(c) /\ answers' = answers \cup {<<r, launches[r]>>}
         ELSE Goes(c, [call[c] EXCEPT !.step = "known"]) /\ UNCHANGED <<answers, watched>>
  /\ UNCHANGED <<registry, launches, runs, calls>>

\* knownWork: what is running where, in one read.
KnownWork(c) ==
  /\ At(c, "known")
  /\ Goes(c, [call[c] EXCEPT !.step = "place", !.busy = BusyTrees, !.worked = worked])
  /\ UNCHANGED <<registry, launches, runs, calls, answers, watched>>

\* Mutant of PlaceToWorkIn: work going on in the place does not matter.
AnyWork(c) ==
  /\ At(c, "place")
  /\ LET t == Target[call[c].request] IN
       IF registry[t] # NoBody \/ t \in call[c].worked
         THEN Goes(c, [call[c] EXCEPT !.step = "submit"]) /\ UNCHANGED watched
         ELSE Over(c)
  /\ UNCHANGED <<registry, launches, runs, calls, answers>>

\* The place is registered, or has been worked in, and is not busy: anything
\* else is refused.  Also a start in a worktree needs its tree not to be busy.
PlaceToWorkIn(c) ==
  /\ At(c, "place")
  /\ LET t == Target[call[c].request] IN
       IF (registry[t] # NoBody \/ t \in call[c].worked) /\ t \notin call[c].busy
         THEN Goes(c, [call[c] EXCEPT !.step = "submit"]) /\ UNCHANGED watched
         ELSE Over(c)
  /\ UNCHANGED <<registry, launches, runs, calls, answers>>

\* The run is begun, or the one already running is the work.
RunBegins(r) ==
  /\ running' = running \cup {r}
  /\ begun' = [begun EXCEPT ![r] = IF r \in running THEN @ ELSE @ + 1]
  /\ UNCHANGED <<seen, worked, other, overEarly>>

\* Launcher.Start, with USE_EXISTING; it may have begun the run and fail.
Submit(c) ==
  /\ At(c, "submit") /\ RunBegins(call[c].request)
  /\ \/ Goes(c, [call[c] EXCEPT !.step = "record"]) /\ UNCHANGED watched
     \/ Over(c)
  /\ UNCHANGED <<registry, launches, calls, answers>>

\* Mutant of Record: the launch of the last caller is the one kept.
RecordLast(c) ==
  /\ At(c, "record") /\ Over(c)
  /\ launches' = [launches EXCEPT ![call[c].request] = c]
  /\ answers' \in {answers, answers \cup {<<call[c].request, c>>}}
  /\ UNCHANGED <<registry, runs, calls>>

\* Launches.Launch keeps the first record and answers with it; the answer may
\* not arrive.
Record(c) ==
  /\ At(c, "record") /\ Over(c)
  /\ LET r      == call[c].request
         stored == IF launches[r] = NoBody THEN c ELSE launches[r]
     IN /\ launches' = [launches EXCEPT ![r] = stored]
        /\ answers' \in {answers, answers \cup {<<r, stored>>}}
  /\ UNCHANGED <<registry, runs, calls>>

StartWork(c) ==
  \/ Unavailable(c) \/ AlreadyStarted(c) \/ KnownWork(c) \/ PlaceToWorkIn(c)
  \/ Submit(c) \/ Record(c)

-----------------------------------------------------------------------------
(* The runs.                                                               *)

\* The run's place is recorded and the hub's sources show it: its own tree, and
\* the one above it.
Appear(r) ==
  /\ r \in running \ seen
  /\ seen' = seen \cup {r} /\ worked' = worked \cup {Target[r]}
  /\ UNCHANGED <<registry, launches, begun, running, other, call, calls, answers, overEarly, watched>>

\* A call past its look at the launches may still submit.
Unaware(r) ==
  launches[r] = NoBody \/ \E c \in Callers : call[c].request = r /\ call[c].step # "repeat"

NoLongerWatched(t) == watched' = [c \in Callers |-> watched[c] \ {t}]

End(r) ==
  /\ r \in running
  /\ running' = running \ {r} /\ seen' = seen \ {r}
  /\ overEarly' = IF Unaware(r) THEN overEarly \cup {r} ELSE overEarly
  /\ NoLongerWatched(RunsIn(r))
  /\ UNCHANGED <<registry, launches, begun, worked, other, call, calls, answers>>

\* Somebody else's run ends, or the operator dismisses it while it runs: the
\* dismissal hides it from knownWork too, which reads the local viewer's items.
OtherLeaves ==
  /\ other = "running" /\ other' \in {"over", "dismissed"}
  /\ NoLongerWatched(Elsewhere)
  /\ UNCHANGED <<registry, launches, begun, running, seen, worked, call, calls, answers, overEarly>>

NextLaunch ==
  \/ \E c \in Callers :
       \/ StartWork(c)
       \/ \E r \in Requests : Begin(c, r)
       \/ \E typed \in Typed : Register(c, typed)
  \/ \E r \in Requests : Appear(r) \/ End(r)
  \/ OtherLeaves

LaunchSpec == InitLaunch /\ [][NextLaunch]_launchVars

-----------------------------------------------------------------------------
(* What starting work promises.                                            *)

\* However often a request is repeated, by whom, and whatever answer was lost,
\* its run is begun once.  It is begun again only where the first was over
\* before its launch was recorded, or before a repeat already past its look at
\* the launches came to submit.
\* (agenthub/launch.go StartWork; hubtemporal/launcher.go Start: USE_EXISTING)
OneRunPerRequest == \A r \in Requests : begun[r] > 1 => r \in overEarly

\* Every answer tells of a run that was begun, and all answers to one request
\* name the same initiator, the one of the recorded launch: a launch is recorded
\* after its run is begun and is never rewritten.
\* (agenthub/launch.go StartWork; hubpg.go launchSQL)
AnswersAgree ==
  \A a \in answers : begun[a[1]] > 0 /\ launches[a[1]] = a[2]

\* Both: a request may be repeated without harm, and every repeat is told the same.
RequestsAreIdempotent == OneRunPerRequest /\ AnswersAgree

\* No start is submitted into a tree where the hub's own sources showed work
\* from before the call to its submission.
\* (agenthub/launch.go knownWork, runningIn: work that would collide is refused)
NeverCollidesKnowingly ==
  \A c \in Callers : At(c, "submit") => Target[call[c].request] \notin watched[c]

=============================================================================
