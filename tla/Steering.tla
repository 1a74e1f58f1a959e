------------------------------ MODULE Steering ------------------------------
(***************************************************************************)
(* One steering pause: a review loop stops on an operator, a child session *)
(* workflow waits for the decision, and the operators' HTTP requests       *)
(* record a decision in Postgres and then signal the waiting session.      *)
(*                                                                         *)
(* Three kinds of process interleave: the pausing loop (steering.Ask), the *)
(* session workflow (steering.SessionWorkflow) and one request at a time   *)
(* per operator (steering.Service.Decide).  Workflow code between two      *)
(* blocking calls is one step; an activity attempt is one step, which may  *)
(* take effect and still be reported as failed; a SQL statement is split   *)
(* where Postgres' READ COMMITTED isolation lets another one in.           *)
(***************************************************************************)
EXTENDS Naturals, Sequences, FiniteSets

CONSTANTS
  Operators,    \* the principals who may answer
  Texts,        \* guidance texts Decision.Validate accepts
  Round,        \* which pause point this is
  Direct,       \* decisions signalled around the API, straight to Temporal
  MaxAttempts,  \* RetryPolicy.MaximumAttempts of the persistence activities
  MaxSignals,   \* bound: signals held by the session's channel
  MaxReminders  \* bound: 24-hour reminders sent

NoText   == ""
Oversize == "past MaxGuidanceLength"
NoOne    == ""

Rounds  == {"local-review", "remote-comments", "pass-limit"}
Choices == {"guide", "skip", "stop", "continue", "accept"}

ChoiceNames == Choices \cup {"", "unknown"}
Guidances   == Texts \cup {NoText, Oversize}
Principals  == Operators \cup {NoOne}

Decision == [choice : ChoiceNames, guidance : Guidances, principal : Principals]

\* The zero Decision: "not yet".
NoDecision == [choice |-> "", guidance |-> NoText, principal |-> NoOne]

ASSUME SteeringAssumption ==
  /\ Round \in Rounds
  /\ Direct \subseteq Decision
  /\ NoText \notin Texts /\ Oversize \notin Texts
  /\ NoOne \notin Operators
  /\ MaxAttempts \in Nat \ {0}
  /\ MaxSignals \in Nat \ {0}
  /\ MaxReminders \in Nat

-----------------------------------------------------------------------------
(* Decisions.                                                              *)

Made(d) == d.choice # ""

Validate(d) ==
  /\ d.choice \in Choices
  /\ IF d.choice = "guide" THEN d.guidance \in Texts ELSE d.guidance = NoText

RoundChoices ==
  IF Round = "pass-limit" THEN {"continue", "accept", "stop"}
                          ELSE {"guide", "skip", "stop"}

ValidateDecision(d) == Validate(d) /\ d.choice \in RoundChoices

-----------------------------------------------------------------------------
VARIABLES
  row,      \* the session's row in steering_sessions
  events,   \* steering_events of this session, in sequence order
  exec,     \* the session's own execution row
  loop,     \* where the pausing loop stands
  acted,    \* the decision the loop resumed with
  session,  \* where the session workflow stands
  cancel,   \* a cancellation has been requested of the session
  wdec,     \* SessionWorkflow's decision variable
  err,      \* SessionWorkflow's error, "nil" while there is none
  mailbox,  \* the session's signal channel
  reminder, \* reminders sent so far
  attempt,  \* attempts of the persistence activity in progress
  pc,       \* where each operator's request stands
  req,      \* the decision each request carries
  snap,     \* the row each RecordDecision statement's snapshot holds
  got,      \* the row RecordDecision returned to each request
  result    \* what each operator was last told

storeVars    == <<row, events>>
sessionVars  == <<session, cancel, wdec, err, mailbox, reminder>>
operatorVars == <<pc, req, snap, got, result>>
vars == <<row, events, exec, loop, acted, session, cancel, wdec, err,
          mailbox, reminder, attempt, pc, req, snap, got, result>>

Row == [state     : {"none", "waiting", "decided", "abandoned"},
        choice    : ChoiceNames,
        guidance  : Guidances,
        principal : Principals]

Announcements == {"session-waiting", "session-decided"}

NoRow == [state |-> "none", choice |-> "", guidance |-> NoText, principal |-> NoOne]

\* scanSession: the decision a row carries.  Only a guide carries the text.
DecisionOf(r) ==
  [choice    |-> r.choice,
   guidance  |-> IF r.choice = "guide" THEN r.guidance ELSE NoText,
   principal |-> r.principal]

SessionOpen == session \in {"recording", "waiting", "tokens", "settling", "closing"}

Init ==
  /\ row = NoRow
  /\ events = <<>>
  /\ exec = [status |-> "none", decision |-> NoDecision]
  /\ loop = "opening" /\ acted = NoDecision
  /\ session = "none" /\ cancel = FALSE
  /\ wdec = NoDecision /\ err = "nil"
  /\ mailbox = <<>> /\ reminder = 0 /\ attempt = 0
  /\ pc = [o \in Operators |-> "idle"]
  /\ req = [o \in Operators |-> NoDecision]
  /\ snap = [o \in Operators |-> NoRow]
  /\ got = [o \in Operators |-> NoRow]
  /\ result = [o \in Operators |-> "none"]

-----------------------------------------------------------------------------
(* Persistence activities: an attempt succeeds, or fails and is retried    *)
(* until the policy's last attempt.  A failed attempt may still have       *)
(* written, because only its completion was lost.                          *)

Succeeds  == attempt' = 0

Retries   == attempt + 1 < MaxAttempts /\ attempt' = attempt + 1
Exhausted == attempt + 1 = MaxAttempts /\ attempt' = 0

\* openSessionSQL: INSERT ... ON CONFLICT (id) DO NOTHING, announced once.
WriteOpen ==
  IF row.state = "none"
    THEN /\ row' = [row EXCEPT !.state = "waiting"]
         /\ events' = Append(events, "session-waiting")
    ELSE UNCHANGED storeVars

\* Mutant of WriteClose: "AND state = 'waiting'" dropped.
WriteCloseAnyState(d) ==
  /\ row' = [row EXCEPT !.state = IF row.choice # "" \/ Made(d) THEN "decided"
                                                              ELSE "abandoned",
                       !.choice = IF row.choice = "" THEN d.choice ELSE row.choice]
  /\ events' = Append(events, "session-decided")

\* closeSessionSQL: settle a row that still waits; a recorded choice stands.
WriteClose(d) ==
  IF row.state = "waiting"
    THEN /\ row' = [state     |-> IF row.choice # "" \/ Made(d) THEN "decided"
                                                                ELSE "abandoned",
                    choice    |-> IF row.choice = "" THEN d.choice ELSE row.choice,
                    guidance  |-> IF row.choice = "" /\ d.guidance # NoText
                                    THEN d.guidance ELSE row.guidance,
                    principal |-> IF row.choice = "" THEN d.principal
                                                     ELSE row.principal]
         /\ events' = Append(events, "session-decided")
    ELSE UNCHANGED storeVars

\* Mutant of WriteDecision: "AND choice = ''" dropped, so the last one wins.
WriteDecisionLastWins(d) ==
  /\ row' = [state     |-> "decided",
             choice    |-> d.choice,
             guidance  |-> IF d.guidance # NoText THEN d.guidance ELSE row.guidance,
             principal |-> d.principal]
  /\ events' = events

\* recordDecisionSQL's UPDATE: the decision is written where none is recorded.
WriteDecision(d) ==
  IF row.choice = ""
    THEN /\ row' = [state     |-> "decided",
                    choice    |-> d.choice,
                    guidance  |-> IF d.guidance # NoText THEN d.guidance
                                                         ELSE row.guidance,
                    principal |-> d.principal]
         /\ events' = Append(events, "session-decided")
    ELSE UNCHANGED storeVars

-----------------------------------------------------------------------------
(* The pausing loop: steering.Ask.                                         *)

OpenSession ==
  /\ loop = "opening"
  /\ \/ WriteOpen /\ Succeeds /\ loop' = "asking"
     \/ /\ WriteOpen \/ UNCHANGED storeVars
        /\ \/ Retries /\ UNCHANGED loop
           \/ Exhausted /\ loop' = "failing"
  /\ UNCHANGED <<exec, acted, sessionVars, operatorVars>>

StartSession ==
  /\ loop = "asking"
  /\ loop' = "waiting" /\ session' = "recording"
  /\ UNCHANGED <<storeVars, exec, acted, cancel, wdec, err, mailbox,
                 reminder, attempt, operatorVars>>

\* The child future resolves: the loop resumes with the decision, or fails.
Resume ==
  /\ loop = "waiting"
  /\ \/ session = "done" /\ loop' = "resumed" /\ acted' = wdec
     \/ session = "failed" /\ loop' = "failing" /\ UNCHANGED acted
  /\ UNCHANGED <<storeVars, exec, sessionVars, attempt, operatorVars>>

\* A cancelled loop's Ask returns at once (the child options do not wait for
\* the child's cancellation) and the session is sent a cancellation request.
CancelLoop ==
  /\ loop \in {"opening", "asking", "waiting"}
  /\ loop' = "failing"
  /\ cancel' = SessionOpen
  /\ attempt' = IF SessionOpen THEN attempt ELSE 0
  /\ UNCHANGED <<storeVars, exec, acted, session, wdec, err, mailbox,
                 reminder, operatorVars>>

\* The loop's own workflow closes; a child still open is terminated with it
\* (the default parent close policy), running none of its deferred writes.
CloseLoop ==
  /\ loop = "failing"
  /\ loop' = "closed"
  /\ session' = IF SessionOpen THEN "terminated" ELSE session
  /\ UNCHANGED <<storeVars, exec, acted, cancel, wdec, err, mailbox,
                 reminder, attempt, operatorVars>>

-----------------------------------------------------------------------------
(* The session workflow: steering.SessionWorkflow.                         *)

\* startSessionRecord.  Its failure returns before the deferred settlement is
\* installed.  A cancelled context refuses the activity at once.
RecordStart ==
  /\ session = "recording"
  /\ \/ /\ ~cancel /\ Succeeds
        /\ exec' = [exec EXCEPT !.status = "running"]
        /\ session' = "waiting"
     \/ /\ ~cancel
        /\ exec' \in {exec, [exec EXCEPT !.status = "running"]}
        /\ \/ Retries /\ UNCHANGED session
           \/ Exhausted /\ session' = "failed"
     \/ cancel /\ attempt' = 0 /\ session' = "failed" /\ UNCHANGED exec
  /\ UNCHANGED <<storeVars, loop, acted, cancel, wdec, err, mailbox,
                 reminder, operatorVars>>

\* Mutant of Receive: a refused signal takes the rest of the queue with it.
ReceiveDropsQueue ==
  /\ session = "waiting" /\ mailbox # <<>>
  /\ LET sent == Head(mailbox) IN
       IF Made(sent) /\ ValidateDecision(sent)
         THEN wdec' = sent /\ session' = "tokens"
         ELSE UNCHANGED <<wdec, session>>
  /\ mailbox' = <<>>
  /\ UNCHANGED <<storeVars, exec, loop, acted, cancel, err, reminder,
                 attempt, operatorVars>>

\* One signal is taken.  The zero decision and an invalid one are dropped and
\* the wait goes on; the first valid one wins and the rest of the queue is
\* drained in the same step.  The wait has no cancellation exit: on a cancelled
\* context the timer case fires at once, again and again, and changes nothing.
Receive ==
  /\ session = "waiting" /\ mailbox # <<>>
  /\ LET sent == Head(mailbox) IN
       IF Made(sent) /\ ValidateDecision(sent)
         THEN wdec' = sent /\ mailbox' = <<>> /\ session' = "tokens"
         ELSE mailbox' = Tail(mailbox) /\ UNCHANGED <<wdec, session>>
  /\ UNCHANGED <<storeVars, exec, loop, acted, cancel, err, reminder,
                 attempt, operatorVars>>

Remind ==
  /\ session = "waiting" /\ ~cancel
  /\ reminder < MaxReminders
  /\ reminder' = reminder + 1
  /\ UNCHANGED <<storeVars, exec, loop, acted, session, cancel, wdec, err,
                 mailbox, attempt, operatorVars>>

\* conversationTokens: a read, whose failure returns the zero decision.
ReadTokens ==
  /\ session = "tokens"
  /\ \/ ~cancel /\ Succeeds /\ session' = "settling" /\ UNCHANGED <<wdec, err>>
     \/ ~cancel /\ Retries /\ UNCHANGED <<session, wdec, err>>
     \/ /\ \/ cancel /\ attempt' = 0
           \/ ~cancel /\ Exhausted
        /\ session' = "settling" /\ wdec' = NoDecision /\ err' = "unavailable"
  /\ UNCHANGED <<storeVars, exec, loop, acted, cancel, mailbox, reminder, operatorVars>>

Settlement ==
  [status |-> IF err # "nil" THEN "failed" ELSE "succeeded", decision |-> wdec]

\* finishSessionRecord, on a disconnected context: a failed write is reported
\* and changes nothing else.
FinishRecord ==
  /\ session = "settling"
  /\ \/ Succeeds /\ exec' = Settlement /\ session' = "closing"
     \/ /\ exec' \in {exec, Settlement}
        /\ \/ Retries /\ UNCHANGED session
           \/ Exhausted /\ session' = "closing"
  /\ UNCHANGED <<storeVars, loop, acted, cancel, wdec, err, mailbox,
                 reminder, operatorVars>>

\* closeSession, on a disconnected context, and the workflow's return.
CloseSession ==
  /\ session = "closing"
  /\ LET ended == IF err # "nil" THEN "failed" ELSE "done" IN
       \/ WriteClose(wdec) /\ Succeeds /\ session' = ended
       \/ /\ WriteClose(wdec) \/ UNCHANGED storeVars
          /\ \/ Retries /\ UNCHANGED session
             \/ Exhausted /\ session' = ended
  /\ UNCHANGED <<exec, loop, acted, cancel, wdec, err, mailbox, reminder,
                 operatorVars>>

-----------------------------------------------------------------------------
(* An operator's request: steering.Service.Decide behind the HTTP API.     *)

\* The request ends; what it held on its way is gone with it.
Answer(o, told) ==
  /\ pc' = [pc EXCEPT ![o] = "idle"]
  /\ req' = [req EXCEPT ![o] = NoDecision]
  /\ snap' = [snap EXCEPT ![o] = NoRow]
  /\ got' = [got EXCEPT ![o] = IF told = "ok" THEN @ ELSE NoRow]
  /\ result' = [result EXCEPT ![o] = told]

\* Read the session and validate the decision for its round.  The store may be
\* unavailable, the session unknown or the decision refused.
BeginDecide(o, d) ==
  /\ pc[o] = "idle"
  /\ \/ Answer(o, "error")
     \/ /\ row.state # "none" /\ ValidateDecision(d)
        /\ pc' = [pc EXCEPT ![o] = "record"]
        /\ req' = [req EXCEPT ![o] = d]
        /\ got' = [got EXCEPT ![o] = NoRow]
        /\ result' = [result EXCEPT ![o] = "none"]
        /\ UNCHANGED snap
  /\ UNCHANGED <<storeVars, exec, loop, acted, sessionVars, attempt>>

\* RecordDecision's statement begins: everything it reads, it reads as of now.
SnapshotDecision(o) ==
  /\ pc[o] = "record"
  /\ pc' = [pc EXCEPT ![o] = "update"]
  /\ snap' = [snap EXCEPT ![o] = row]
  /\ UNCHANGED <<storeVars, exec, loop, acted, sessionVars, attempt, req, got, result>>

\* The statement's UPDATE re-checks the current row, under its lock; when it
\* matches nothing the statement answers with the row of its snapshot.
RecordDecision(o) ==
  /\ pc[o] = "update"
  /\ WriteDecision(req[o])
  /\ got' = [got EXCEPT ![o] = IF row.choice = "" THEN row' ELSE snap[o]]
  /\ pc' = [pc EXCEPT ![o] = "signal"]
  /\ UNCHANGED <<exec, loop, acted, sessionVars, attempt, req, snap, result>>

\* The store fails the statement, before or after it took effect.
RecordFails(o) ==
  /\ pc[o] = "update"
  /\ WriteDecision(req[o]) \/ UNCHANGED storeVars
  /\ Answer(o, "error")
  /\ UNCHANGED <<exec, loop, acted, sessionVars, attempt>>

Deliver(d) ==
  /\ SessionOpen /\ Len(mailbox) < MaxSignals
  /\ mailbox' = Append(mailbox, d)

\* Mutant of Signal: the request's own decision is delivered.
SignalOwnDecision(o) ==
  /\ pc[o] = "signal"
  /\ Deliver(req[o])
  /\ Answer(o, "ok")
  /\ UNCHANGED <<storeVars, exec, loop, acted, session, cancel, wdec, err,
                 reminder, attempt>>

\* SignalDecision delivers what RecordDecision returned.
Signal(o) ==
  /\ pc[o] = "signal"
  /\ Deliver(DecisionOf(got[o]))
  /\ Answer(o, "ok")
  /\ UNCHANGED <<storeVars, exec, loop, acted, session, cancel, wdec, err,
                 reminder, attempt>>

\* Temporal is unreachable, its answer is lost, or no such workflow runs.
SignalFails(o) ==
  /\ pc[o] = "signal"
  /\ Deliver(DecisionOf(got[o])) \/ UNCHANGED mailbox
  /\ Answer(o, "error")
  /\ UNCHANGED <<storeVars, exec, loop, acted, session, cancel, wdec, err,
                 reminder, attempt>>

\* The API process dies between two steps of the request.
RequestLost(o) ==
  /\ pc[o] \in {"record", "update", "signal"}
  /\ Answer(o, "none")
  /\ UNCHANGED <<storeVars, exec, loop, acted, sessionVars, attempt>>

\* A decision sent to the workflow around the API.
DirectSignal ==
  /\ \E d \in Direct : Deliver(d)
  /\ UNCHANGED <<storeVars, exec, loop, acted, session, cancel, wdec, err,
                 reminder, attempt, operatorVars>>

Requests(o) == [choice    : Choices \cup {"unknown"},
                guidance  : Texts \cup {NoText, Oversize},
                principal : {o}]

LoopStep    == OpenSession \/ StartSession \/ Resume \/ CloseLoop
SessionStep == RecordStart \/ Receive \/ ReadTokens \/ FinishRecord \/ CloseSession

OperatorStep(o) ==
  \/ \E d \in Requests(o) : BeginDecide(o, d)
  \/ SnapshotDecision(o) \/ RecordDecision(o) \/ RecordFails(o)
  \/ Signal(o) \/ SignalFails(o) \/ RequestLost(o)

Next ==
  \/ LoopStep \/ SessionStep
  \/ CancelLoop \/ Remind \/ DirectSignal
  \/ \E o \in Operators : OperatorStep(o)

Spec == Init /\ [][Next]_vars

\* The Temporal worker keeps running the loop and the session, and the server
\* keeps delivering their activities' results; nothing makes an operator
\* answer, send again, or cancel.
FairSpec == Spec /\ WF_vars(LoopStep) /\ WF_vars(SessionStep)

-----------------------------------------------------------------------------
(* What the pause promises.                                                *)

\* The stores, the workflow's variables and each request hold values of the
\* types the code declares, and no activity outlives its retry policy.
TypeOK ==
  /\ row \in Row
  /\ events \in Seq(Announcements)
  /\ exec \in [status   : {"none", "running", "succeeded", "failed"},
               decision : Decision]
  /\ loop \in {"opening", "asking", "waiting", "resumed", "failing", "closed"}
  /\ acted \in Decision /\ wdec \in Decision
  /\ session \in {"none", "recording", "waiting", "tokens", "settling", "closing",
                  "done", "failed", "terminated"}
  /\ cancel \in BOOLEAN /\ err \in {"nil", "unavailable"}
  /\ mailbox \in Seq(Decision)
  /\ reminder \in 0..MaxReminders
  /\ attempt \in 0..(MaxAttempts - 1)
  /\ pc \in [Operators -> {"idle", "record", "update", "signal"}]
  /\ req \in [Operators -> Decision]
  /\ snap \in [Operators -> Row]
  /\ got \in [Operators -> Row]
  /\ result \in [Operators -> {"none", "ok", "error"}]

\* The shape of the wait: what the session may hold in each of its phases, and
\* what its settlement, its execution row and its loop may have taken from it.
WaitShape ==
  /\ row.choice # "" => row.state = "decided"
  /\ row.state = "abandoned" => err # "nil" /\ session \in {"closing", "failed", "terminated"}
  /\ err # "nil" => session \in {"settling", "closing", "failed", "terminated"}
  /\ loop \in {"opening", "asking"} => session = "none"
  /\ session \in {"none", "recording", "waiting"} => wdec = NoDecision
  /\ Made(wdec) => ValidateDecision(wdec)
  /\ session \in {"tokens", "settling", "closing", "done"} => err # "nil" \/ Made(wdec)
  /\ exec.status = "succeeded" =>
       /\ session \in {"settling", "closing", "done", "terminated"}
       /\ exec.decision = wdec /\ Made(wdec) /\ err = "nil"
  /\ IF loop = "resumed" THEN session = "done" /\ acted = wdec ELSE acted = NoDecision
  /\ \A o \in Operators : pc[o] \in {"record", "update"} => ValidateDecision(req[o])

\* Every signal the session would take and every local copy of a decision is the
\* one the store recorded: the inductive reason for ActsOnRecordedDecision, as
\* long as the round refuses whatever is signalled around the API.
Genuine(d) == ValidateDecision(d) => d = DecisionOf(row)

RefusesDirect == \A d \in Direct : ~ValidateDecision(d)

DecisionsAgree ==
  /\ Genuine(wdec)
  /\ \A i \in 1..Len(mailbox) : Genuine(mailbox[i])
  /\ \A o \in Operators : Genuine(DecisionOf(got[o])) /\ Genuine(DecisionOf(snap[o]))

\* A loop answered through the API acts on the decision the store recorded,
\* whichever request's signal arrived first and however often one was resent.
ActsOnRecordedDecision == loop = "resumed" => acted = DecisionOf(row) /\ Made(acted)

\* The first decision wins: once recorded, no request, settlement or retry
\* changes what was decided, by whom, or with which guidance.
FirstDecisionWins ==
  [][row.choice # "" => DecisionOf(row)' = DecisionOf(row) /\ row'.state = row.state]_vars

\* The session's own execution row, once it reports success, names the decision
\* the steering store holds: the two stores never tell different stories.
HistoryMatchesDecision ==
  exec.status = "succeeded" => Made(exec.decision) /\ exec.decision = DecisionOf(row)

\* A hub reader is told once, and only once, that a session stopped waiting,
\* although both the request and the session's settlement announce it.
DecidedAnnouncedOnce ==
  Cardinality({i \in 1..Len(events) : events[i] = "session-decided"})
    = IF row.state \in {"decided", "abandoned"} THEN 1 ELSE 0

\* A decision an operator was told was delivered ends the wait: the loop
\* resumes, unless it failed or was cancelled in the meantime.
DeliveredDecisionEndsWait ==
  (\E o \in Operators : result[o] = "ok" /\ Made(DecisionOf(got[o])))
    ~> loop \in {"resumed", "failing", "closed"}

\* With signals sent around the API too: a loop resumes only on a decision of
\* its round's own vocabulary, and never from a session recorded as abandoned.
ResumesOnValidDecision ==
  loop = "resumed" => ValidateDecision(acted) /\ row.state # "abandoned"

\* The pause implements its promise: the store's row is the decision, and what
\* Ask returned is what the loop resumed with.
Promise == INSTANCE SteeringPromise
             WITH Valid     <- {d \in Decision : ValidateDecision(d)},
                  Undecided <- NoDecision,
                  decision  <- IF row.choice = "" THEN NoDecision ELSE DecisionOf(row),
                  resumed   <- acted

\* Through the API alone, the distributed pause (two stores, signals that are
\* lost, repeated or late, requests that die half way) behaves as a decision
\* made once and acted on at most once.
KeepsPromise == Promise!Spec

-----------------------------------------------------------------------------
(* Statements of the code's comments that the code does not keep.          *)

\* service.go:44: a second browser tab learns "what was decided".
RepeatLearnsDecision ==
  \A o \in Operators : result[o] = "ok" => Made(DecisionOf(got[o]))

\* workflow.go:130: a session whose loop was cancelled is "recorded as
\* abandoned rather than left asking a question nobody can answer".  It was
\* recorded as waiting, its loop was cancelled, and it ended with its loop.
LoopGoneStopsAsking ==
  loop = "closed" /\ cancel /\ exec.status = "running" /\ session = "terminated" =>
    row.state # "waiting"

=============================================================================
