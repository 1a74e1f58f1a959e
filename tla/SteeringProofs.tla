--------------------------- MODULE SteeringProofs ---------------------------
(***************************************************************************)
(* What Steering and Conversation guarantee for any number of operators,   *)
(* any retry policy, any signal queue and any transcript.                  *)
(***************************************************************************)
EXTENDS Conversation, FiniteSetTheorems, SequenceTheorems, TLAPS

-----------------------------------------------------------------------------
(* Facts about decisions and rows.                                         *)

\* A row's decision is a decision.
LEMMA DecisionOfType ==
  ASSUME NEW r \in Row PROVE DecisionOf(r) \in Decision
BY DEF Row, Decision, DecisionOf, Guidances

\* The zero values belong to their types.
LEMMA ZeroTypes == NoDecision \in Decision /\ NoRow \in Row
BY DEF Decision, Row, NoDecision, NoRow, ChoiceNames, Guidances, Principals

\* The three statements of the store keep the row and the announcements typed.
LEMMA WritesType ==
  ASSUME TypeOK, NEW d \in Decision,
         WriteOpen \/ WriteClose(d) \/ WriteDecision(d) \/ UNCHANGED storeVars
  PROVE  row' \in Row /\ events' \in Seq(Announcements)
<1>1. row \in Row /\ events \in Seq(Announcements)
  BY DEF TypeOK
<1>2. ASSUME NEW e \in Announcements, events' = Append(events, e)
      PROVE  events' \in Seq(Announcements)
  BY <1>1, <1>2, AppendProperties
<1>3. events' \in Seq(Announcements)
  BY <1>1, <1>2 DEF WriteOpen, WriteClose, WriteDecision, storeVars, Announcements
<1>4. CASE WriteOpen
  BY <1>1, <1>3, <1>4 DEF WriteOpen, Row, storeVars
<1> DEFINE guided == IF d.guidance # NoText THEN d.guidance ELSE row.guidance
<1>a. /\ d.choice \in ChoiceNames /\ d.principal \in Principals
      /\ guided \in Guidances /\ d.guidance \in Guidances
      /\ row.choice \in ChoiceNames /\ row.guidance \in Guidances
      /\ row.principal \in Principals
  BY <1>1 DEF Decision, Row
<1>b. ASSUME NEW s \in {"none", "waiting", "decided", "abandoned"},
             NEW c \in ChoiceNames, NEW g \in Guidances, NEW p \in Principals
      PROVE  [state |-> s, choice |-> c, guidance |-> g, principal |-> p] \in Row
  BY DEF Row
<1>5. CASE WriteClose(d)
  <2>1. CASE row.state = "waiting"
    <3> DEFINE s == IF row.choice # "" \/ Made(d) THEN "decided" ELSE "abandoned"
               c == IF row.choice = "" THEN d.choice ELSE row.choice
               g == IF row.choice = "" /\ d.guidance # NoText THEN d.guidance
                                                             ELSE row.guidance
               p == IF row.choice = "" THEN d.principal ELSE row.principal
    <3>1. /\ s \in {"none", "waiting", "decided", "abandoned"}
          /\ c \in ChoiceNames /\ g \in Guidances /\ p \in Principals
      BY <1>a
    <3>2. row' = [state |-> s, choice |-> c, guidance |-> g, principal |-> p]
      BY <1>5, <2>1 DEF WriteClose
    <3> HIDE DEF s, c, g, p
    <3> QED BY <1>b, <1>3, <3>1, <3>2
  <2> QED BY <1>1, <1>5, <2>1 DEF WriteClose, storeVars
<1>6. CASE WriteDecision(d)
  <2>1. CASE row.choice = ""
    <3>1. row' = [state |-> "decided", choice |-> d.choice,
                  guidance |-> guided, principal |-> d.principal]
      BY <1>6, <2>1 DEF WriteDecision
    <3> HIDE DEF guided
    <3> QED BY <1>a, <1>b, <1>3, <3>1
  <2> QED BY <1>1, <1>6, <2>1 DEF WriteDecision, storeVars
<1>7. CASE UNCHANGED storeVars
  BY <1>1, <1>7 DEF storeVars
<1> QED BY <1>4, <1>5, <1>6, <1>7

-----------------------------------------------------------------------------
(* Type correctness.                                                       *)

\* Every variable starts within its type.
LEMMA InitType == Init => TypeOK
<1> SUFFICES ASSUME Init PROVE TypeOK
  OBVIOUS
<1>1. 0 \in 0..MaxReminders /\ 0 \in 0..(MaxAttempts - 1)
  BY SteeringAssumption
<1>2. <<>> \in Seq(Announcements) /\ <<>> \in Seq(Decision)
  BY EmptySeq
<1> QED BY <1>1, <1>2, ZeroTypes DEF Init, TypeOK

\* An attempt's outcome leaves the attempt counter within its policy.
LEMMA AttemptType ==
  ASSUME attempt \in 0..(MaxAttempts - 1), Succeeds \/ Retries \/ Exhausted \/ attempt' = 0
  PROVE  attempt' \in 0..(MaxAttempts - 1)
BY SteeringAssumption DEF Succeeds, Retries, Exhausted

\* The pausing loop's steps, a cancellation included, keep the types.
LEMMA LoopType == ASSUME TypeOK, LoopStep \/ CancelLoop PROVE TypeOK'
<1> USE DEF storeVars, sessionVars, operatorVars
<1>1. CASE OpenSession
  <2>1. row' \in Row /\ events' \in Seq(Announcements)
    BY <1>1, WritesType, ZeroTypes DEF OpenSession
  <2>2. attempt' \in 0..(MaxAttempts - 1)
    BY <1>1, AttemptType DEF OpenSession, TypeOK
  <2> QED BY <1>1, <2>1, <2>2 DEF OpenSession, TypeOK
<1>2. CASE StartSession BY <1>2 DEF StartSession, TypeOK
<1>3. CASE Resume BY <1>3 DEF Resume, TypeOK
<1>4. CASE CancelLoop
  BY <1>4, AttemptType DEF CancelLoop, TypeOK, SessionOpen
<1>5. CASE CloseLoop BY <1>5 DEF CloseLoop, TypeOK
<1> QED BY <1>1, <1>2, <1>3, <1>4, <1>5 DEF LoopStep

\* The session workflow's steps and its reminders keep the types.
LEMMA SessionType == ASSUME TypeOK, SessionStep \/ Remind PROVE TypeOK'
<1> USE DEF storeVars, sessionVars, operatorVars
<1>1. CASE RecordStart
  <2>1. attempt' \in 0..(MaxAttempts - 1)
    BY <1>1, AttemptType DEF RecordStart, TypeOK
  <2> QED BY <1>1, <2>1 DEF RecordStart, TypeOK
<1>2. CASE Receive
  <2>1. Head(mailbox) \in Decision /\ Tail(mailbox) \in Seq(Decision)
    BY <1>2, HeadTailProperties DEF Receive, TypeOK
  <2> QED BY <1>2, <2>1, EmptySeq DEF Receive, TypeOK
<1>3. CASE Remind
  <2>1. reminder' \in 0..MaxReminders
    BY <1>3, SteeringAssumption DEF Remind, TypeOK
  <2> QED BY <1>3, <2>1 DEF Remind, TypeOK
<1>4. CASE ReadTokens
  <2>1. attempt' \in 0..(MaxAttempts - 1)
    BY <1>4, AttemptType DEF ReadTokens, TypeOK
  <2> QED BY <1>4, <2>1, ZeroTypes DEF ReadTokens, TypeOK
<1>5. CASE FinishRecord
  <2>1. attempt' \in 0..(MaxAttempts - 1)
    BY <1>5, AttemptType DEF FinishRecord, TypeOK
  <2> QED BY <1>5, <2>1 DEF FinishRecord, TypeOK, Settlement
<1>6. CASE CloseSession
  <2>1. wdec \in Decision BY DEF TypeOK
  <2>2. row' \in Row /\ events' \in Seq(Announcements)
    BY <1>6, <2>1, WritesType DEF CloseSession
  <2>3. attempt' \in 0..(MaxAttempts - 1)
    BY <1>6, AttemptType DEF CloseSession, TypeOK
  <2> QED BY <1>6, <2>2, <2>3 DEF CloseSession, TypeOK
<1> QED BY <1>1, <1>2, <1>3, <1>4, <1>5, <1>6 DEF SessionStep

\* Ending a request keeps its variables typed.
LEMMA AnswerType ==
  ASSUME TypeOK, NEW o \in Operators,
         NEW told \in {"none", "ok", "error"}, Answer(o, told)
  PROVE  /\ pc' \in [Operators -> {"idle", "record", "update", "signal"}]
         /\ req' \in [Operators -> Decision]
         /\ snap' \in [Operators -> Row] /\ got' \in [Operators -> Row]
         /\ result' \in [Operators -> {"none", "ok", "error"}]
BY ZeroTypes DEF Answer, TypeOK

\* A delivered signal keeps the channel typed.
LEMMA DeliverType ==
  ASSUME TypeOK, NEW d \in Decision, Deliver(d) \/ UNCHANGED mailbox
  PROVE  mailbox' \in Seq(Decision)
<1>1. mailbox \in Seq(Decision) BY DEF TypeOK
<1>2. Append(mailbox, d) \in Seq(Decision) BY <1>1, AppendProperties
<1> QED BY <1>1, <1>2 DEF Deliver

\* The steps of a request, and signals around the API, keep the types.
LEMMA OperatorType ==
  ASSUME TypeOK, NEW o \in Operators, OperatorStep(o) PROVE TypeOK'
<1> USE DEF storeVars, sessionVars, operatorVars
<1>0. /\ DecisionOf(got[o]) \in Decision /\ req[o] \in Decision /\ row \in Row
      /\ snap[o] \in Row
  BY DecisionOfType DEF TypeOK
<1>1. ASSUME NEW d \in Requests(o), BeginDecide(o, d) PROVE TypeOK'
  <2>1. d \in Decision BY <1>1 DEF Requests, Decision, ChoiceNames, Guidances, Principals
  <2>2. CASE Answer(o, "error")
    BY <1>1, <2>2, AnswerType DEF BeginDecide, TypeOK
  <2>3. CASE ~Answer(o, "error")
    <3>1. /\ pc' = [pc EXCEPT ![o] = "record"]
          /\ req' = [req EXCEPT ![o] = d]
          /\ got' = [got EXCEPT ![o] = NoRow]
          /\ result' = [result EXCEPT ![o] = "none"]
          /\ UNCHANGED snap
      BY <1>1, <2>3 DEF BeginDecide
    <3> QED BY <1>1, <2>1, <3>1, ZeroTypes DEF BeginDecide, TypeOK
  <2> QED BY <2>2, <2>3
<1>2. CASE SnapshotDecision(o)
  BY <1>0, <1>2 DEF SnapshotDecision, TypeOK
<1>3. CASE RecordDecision(o)
  <2>1. row' \in Row /\ events' \in Seq(Announcements)
    BY <1>0, <1>3, WritesType DEF RecordDecision
  <2> QED BY <1>0, <1>3, <2>1 DEF RecordDecision, TypeOK
<1>4. CASE RecordFails(o)
  <2>1. row' \in Row /\ events' \in Seq(Announcements)
    BY <1>0, <1>4, WritesType DEF RecordFails
  <2> QED BY <1>4, <2>1, AnswerType DEF RecordFails, TypeOK
<1>5. CASE Signal(o)
  BY <1>0, <1>5, DeliverType, AnswerType DEF Signal, TypeOK
<1>6. CASE SignalFails(o)
  BY <1>0, <1>6, DeliverType, AnswerType DEF SignalFails, TypeOK
<1>7. CASE RequestLost(o)
  BY <1>7, AnswerType DEF RequestLost, TypeOK
<1> QED BY <1>1, <1>2, <1>3, <1>4, <1>5, <1>6, <1>7 DEF OperatorStep

\* Every step keeps the types.
LEMMA NextType == TypeOK /\ [Next]_vars => TypeOK'
<1> SUFFICES ASSUME TypeOK, [Next]_vars PROVE TypeOK'
  OBVIOUS
<1>1. CASE LoopStep \/ CancelLoop BY <1>1, LoopType
<1>2. CASE SessionStep \/ Remind BY <1>2, SessionType
<1>3. CASE DirectSignal
  <2> PICK d \in Direct : Deliver(d) BY <1>3 DEF DirectSignal
  <2>1. mailbox' \in Seq(Decision) BY DeliverType, SteeringAssumption
  <2> QED BY <1>3, <2>1 DEF DirectSignal, TypeOK, storeVars, operatorVars
<1>4. ASSUME NEW o \in Operators, OperatorStep(o) PROVE TypeOK'
  BY <1>4, OperatorType
<1>5. CASE UNCHANGED vars BY <1>5 DEF vars, TypeOK
<1> QED BY <1>1, <1>2, <1>3, <1>4, <1>5 DEF Next

\* The type invariant, for every round, retry policy and set of operators.
THEOREM TypeCorrect == Spec => []TypeOK
<1>1. Init => TypeOK BY InitType
<1>2. TypeOK /\ [Next]_vars => TypeOK' BY NextType
<1> QED BY <1>1, <1>2, PTL DEF Spec

-----------------------------------------------------------------------------
(* The first decision wins.                                                *)

\* No statement of the store touches a row that carries a choice.
LEMMA DecidedRowStands ==
  ASSUME WaitShape, [Next]_vars, row.choice # "" PROVE UNCHANGED row
<1>1. row.state = "decided" BY DEF WaitShape
<1>2. ASSUME NEW d, WriteOpen \/ WriteClose(d) \/ WriteDecision(d) PROVE UNCHANGED row
  BY <1>1, <1>2 DEF WriteOpen, WriteClose, WriteDecision, storeVars
<1>3. CASE LoopStep
  BY <1>2, <1>3 DEF LoopStep, OpenSession, StartSession, Resume, CloseLoop, storeVars
<1>4. CASE SessionStep
  BY <1>2, <1>4 DEF SessionStep, RecordStart, Receive, ReadTokens, FinishRecord,
                    CloseSession, storeVars
<1>5. CASE CancelLoop \/ Remind \/ DirectSignal
  BY <1>5 DEF CancelLoop, Remind, DirectSignal, storeVars
<1>6. ASSUME NEW o \in Operators, OperatorStep(o) PROVE UNCHANGED row
  <2>1. CASE RecordDecision(o) BY <1>2, <2>1 DEF RecordDecision
  <2>2. CASE RecordFails(o) BY <1>2, <2>2 DEF RecordFails, storeVars
  <2> QED BY <1>6, <2>1, <2>2 DEF OperatorStep, BeginDecide, SnapshotDecision, Signal,
                    SignalFails, RequestLost, storeVars
<1>7. CASE UNCHANGED vars BY <1>7 DEF vars
<1> QED BY <1>3, <1>4, <1>5, <1>6, <1>7 DEF Next

\* What a settlement can do to the row, by case.
LEMMA CloseEffect ==
  ASSUME NEW d, WriteClose(d)
  PROVE  \/ UNCHANGED row
         \/ row'.state = "decided" /\ row.state = "waiting" /\ (row.choice # "" \/ Made(d))
         \/ row'.state = "abandoned" /\ row'.choice = "" /\ row.choice = "" /\ ~Made(d)
<1>1. CASE row.state = "waiting"
  <2>1. row' = [state     |-> IF row.choice # "" \/ Made(d) THEN "decided" ELSE "abandoned",
                choice    |-> IF row.choice = "" THEN d.choice ELSE row.choice,
                guidance  |-> IF row.choice = "" /\ d.guidance # NoText
                                THEN d.guidance ELSE row.guidance,
                principal |-> IF row.choice = "" THEN d.principal ELSE row.principal]
    BY <1>1 DEF WriteClose
  <2> QED BY <1>1, <2>1 DEF Made
<1> QED BY <1>1 DEF WriteClose, storeVars

\* What recording a decision does to a row that carries none.
LEMMA RecordEffect ==
  ASSUME NEW d, WriteDecision(d), row.choice = "", ValidateDecision(d)
  PROVE  row'.state = "decided" /\ row'.choice = d.choice /\ DecisionOf(row)' =
           [choice |-> d.choice, guidance |-> d.guidance, principal |-> d.principal]
<1>1. row' = [state     |-> "decided",
              choice    |-> d.choice,
              guidance  |-> IF d.guidance # NoText THEN d.guidance ELSE row.guidance,
              principal |-> d.principal]
  BY DEF WriteDecision
<1>2. CASE d.choice = "guide"
  <2>1. d.guidance # NoText BY <1>2, SteeringAssumption DEF ValidateDecision, Validate
  <2> QED BY <1>1, <1>2, <2>1 DEF DecisionOf
<1>3. CASE d.choice # "guide"
  <2>1. d.guidance = NoText BY <1>3 DEF ValidateDecision, Validate
  <2> QED BY <1>1, <1>3, <2>1 DEF DecisionOf
<1> QED BY <1>2, <1>3

-----------------------------------------------------------------------------
(* The shape of the wait is inductive.                                     *)

\* Before the pause opens there is nothing to hold.
LEMMA InitShape == Init => WaitShape
<1> SUFFICES ASSUME Init PROVE WaitShape
  OBVIOUS
<1>1. row.choice = "" /\ row.state = "none" BY DEF Init, NoRow
<1>2. ~Made(wdec) BY DEF Init, NoDecision, Made
<1>3. exec.status = "none" BY DEF Init
<1>4. \A o \in Operators : pc[o] = "idle" BY DEF Init
<1> QED BY <1>1, <1>2, <1>3, <1>4 DEF Init, WaitShape

\* The pausing loop's steps keep the shape of the wait.
LEMMA LoopShape ==
  ASSUME TypeOK, WaitShape, LoopStep \/ CancelLoop PROVE WaitShape'
<1> USE DEF storeVars, sessionVars, operatorVars
<1>1. CASE OpenSession
  <2>1. /\ row' = row \/ (row.state = "none" /\ row' = [row EXCEPT !.state = "waiting"])
        /\ loop' # "resumed" /\ loop = "opening"
        /\ UNCHANGED <<exec, acted, session, wdec, err, pc, req>>
    BY <1>1 DEF OpenSession, WriteOpen
  <2>2. (row'.choice = row.choice) /\ (row'.state = "abandoned" => row.state = "abandoned")
        /\ (row.state = "decided" => row'.state = "decided")
    BY <2>1 DEF TypeOK, Row
  <2> QED BY <2>1, <2>2 DEF WaitShape, Made, ValidateDecision, Validate
<1>2. CASE StartSession
  BY <1>2 DEF StartSession, WaitShape, Made, ValidateDecision, Validate
<1>3. CASE Resume
  BY <1>3 DEF Resume, WaitShape, Made, ValidateDecision, Validate
<1>4. CASE CancelLoop
  BY <1>4 DEF CancelLoop, WaitShape, Made, ValidateDecision, Validate
<1>5. CASE CloseLoop
  BY <1>5 DEF CloseLoop, SessionOpen, WaitShape, Made, ValidateDecision, Validate
<1> QED BY <1>1, <1>2, <1>3, <1>4, <1>5 DEF LoopStep

\* The session workflow's steps keep the shape of the wait.
LEMMA SessionShape ==
  ASSUME TypeOK, WaitShape, SessionStep \/ Remind PROVE WaitShape'
<1> USE DEF storeVars, sessionVars, operatorVars
<1>1. CASE RecordStart
  <2>1. exec'.status = exec.status \/ exec'.status = "running"
    BY <1>1 DEF RecordStart, TypeOK
  <2>2. exec.status # "succeeded" BY <1>1 DEF RecordStart, WaitShape
  <2>3. /\ session = "recording" /\ session' \in {"recording", "waiting", "failed"}
        /\ UNCHANGED <<row, err, wdec, acted, loop, pc, req>>
    BY <1>1 DEF RecordStart
  <2> QED BY <2>1, <2>2, <2>3 DEF WaitShape, Made, ValidateDecision, Validate
<1>2. CASE Receive
  BY <1>2 DEF Receive, WaitShape, Made, ValidateDecision, Validate
<1>3. CASE Remind
  BY <1>3 DEF Remind, WaitShape, Made, ValidateDecision, Validate
<1>4. CASE ReadTokens
  <2>1. ~Made(NoDecision) BY DEF NoDecision, Made
  <2>2. /\ session = "tokens" /\ session' \in {"tokens", "settling"}
        /\ \/ UNCHANGED <<wdec, err>>
           \/ wdec' = NoDecision /\ err' # "nil" /\ session' = "settling"
        /\ UNCHANGED <<row, exec, acted, loop, pc, req>>
    BY <1>4 DEF ReadTokens
  <2>3. exec.status # "succeeded" /\ loop # "resumed" BY <2>2 DEF WaitShape
  <2>4. CASE UNCHANGED <<wdec, err>>
    BY <2>2, <2>3, <2>4 DEF WaitShape, Made, ValidateDecision, Validate
  <2>5. CASE wdec' = NoDecision /\ err' # "nil" /\ session' = "settling"
    BY <2>1, <2>2, <2>3, <2>5 DEF WaitShape, Made, ValidateDecision, Validate
  <2> QED BY <2>2, <2>4, <2>5
<1>5. CASE FinishRecord
  <2>1. /\ session = "settling" /\ session' \in {"settling", "closing"}
        /\ exec' = exec \/ exec' = Settlement
        /\ UNCHANGED <<row, err, wdec, acted, loop, pc, req>>
    BY <1>5 DEF FinishRecord
  <2>a. Settlement.decision = wdec /\ (Settlement.status = "succeeded" => err = "nil")
    BY DEF Settlement
  <2>b. err = "nil" => Made(wdec) BY <2>1 DEF WaitShape
  <2>c. exec.status = "succeeded" => exec.decision = wdec /\ Made(wdec) /\ err = "nil"
    BY DEF WaitShape
  <2>2. exec'.status = "succeeded" => exec'.decision = wdec /\ Made(wdec) /\ err = "nil"
    BY <2>1, <2>a, <2>b, <2>c
  <2> QED BY <2>1, <2>2 DEF WaitShape, Made, ValidateDecision, Validate
<1>6. CASE CloseSession
  <2>1. /\ session = "closing"
        /\ \/ session' = "closing"
           \/ err # "nil" /\ session' = "failed"
           \/ err = "nil" /\ session' = "done"
        /\ UNCHANGED <<exec, err, wdec, acted, loop, pc, req>>
    BY <1>6 DEF CloseSession
  <2>2. WriteClose(wdec) \/ UNCHANGED row
    BY <1>6 DEF CloseSession
  <2>a. \/ UNCHANGED row
        \/ row'.state = "decided"
        \/ row'.choice = "" /\ ~Made(wdec) /\ row'.state = "abandoned"
    BY <2>2, CloseEffect
  <2>b. row.choice # "" => row.state = "decided" BY DEF WaitShape
  <2>c. row.state = "abandoned" => err # "nil" BY DEF WaitShape
  <2>d. Made(wdec) \/ err # "nil" BY <2>1 DEF WaitShape
  <2>3. row'.choice # "" => row'.state = "decided"
    BY <2>a, <2>b DEF Made
  <2>4. row'.state = "abandoned" => err # "nil"
    BY <2>a, <2>c, <2>d
  <2> QED BY <2>1, <2>3, <2>4 DEF WaitShape, Made, ValidateDecision, Validate
<1> QED BY <1>1, <1>2, <1>3, <1>4, <1>5, <1>6 DEF SessionStep

\* Ending a request leaves every other request as it was.
LEMMA AnswerShape ==
  ASSUME TypeOK, NEW o \in Operators, NEW told, Answer(o, told)
  PROVE  /\ \A p \in Operators : pc'[p] \in {"record", "update"} =>
              p # o /\ pc'[p] = pc[p] /\ req'[p] = req[p]
         /\ \A p \in Operators : p # o => pc'[p] = pc[p] /\ req'[p] = req[p]
         /\ pc'[o] = "idle"
BY DEF Answer, TypeOK

\* The steps of a request, and signals around the API, keep the shape.
LEMMA OperatorShape ==
  ASSUME TypeOK, WaitShape, NEW o \in Operators, OperatorStep(o) PROVE WaitShape'
<1> USE DEF storeVars, sessionVars, operatorVars
<1> DEFINE ReqShape ==
      \A p \in Operators : pc[p] \in {"record", "update"} => ValidateDecision(req[p])
<1>a. ReqShape BY DEF WaitShape
\* The part of the shape a request leaves alone.
<1>b. ASSUME UNCHANGED <<exec, loop, acted, session, wdec, err>>, ReqShape',
             row'.choice # "" => row'.state = "decided",
             row'.state = "abandoned" => row.state = "abandoned"
      PROVE  WaitShape'
  BY <1>b DEF WaitShape, ValidateDecision, Validate, Made
<1>c. ASSUME NEW told, Answer(o, told) PROVE ReqShape'
  BY <1>a, <1>c, AnswerShape DEF ValidateDecision, Validate
<1>d. row.choice # "" => row.state = "decided" BY DEF WaitShape
<1>e. ASSUME WriteDecision(req[o]), pc[o] = "update"
      PROVE  /\ row'.choice # "" => row'.state = "decided"
             /\ row'.state = "abandoned" => row.state = "abandoned"
  <2>1. ValidateDecision(req[o]) BY <1>a, <1>e
  <2>2. CASE row.choice = "" BY <1>e, <2>1, <2>2, RecordEffect
  <2>3. CASE row.choice # "" BY <1>d, <1>e, <2>3 DEF WriteDecision
  <2> QED BY <2>2, <2>3
<1> HIDE DEF ReqShape
<1>1. ASSUME NEW d \in Requests(o), BeginDecide(o, d) PROVE WaitShape'
  <2>1. CASE Answer(o, "error")
    BY <1>1, <1>b, <1>c, <1>d, <2>1 DEF BeginDecide
  <2>2. CASE ~Answer(o, "error")
    <3>1. /\ pc' = [pc EXCEPT ![o] = "record"] /\ req' = [req EXCEPT ![o] = d]
          /\ ValidateDecision(d)
      BY <1>1, <2>2 DEF BeginDecide
    <3>2. ReqShape'
      BY <1>a, <3>1 DEF TypeOK, ReqShape, ValidateDecision, Validate
    <3> QED BY <1>1, <1>b, <1>d, <3>2 DEF BeginDecide
  <2> QED BY <2>1, <2>2
<1>2. CASE SnapshotDecision(o)
  <2>1. ReqShape'
    BY <1>2, <1>a DEF SnapshotDecision, TypeOK, ReqShape, ValidateDecision, Validate
  <2> QED BY <1>2, <1>b, <1>d, <2>1 DEF SnapshotDecision
<1>3. CASE RecordDecision(o)
  <2>1. ReqShape'
    BY <1>3, <1>a DEF RecordDecision, TypeOK, ReqShape, ValidateDecision, Validate
  <2> QED BY <1>3, <1>b, <1>e, <2>1 DEF RecordDecision
<1>4. CASE RecordFails(o)
  BY <1>4, <1>b, <1>c, <1>d, <1>e DEF RecordFails
<1>5. CASE Signal(o) BY <1>5, <1>b, <1>c, <1>d DEF Signal
<1>6. CASE SignalFails(o) BY <1>6, <1>b, <1>c, <1>d DEF SignalFails
<1>7. CASE RequestLost(o) BY <1>7, <1>b, <1>c, <1>d DEF RequestLost
<1> QED BY <1>1, <1>2, <1>3, <1>4, <1>5, <1>6, <1>7 DEF OperatorStep

\* Every step keeps the shape of the wait.
LEMMA NextShape == TypeOK /\ WaitShape /\ [Next]_vars => WaitShape'
<1> SUFFICES ASSUME TypeOK, WaitShape, [Next]_vars PROVE WaitShape'
  OBVIOUS
<1>1. CASE LoopStep \/ CancelLoop BY <1>1, LoopShape
<1>2. CASE SessionStep \/ Remind BY <1>2, SessionShape
<1>3. CASE DirectSignal
  BY <1>3 DEF DirectSignal, WaitShape, storeVars, operatorVars, Made, ValidateDecision,
              Validate
<1>4. ASSUME NEW o \in Operators, OperatorStep(o) PROVE WaitShape'
  BY <1>4, OperatorShape
<1>5. CASE UNCHANGED vars BY <1>5 DEF vars, WaitShape, Made, ValidateDecision, Validate
<1> QED BY <1>1, <1>2, <1>3, <1>4, <1>5 DEF Next

\* The shape of the wait, whatever is signalled around the API.
THEOREM ShapeHolds == Spec => [](TypeOK /\ WaitShape)
<1>1. Init => TypeOK /\ WaitShape BY InitType, InitShape
<1>2. TypeOK /\ WaitShape /\ [Next]_vars => (TypeOK /\ WaitShape)'
  BY NextType, NextShape
<1> QED BY <1>1, <1>2, PTL DEF Spec

\* The first decision wins, signals around the API included.
THEOREM FirstDecisionStands == Spec => FirstDecisionWins
<1>1. WaitShape /\ [Next]_vars =>
        [row.choice # "" => DecisionOf(row)' = DecisionOf(row) /\ row'.state = row.state]_vars
  BY DecidedRowStands DEF DecisionOf
<1> QED BY <1>1, ShapeHolds, PTL DEF Spec, FirstDecisionWins

\* A loop resumes only on a decision of its round's vocabulary, and never from
\* a session recorded as abandoned, signals around the API included.
THEOREM ResumesValid == Spec => []ResumesOnValidDecision
<1>1. WaitShape => ResumesOnValidDecision
  <2> SUFFICES ASSUME WaitShape, loop = "resumed"
               PROVE  ValidateDecision(acted) /\ row.state # "abandoned"
    BY DEF ResumesOnValidDecision
  <2>1. session = "done" /\ acted = wdec /\ err = "nil" BY DEF WaitShape
  <2> QED BY <2>1 DEF WaitShape
<1> QED BY <1>1, ShapeHolds, PTL

-----------------------------------------------------------------------------
(* Every copy of a decision the round accepts is the recorded one.         *)

\* No round accepts the zero decision.
LEMMA NeverValid ==
  ~ValidateDecision(NoDecision) /\ ~ValidateDecision(DecisionOf(NoRow))
BY DEF NoDecision, NoRow, DecisionOf, ValidateDecision, Validate, Choices

\* At the start no copy of a decision exists.
LEMMA InitAgree == Init => DecisionsAgree
<1> SUFFICES ASSUME Init PROVE DecisionsAgree
  OBVIOUS
<1>1. ~ValidateDecision(wdec) BY NeverValid DEF Init
<1>2. Len(mailbox) = 0 BY EmptySeq DEF Init
<1>3. \A o \in Operators : /\ ~ValidateDecision(DecisionOf(got[o]))
                            /\ ~ValidateDecision(DecisionOf(snap[o]))
  BY NeverValid DEF Init
<1> QED BY <1>1, <1>2, <1>3 DEF DecisionsAgree, Genuine

\* What agrees with the row goes on agreeing with it.
LEMMA GenuineStays ==
  ASSUME WaitShape, [Next]_vars, NEW d, Genuine(d)
  PROVE  ValidateDecision(d) => d = DecisionOf(row)'
<1> SUFFICES ASSUME ValidateDecision(d) PROVE d = DecisionOf(row)'
  OBVIOUS
<1>1. d = DecisionOf(row) BY DEF Genuine
<1>2. d.choice # "" BY DEF ValidateDecision, Validate, Choices
<1>3. row.choice # "" BY <1>1, <1>2 DEF DecisionOf
<1> QED BY <1>1, <1>3, DecidedRowStands DEF DecisionOf

\* A row agrees with itself.
LEMMA RowGenuine == Genuine(DecisionOf(row))
BY DEF Genuine

\* With no signal around the API that the round accepts, no step makes a copy
\* disagree with the store.
LEMMA NextAgree ==
  ASSUME RefusesDirect, TypeOK, WaitShape, DecisionsAgree, [Next]_vars
  PROVE  DecisionsAgree'
<1> DEFINE Good(d) == ValidateDecision(d) => d = DecisionOf(row)'
<1>a. Good(wdec) BY GenuineStays DEF DecisionsAgree
<1>b. \A i \in 1..Len(mailbox) : Good(mailbox[i]) BY GenuineStays DEF DecisionsAgree
<1>c. \A o \in Operators : Good(DecisionOf(got[o])) /\ Good(DecisionOf(snap[o]))
  BY GenuineStays DEF DecisionsAgree
<1>d. Good(DecisionOf(row)) BY GenuineStays, RowGenuine
<1>e. ~ValidateDecision(NoDecision) /\ ~ValidateDecision(DecisionOf(NoRow))
  BY NeverValid
<1>f. mailbox \in Seq(Decision) BY DEF TypeOK
<1>g. SUFFICES /\ Good(wdec')
               /\ \A i \in 1..Len(mailbox') : Good(mailbox'[i])
               /\ \A o \in Operators : Good(DecisionOf(got'[o])) /\ Good(DecisionOf(snap'[o]))
  BY DEF DecisionsAgree, Genuine, ValidateDecision, Validate, DecisionOf
<1> HIDE DEF Good
<1>1. Good(wdec')
  <2>1. CASE Receive
    <3>1. mailbox # <<>> /\ (wdec' = Head(mailbox) \/ wdec' = wdec) BY <2>1 DEF Receive
    <3>2. Head(mailbox) = mailbox[1] /\ 1 \in 1..Len(mailbox)
      BY <1>f, <3>1, HeadTailProperties
    <3> QED BY <1>a, <1>b, <3>1, <3>2
  <2>2. CASE ReadTokens
    <3>1. wdec' = wdec \/ wdec' = NoDecision BY <2>2 DEF ReadTokens
    <3> QED BY <1>a, <1>e, <3>1 DEF Good
  <2>3. CASE ~Receive /\ ~ReadTokens
    <3>1. UNCHANGED wdec
      BY <2>3 DEF Next, LoopStep, SessionStep, OperatorStep, OpenSession, StartSession,
           Resume, CancelLoop, CloseLoop, RecordStart, Remind, FinishRecord, CloseSession,
           BeginDecide, SnapshotDecision, RecordDecision, RecordFails, Signal, SignalFails,
           RequestLost, DirectSignal, sessionVars, vars
    <3> QED BY <1>a, <3>1
  <2> QED BY <2>1, <2>2, <2>3
<1>2. \A i \in 1..Len(mailbox') : Good(mailbox'[i])
  <2>a. ASSUME UNCHANGED mailbox PROVE \A i \in 1..Len(mailbox') : Good(mailbox'[i])
    BY <1>b, <2>a
  <2>b. ASSUME NEW d, Deliver(d), Good(d) PROVE \A i \in 1..Len(mailbox') : Good(mailbox'[i])
    <3>1. mailbox' = Append(mailbox, d) BY <2>b DEF Deliver
    <3> QED BY <1>b, <1>f, <2>b, <3>1, AppendProperties
  <2>1. CASE Receive
    <3>1. mailbox # <<>> /\ (mailbox' = <<>> \/ mailbox' = Tail(mailbox))
      BY <2>1 DEF Receive
    <3>2. CASE mailbox' = <<>> BY <3>2, EmptySeq
    <3>3. CASE mailbox' = Tail(mailbox)
      <4>1. /\ Len(Tail(mailbox)) = Len(mailbox) - 1
            /\ \A i \in 1..Len(Tail(mailbox)) : Tail(mailbox)[i] = mailbox[i + 1]
        BY <1>f, <3>1, HeadTailProperties
      <4>2. Len(mailbox) \in Nat BY <1>f, LenProperties
      <4> QED BY <1>b, <3>3, <4>1, <4>2
    <3> QED BY <3>1, <3>2, <3>3
  <2>2. ASSUME NEW o \in Operators, Signal(o) \/ SignalFails(o)
        PROVE  \A i \in 1..Len(mailbox') : Good(mailbox'[i])
    BY <1>c, <2>2, <2>a, <2>b DEF Signal, SignalFails
  <2>d. CASE DirectSignal
    <3> PICK d \in Direct : Deliver(d) BY <2>d DEF DirectSignal
    <3>1. Good(d) BY DEF RefusesDirect, Good
    <3> QED BY <2>b, <3>1
  <2>3. CASE ~Receive /\ ~DirectSignal /\ \A o \in Operators : ~Signal(o) /\ ~SignalFails(o)
    <3>1. UNCHANGED mailbox
      BY <2>3 DEF Next, LoopStep, SessionStep, OperatorStep, OpenSession, StartSession,
           Resume, CancelLoop, CloseLoop, RecordStart, Remind, FinishRecord, CloseSession,
           BeginDecide, SnapshotDecision, RecordDecision, RecordFails, ReadTokens,
           RequestLost, sessionVars, vars
    <3> QED BY <2>a, <3>1
  <2> QED BY <2>1, <2>2, <2>d, <2>3
<1>3. \A o \in Operators : Good(DecisionOf(got'[o])) /\ Good(DecisionOf(snap'[o]))
  <2>a. ASSUME NEW o \in Operators, NEW told, Answer(o, told)
        PROVE  \A p \in Operators : /\ got'[p] \in {got[p], NoRow}
                                    /\ snap'[p] \in {snap[p], NoRow}
    BY <2>a DEF Answer, TypeOK
  <2>b. Good(DecisionOf(NoRow)) BY <1>e DEF Good
  <2>c. ASSUME NEW o \in Operators, NEW told, Answer(o, told)
        PROVE  \A p \in Operators : Good(DecisionOf(got'[p])) /\ Good(DecisionOf(snap'[p]))
    BY <1>c, <2>a, <2>b, <2>c
  <2>1. ASSUME NEW o \in Operators, OperatorStep(o)
        PROVE  \A p \in Operators : Good(DecisionOf(got'[p])) /\ Good(DecisionOf(snap'[p]))
    <3>1. ASSUME NEW d \in Requests(o), BeginDecide(o, d)
          PROVE  \A p \in Operators : Good(DecisionOf(got'[p])) /\ Good(DecisionOf(snap'[p]))
      <4>1. CASE Answer(o, "error") BY <2>c, <4>1
      <4>2. CASE ~Answer(o, "error")
        <5>1. got' = [got EXCEPT ![o] = NoRow] /\ UNCHANGED snap
          BY <3>1, <4>2 DEF BeginDecide
        <5>2. \A p \in Operators : got'[p] \in {got[p], NoRow} /\ snap'[p] = snap[p]
          BY <5>1 DEF TypeOK
        <5> QED BY <1>c, <2>b, <5>2
      <4> QED BY <4>1, <4>2
    <3>2. CASE SnapshotDecision(o)
      <4>1. \A p \in Operators : got'[p] = got[p] /\ snap'[p] \in {snap[p], row}
        BY <3>2 DEF SnapshotDecision, TypeOK
      <4> QED BY <1>c, <1>d, <4>1
    <3>3. CASE RecordDecision(o)
      <4>1. \A p \in Operators : got'[p] \in {got[p], snap[p], row'} /\ snap'[p] = snap[p]
        BY <3>3 DEF RecordDecision, TypeOK
      <4>2. Good(DecisionOf(row')) BY DEF Good, DecisionOf
      <4> QED BY <1>c, <4>1, <4>2
    <3>4. CASE RecordFails(o) \/ Signal(o) \/ SignalFails(o) \/ RequestLost(o)
      BY <2>c, <3>4 DEF RecordFails, Signal, SignalFails, RequestLost
    <3> QED BY <2>1, <3>1, <3>2, <3>3, <3>4 DEF OperatorStep
  <2>2. CASE \A o \in Operators : ~OperatorStep(o)
    <3>1. UNCHANGED <<got, snap>>
      BY <2>2 DEF Next, LoopStep, SessionStep, OpenSession, StartSession,
           Resume, CancelLoop, CloseLoop, RecordStart, Receive, Remind, FinishRecord,
           CloseSession, ReadTokens, DirectSignal, operatorVars, vars
    <3> QED BY <1>c, <3>1
  <2> QED BY <2>1, <2>2
<1> QED BY <1>1, <1>2, <1>3

\* The inductive invariant of a pause the API alone can answer.
THEOREM AgreementHolds ==
  ASSUME RefusesDirect PROVE Spec => [](TypeOK /\ WaitShape /\ DecisionsAgree)
<1>1. Init => DecisionsAgree BY InitAgree
<1>2. TypeOK /\ WaitShape /\ DecisionsAgree /\ [Next]_vars => DecisionsAgree'
  BY NextAgree
<1> QED BY <1>1, <1>2, ShapeHolds, PTL DEF Spec

\* A loop answered through the API acts on the decision the store recorded.
THEOREM ActsOnRecorded == ASSUME RefusesDirect PROVE Spec => []ActsOnRecordedDecision
<1>1. WaitShape /\ DecisionsAgree => ActsOnRecordedDecision
  <2> SUFFICES ASSUME WaitShape, DecisionsAgree, loop = "resumed"
               PROVE  acted = DecisionOf(row) /\ Made(acted)
    BY DEF ActsOnRecordedDecision
  <2>1. acted = wdec /\ Made(wdec) BY DEF WaitShape
  <2> QED BY <2>1 DEF DecisionsAgree, Genuine, WaitShape
<1> QED BY <1>1, AgreementHolds, PTL

\* The execution record never tells another story than the steering store.
THEOREM HistoryMatches == ASSUME RefusesDirect PROVE Spec => []HistoryMatchesDecision
<1>1. WaitShape /\ DecisionsAgree => HistoryMatchesDecision
  <2> SUFFICES ASSUME WaitShape, DecisionsAgree, exec.status = "succeeded"
               PROVE  Made(exec.decision) /\ exec.decision = DecisionOf(row)
    BY DEF HistoryMatchesDecision
  <2>1. exec.decision = wdec /\ Made(wdec) BY DEF WaitShape
  <2> QED BY <2>1 DEF DecisionsAgree, Genuine, WaitShape
<1> QED BY <1>1, AgreementHolds, PTL

-----------------------------------------------------------------------------
(* The end of the wait is announced once.                                  *)

DecidedEvents(s) == {i \in 1..Len(s) : s[i] = "session-decided"}

\* A statement announces the end of the wait only as it takes the row out of
\* waiting, and the session comes to settle only what is already decided: its
\* own settlement finds the row decided and says nothing.
SaidOnce ==
  /\ row.choice # "" <=> row.state = "decided"
  /\ row.state # "abandoned"
  /\ session \in {"tokens", "settling", "closing"} => row.choice # ""
  /\ \A o \in Operators : pc[o] \in {"record", "update"} => row.state # "none"
  /\ DecidedAnnouncedOnce

\* One more announcement is one more to count, if it is of a decision.
LEMMA AnnouncementCounts ==
  ASSUME NEW s \in Seq(Announcements), NEW e \in Announcements
  PROVE  /\ Cardinality(DecidedEvents(s)) \in Nat
         /\ Cardinality(DecidedEvents(Append(s, e))) =
              Cardinality(DecidedEvents(s)) + IF e = "session-decided" THEN 1 ELSE 0
<1> DEFINE more == Append(s, e)
           n == Len(s) + 1
<1>1. Len(s) \in Nat
  BY LenProperties
<1>2. /\ Len(more) = n /\ more[n] = e
      /\ \A i \in 1..Len(s) : more[i] = s[i]
  BY AppendProperties
<1>3. IsFiniteSet(DecidedEvents(s)) /\ n \notin DecidedEvents(s)
  <2>1. DecidedEvents(s) \subseteq 1..Len(s) /\ IsFiniteSet(1..Len(s))
    BY <1>1, FS_Interval DEF DecidedEvents
  <2>2. n \notin DecidedEvents(s)
    BY <1>1 DEF DecidedEvents
  <2> QED BY <2>1, <2>2, FS_Subset
<1>4. Cardinality(DecidedEvents(s)) \in Nat
  BY <1>3, FS_CardinalityType
<1> HIDE DEF more
<1>5. DecidedEvents(more) = DecidedEvents(s) \cup (IF e = "session-decided" THEN {n} ELSE {})
  BY <1>1, <1>2 DEF DecidedEvents
<1>6. CASE e = "session-decided"
  <2>1. DecidedEvents(more) = DecidedEvents(s) \cup {n}
    BY <1>5, <1>6
  <2>2. Cardinality(DecidedEvents(more)) = Cardinality(DecidedEvents(s)) + 1
    BY <1>3, <2>1, FS_AddElement
  <2> QED BY <1>4, <1>6, <2>2 DEF more
<1>7. CASE e # "session-decided"
  BY <1>4, <1>5, <1>7 DEF more
<1> QED BY <1>6, <1>7

\* The writes the store sees: a session settles only what is decided, and a
\* request records a decision of the round for a session it has read.
Write(d) ==
  \/ WriteOpen
  \/ WriteClose(d) /\ row.choice # ""
  \/ WriteDecision(d) /\ ValidateDecision(d) /\ row.state # "none"
  \/ UNCHANGED storeVars

\* The three statements of the store, on a row that is not abandoned: each
\* announces what it does to the row, and a decided row is left alone.
LEMMA WriteSaysOnce ==
  ASSUME TypeOK, SaidOnce, NEW d, Write(d)
  PROVE  /\ row'.choice # "" <=> row'.state = "decided"
         /\ row'.state \notin {"abandoned"}
         /\ row.choice # "" => row'.choice # ""
         /\ row.state # "none" => row'.state # "none"
         /\ DecidedAnnouncedOnce'
<1> USE DEF storeVars
<1> DEFINE said == Cardinality(DecidedEvents(events))
<1>1. /\ row \in Row /\ events \in Seq(Announcements)
      /\ "session-waiting" \in Announcements /\ "session-decided" \in Announcements
  BY DEF TypeOK, Announcements
<1>2. said =
        IF row.state \in {"decided", "abandoned"} THEN 1 ELSE 0
  BY DEF SaidOnce, DecidedAnnouncedOnce, DecidedEvents
<1>3. ASSUME said' =
               IF row'.state \in {"decided", "abandoned"} THEN 1 ELSE 0
      PROVE  DecidedAnnouncedOnce'
  BY <1>3 DEF DecidedAnnouncedOnce, DecidedEvents
<1>a. ASSUME NEW e \in Announcements, events' = Append(events, e)
      PROVE  said' = said + IF e = "session-decided" THEN 1 ELSE 0
  BY <1>1, <1>a, AnnouncementCounts
<1> HIDE DEF said
<1>4. row.state \in {"none", "waiting", "decided"} /\ (row.choice # "" <=> row.state = "decided")
  BY <1>1 DEF SaidOnce, Row
<1>5. CASE UNCHANGED storeVars
  BY <1>4, <1>5 DEF SaidOnce, DecidedAnnouncedOnce
<1>6. CASE WriteOpen /\ row.state = "none"
  <2>1. row' = [row EXCEPT !.state = "waiting"] /\ events' = Append(events, "session-waiting")
    BY <1>6 DEF WriteOpen
  <2>2. row'.state = "waiting" /\ row'.choice = row.choice
    BY <1>1, <2>1 DEF Row
  <2>3. said' = said + 0
    BY <1>1, <1>a, <2>1
  <2>4. DecidedAnnouncedOnce'
    BY <1>2, <1>3, <1>6, <2>2, <2>3
  <2> QED BY <1>4, <1>6, <2>2, <2>4
<1>7. CASE WriteDecision(d) /\ ValidateDecision(d) /\ row.state # "none" /\ row.choice = ""
  <2>1. row'.state = "decided" /\ row'.choice = d.choice
    BY <1>7, RecordEffect
  <2>2. row.state = "waiting" /\ d.choice # ""
    BY <1>4, <1>7 DEF ValidateDecision, Validate, Choices
  <2>3. events' = Append(events, "session-decided")
    BY <1>7 DEF WriteDecision
  <2>4. said' = said + 1
    BY <1>1, <1>a, <2>3
  <2>5. DecidedAnnouncedOnce'
    <3>1. said = 0
      BY <1>2, <2>2
    <3>2. said' = 1
      BY <2>4, <3>1
    <3> QED BY <1>3, <2>1, <3>2
  <2> QED BY <1>7, <2>1, <2>2, <2>5
<1>8. CASE \/ WriteOpen /\ row.state # "none"
           \/ WriteClose(d) /\ row.choice # ""
           \/ WriteDecision(d) /\ row.choice # ""
  <2>1. UNCHANGED storeVars
    BY <1>4, <1>8 DEF WriteOpen, WriteClose, WriteDecision
  <2> QED BY <1>5, <2>1
<1> QED BY <1>5, <1>6, <1>7, <1>8 DEF Write

\* Nothing is said before the pause opens.
LEMMA InitSaid == Init => SaidOnce
<1> SUFFICES ASSUME Init PROVE SaidOnce
  OBVIOUS
<1>1. row.choice = "" /\ row.state = "none" /\ session = "none" /\ events = <<>>
      /\ \A o \in Operators : pc[o] = "idle"
  BY DEF Init, NoRow
<1>2. {i \in 1..Len(events) : events[i] = "session-decided"} = {}
  <2>1. Len(events) = 0
    BY <1>1
  <2> QED BY <2>1
<1>3. Cardinality({i \in 1..Len(events) : events[i] = "session-decided"}) = 0
  BY <1>2, FS_EmptySet
<1> QED BY <1>1, <1>3 DEF SaidOnce, DecidedAnnouncedOnce

\* No step says it twice, or settles without its having been said.
LEMMA NextSaid ==
  ASSUME TypeOK, WaitShape, DecisionsAgree, SaidOnce, [Next]_vars
  PROVE  SaidOnce'
<1> USE DEF storeVars, sessionVars, operatorVars
<1>1. session' \in {"tokens", "settling", "closing"} => row.choice # ""
  <2>1. CASE Receive
    <3>1. CASE session' = "tokens"
      <4>1. /\ mailbox # <<>> /\ Made(Head(mailbox)) /\ ValidateDecision(Head(mailbox))
            /\ mailbox \in Seq(Decision)
        BY <2>1, <3>1 DEF Receive, TypeOK
      <4>2. Head(mailbox) = mailbox[1] /\ 1 \in 1..Len(mailbox)
        BY <4>1, HeadTailProperties
      <4>3. Head(mailbox) = DecisionOf(row)
        BY <4>1, <4>2 DEF DecisionsAgree, Genuine
      <4>4. DecisionOf(row).choice = row.choice
        BY DEF DecisionOf
      <4> QED BY <4>1, <4>3, <4>4 DEF Made
    <3>2. CASE session' = session
      BY <3>2 DEF SaidOnce
    <3> QED BY <2>1, <3>1, <3>2 DEF Receive
  <2>2. CASE ~Receive
    <3>1. session' \in {"tokens", "settling", "closing"} =>
            session \in {"tokens", "settling", "closing"}
      BY <2>2 DEF Next, LoopStep, SessionStep, OperatorStep, OpenSession, StartSession,
           Resume, CancelLoop, CloseLoop, RecordStart, Remind, FinishRecord, CloseSession,
           ReadTokens, BeginDecide, SnapshotDecision, RecordDecision, RecordFails, Signal,
           SignalFails, RequestLost, DirectSignal, vars
    <3> QED BY <3>1 DEF SaidOnce
  <2> QED BY <2>1, <2>2
<1>2. \A o \in Operators : pc'[o] \in {"record", "update"} => row.state # "none"
  <2>a. ASSUME NEW o \in Operators, NEW told, Answer(o, told)
        PROVE  \A p \in Operators : pc'[p] \in {"record", "update"} => pc'[p] = pc[p]
    BY <2>a, AnswerShape
  <2>b. ASSUME \A p \in Operators : pc'[p] \in {"record", "update"} =>
                 pc[p] \in {"record", "update"} \/ row.state # "none"
        PROVE  \A p \in Operators : pc'[p] \in {"record", "update"} => row.state # "none"
    BY <2>b DEF SaidOnce
  <2>1. ASSUME NEW o \in Operators, OperatorStep(o)
        PROVE  \A p \in Operators : pc'[p] \in {"record", "update"} =>
                 pc[p] \in {"record", "update"} \/ row.state # "none"
    <3>1. CASE \E d \in Requests(o) : BeginDecide(o, d)
      BY <2>a, <3>1 DEF BeginDecide
    <3>2. CASE SnapshotDecision(o) \/ RecordDecision(o)
      BY <3>2 DEF SnapshotDecision, RecordDecision, TypeOK
    <3>3. CASE RecordFails(o) \/ Signal(o) \/ SignalFails(o) \/ RequestLost(o)
      BY <2>a, <3>3 DEF RecordFails, Signal, SignalFails, RequestLost
    <3> QED BY <2>1, <3>1, <3>2, <3>3 DEF OperatorStep
  <2>2. CASE \A o \in Operators : ~OperatorStep(o)
    <3>1. UNCHANGED pc
      BY <2>2 DEF Next, LoopStep, SessionStep, OpenSession, StartSession,
           Resume, CancelLoop, CloseLoop, RecordStart, Receive, Remind, FinishRecord,
           CloseSession, ReadTokens, DirectSignal, vars
    <3> QED BY <2>b, <3>1
  <2> QED BY <2>1, <2>2, <2>b
<1>3. \E d : Write(d)
  <2>1. CASE OpenSession
    BY <2>1 DEF OpenSession, Write
  <2>2. CASE CloseSession
    BY <2>2 DEF CloseSession, SaidOnce, Write
  <2>3. ASSUME NEW o \in Operators, RecordDecision(o) \/ RecordFails(o)
        PROVE  Write(req[o])
    BY <2>3 DEF RecordDecision, RecordFails, WaitShape, SaidOnce, Write
  <2>4. CASE /\ ~OpenSession /\ ~CloseSession
             /\ \A o \in Operators : ~RecordDecision(o) /\ ~RecordFails(o)
    <3>1. UNCHANGED storeVars
      BY <2>4 DEF Next, LoopStep, SessionStep, OperatorStep, StartSession,
           Resume, CancelLoop, CloseLoop, RecordStart, Receive, Remind, FinishRecord,
           ReadTokens, BeginDecide, SnapshotDecision, Signal, SignalFails, RequestLost,
           DirectSignal, vars
    <3> QED BY <3>1 DEF Write
  <2> QED BY <2>1, <2>2, <2>3, <2>4
<1>4. /\ row'.choice # "" <=> row'.state = "decided"
      /\ row'.state \notin {"abandoned"}
      /\ row.choice # "" => row'.choice # ""
      /\ row.state # "none" => row'.state # "none"
      /\ DecidedAnnouncedOnce'
  BY <1>3, WriteSaysOnce
<1> QED BY <1>1, <1>2, <1>4 DEF SaidOnce

\* A hub reader is told once that a session stopped waiting (announceSession in
\* openSessionSQL's, recordDecisionSQL's and closeSessionSQL's transactions).
THEOREM AnnouncedOnce == ASSUME RefusesDirect PROVE Spec => []DecidedAnnouncedOnce
<1>1. Init => SaidOnce
  BY InitSaid
<1>2. TypeOK /\ WaitShape /\ DecisionsAgree /\ SaidOnce /\ [Next]_vars => SaidOnce'
  BY NextSaid
<1>3. SaidOnce => DecidedAnnouncedOnce
  BY DEF SaidOnce
<1> QED BY <1>1, <1>2, <1>3, AgreementHolds, PTL DEF Spec

-----------------------------------------------------------------------------
(* The pause implements its promise.                                       *)

Bar == IF row.choice = "" THEN NoDecision ELSE DecisionOf(row)

\* A decision is its three fields.
LEMMA DecisionFields ==
  ASSUME NEW d \in Decision
  PROVE  d = [choice |-> d.choice, guidance |-> d.guidance, principal |-> d.principal]
BY DEF Decision

\* Recording a decision where there is none is the promise's Decide.
LEMMA RecordIsDecide ==
  ASSUME NEW d \in Decision, ValidateDecision(d), row.choice = "", WriteDecision(d)
  PROVE  Bar = NoDecision /\ Bar' = d
<1>1. d.choice # "" BY DEF ValidateDecision, Validate, Choices
<1>2. row'.choice = d.choice /\ DecisionOf(row)' = d BY RecordEffect, DecisionFields
<1> QED BY <1>1, <1>2 DEF Bar

\* Every step of the pause is a step of its promise, or none at all.
LEMMA StepKeepsPromise ==
  ASSUME TypeOK, WaitShape, DecisionsAgree, [Next]_vars
  PROVE  [Promise!Next]_<<Bar, acted>>
<1> USE DEF storeVars, sessionVars, operatorVars
<1>a. loop # "resumed" => acted = NoDecision BY DEF WaitShape
<1>b. session = "done" => Made(wdec) BY DEF WaitShape
<1>c. Made(wdec) => wdec = DecisionOf(row) /\ row.choice # ""
  <2>1. Made(wdec) => wdec = DecisionOf(row) BY DEF DecisionsAgree, Genuine, WaitShape
  <2>2. DecisionOf(row).choice = row.choice BY DEF DecisionOf
  <2> QED BY <2>1, <2>2 DEF Made
<1>d. row.choice = "" /\ row'.choice = "" => UNCHANGED Bar BY DEF Bar
<1>e. ASSUME UNCHANGED <<Bar, acted>> PROVE [Promise!Next]_<<Bar, acted>>
  BY <1>e
<1>1. CASE Resume
  <2>1. UNCHANGED Bar BY <1>1 DEF Resume, Bar, DecisionOf
  <2>2. CASE session = "done"
    <3>1. acted = NoDecision /\ acted' = wdec BY <1>1, <1>a, <2>2 DEF Resume
    <3>2. Bar = wdec
      <4>1. row.choice # "" /\ DecisionOf(row) = wdec BY <1>b, <1>c, <2>2
      <4> QED BY <4>1 DEF Bar
    <3>3. wdec # NoDecision
      <4>1. NoDecision.choice = "" BY DEF NoDecision
      <4> QED BY <1>b, <2>2, <4>1 DEF Made
    <3> QED BY <2>1, <3>1, <3>2, <3>3 DEF Promise!Next, Promise!Resume, Bar
  <2>3. CASE session # "done"
    BY <1>1, <1>e, <2>1, <2>3 DEF Resume
  <2> QED BY <2>2, <2>3
<1>2. CASE ~Resume /\ row.choice # ""
  <2>1. UNCHANGED row BY <1>2, DecidedRowStands
  <2>2. UNCHANGED acted
    BY <1>2 DEF Next, LoopStep, SessionStep, OperatorStep, OpenSession, StartSession,
         CancelLoop, CloseLoop, RecordStart, Receive, ReadTokens, Remind, FinishRecord,
         CloseSession, BeginDecide, SnapshotDecision, RecordDecision, RecordFails, Signal,
         SignalFails, RequestLost, DirectSignal, vars
  <2> QED BY <1>e, <2>1, <2>2 DEF Bar, DecisionOf
<1>3. CASE row.choice = "" /\ \E o \in Operators : RecordDecision(o) \/ RecordFails(o)
  <2> PICK o \in Operators : RecordDecision(o) \/ RecordFails(o) BY <1>3
  <2>1. UNCHANGED acted /\ pc[o] = "update" BY DEF RecordDecision, RecordFails
  <2>2. req[o] \in Decision /\ ValidateDecision(req[o])
    BY <2>1 DEF TypeOK, WaitShape
  <2>3. CASE WriteDecision(req[o])
    <3>1. Bar = NoDecision /\ Bar' = req[o] BY <1>3, <2>2, <2>3, RecordIsDecide
    <3> QED BY <2>1, <2>2, <3>1 DEF Promise!Next, Promise!Decide, Bar
  <2>4. CASE ~WriteDecision(req[o])
    <3>1. UNCHANGED row BY <2>4 DEF RecordDecision, RecordFails
    <3> QED BY <1>e, <2>1, <3>1 DEF Bar, DecisionOf
  <2> QED BY <2>3, <2>4
<1>4. CASE row.choice = "" /\ OpenSession
  <2>1. row' = row \/ row' = [row EXCEPT !.state = "waiting"]
    BY <1>4 DEF OpenSession, WriteOpen
  <2>2. row'.choice = row.choice BY <2>1 DEF TypeOK, Row
  <2>3. UNCHANGED acted BY <1>4 DEF OpenSession
  <2> QED BY <1>4, <1>d, <1>e, <2>2, <2>3
<1>5. CASE row.choice = "" /\ CloseSession
  <2>1. WriteClose(wdec) \/ UNCHANGED row BY <1>5 DEF CloseSession
  <2>2. row'.choice = "" BY <1>5, <1>c, <2>1, CloseEffect
  <2>3. UNCHANGED acted BY <1>5 DEF CloseSession
  <2> QED BY <1>5, <1>d, <1>e, <2>2, <2>3
<1>6. CASE /\ ~Resume /\ ~OpenSession /\ ~CloseSession
           /\ \A o \in Operators : ~RecordDecision(o) /\ ~RecordFails(o)
  <2>1. UNCHANGED <<row, acted>>
    BY <1>6 DEF Next, LoopStep, SessionStep, OperatorStep, StartSession,
         CancelLoop, CloseLoop, RecordStart, Receive, ReadTokens, Remind, FinishRecord,
         BeginDecide, SnapshotDecision, Signal, SignalFails, RequestLost, DirectSignal, vars
  <2> QED BY <1>e, <2>1 DEF Bar, DecisionOf
<1> QED BY <1>1, <1>2, <1>3, <1>4, <1>5, <1>6

\* Where the API alone can answer, the distributed pause implements
\* SteeringPromise.
THEOREM Implements == ASSUME RefusesDirect PROVE Spec => KeepsPromise
<1>1. Init => Promise!Init
  <2> SUFFICES ASSUME Init PROVE Promise!Init
    OBVIOUS
  <2>1. row.choice = "" /\ acted = NoDecision BY DEF Init, NoRow
  <2> QED BY <2>1 DEF Promise!Init
<1>2. TypeOK /\ WaitShape /\ DecisionsAgree /\ [Next]_vars => [Promise!Next]_<<Bar, acted>>
  BY StepKeepsPromise
<1> QED BY <1>1, <1>2, AgreementHolds, PTL DEF Spec, KeepsPromise, Promise!Spec, Bar

-----------------------------------------------------------------------------
(* The conversation beside the pause (SpecConversation).                   *)

Messages == [role : {"operator", "agent"}, text : Texts \cup {NoText}]

ConversationTypes ==
  /\ messages \in Seq(Messages)
  /\ turn \in [Sequences -> [step : {"none", "read", "answer", "draft", "ended"},
                             finish : BOOLEAN, attempt : Nat, text : Texts \cup {NoText}]]
  /\ question \in [Operators -> [step : {"idle", "append", "turn"}, seq : Nat,
                                 finish : BOOLEAN]]

\* The agent has said it.
Said(said, text) == \E i \in 1..Len(said) : said[i].role = "agent" /\ said[i].text = text

\* What a turn is about to draft and what a waiting row holds was said before.
DraftsWereSaid ==
  /\ \A n \in Sequences : turn[n].step = "draft" => Said(messages, turn[n].text)
  /\ row.state = "none" => row.guidance = NoText
  /\ row.state = "waiting" /\ row.guidance # NoText => Said(messages, row.guidance)

ConversationInv == TypeOK /\ WaitShape /\ ConversationTypes /\ DraftsWereSaid

\* The conversation starts empty.
LEMMA InitConversationInv == InitConversation => ConversationInv
<1> SUFFICES ASSUME InitConversation PROVE ConversationInv
  OBVIOUS
<1>1. TypeOK /\ WaitShape
  BY InitType, InitShape DEF InitConversation
<1>2. ConversationTypes
  BY DEF InitConversation, ConversationTypes, NoTurn, NoQuestion
<1>3. DraftsWereSaid
  <2>1. row.state = "none" /\ row.guidance = NoText /\ \A n \in Sequences : turn[n].step = "none"
    BY DEF InitConversation, Init, NoRow, NoTurn
  <2> QED BY <2>1 DEF DraftsWereSaid
<1> QED BY <1>1, <1>2, <1>3 DEF ConversationInv

\* An append takes nothing back.
LEMMA AppendSays ==
  ASSUME ConversationTypes, NEW role \in {"operator", "agent"}, NEW text \in Texts \cup {NoText},
         AppendMessage(role, text) \/ UNCHANGED messages
  PROVE  /\ messages' \in Seq(Messages)
         /\ \A old : Said(messages, old) => Said(messages', old)
         /\ AppendMessage(role, text) /\ role = "agent" => Said(messages', text)
         /\ Len(messages') \in Nat
<1>1. messages \in Seq(Messages) /\ Len(messages) \in Nat
      /\ [role |-> role, text |-> text] \in Messages
  BY LenProperties DEF ConversationTypes, Messages
<1>2. CASE UNCHANGED messages
  BY <1>1, <1>2 DEF Said, AppendMessage
<1>3. CASE AppendMessage(role, text)
  <2> DEFINE message == [role |-> role, text |-> text]
             n == Len(messages) + 1
  <2>1. messages' = Append(messages, message)
    BY <1>3 DEF AppendMessage
  <2>2. message.role = role /\ message.text = text
    OBVIOUS
  <2> HIDE DEF message
  <2>3. /\ messages' \in Seq(Messages) /\ Len(messages') = n /\ messages'[n] = message
        /\ \A i \in 1..Len(messages) : messages'[i] = messages[i]
    BY <1>1, <2>1, AppendProperties DEF message
  <2>4. \A i \in 1..Len(messages) : i \in 1..Len(messages')
    BY <1>1, <2>3
  <2>5. n \in 1..Len(messages')
    BY <1>1, <2>3
  <2>6. Len(messages') \in Nat
    BY <1>1, <2>3
  <2> QED BY <2>2, <2>3, <2>4, <2>5, <2>6 DEF Said
<1> QED BY <1>2, <1>3

\* What a failed attempt leaves of its turn.
LEMMA FailsType ==
  ASSUME ConversationTypes, NEW n \in Sequences, Fails(n) \/ Ends(n) \/ Goes(n, "answer")
  PROVE  /\ turn' \in [Sequences -> [step : {"none", "read", "answer", "draft", "ended"},
                             finish : BOOLEAN, attempt : Nat, text : Texts \cup {NoText}]]
         /\ \A m \in Sequences : turn'[m].step = "draft" => turn'[m] = turn[m]
<1> DEFINE Turn == [step : {"none", "read", "answer", "draft", "ended"},
                    finish : BOOLEAN, attempt : Nat, text : Texts \cup {NoText}]
<1>1. turn \in [Sequences -> Turn]
  BY DEF ConversationTypes
<1>2. ASSUME NEW t \in Turn, t.step # "draft", turn' = [turn EXCEPT ![n] = t]
      PROVE  /\ turn' \in [Sequences -> Turn]
             /\ \A m \in Sequences : turn'[m].step = "draft" => turn'[m] = turn[m]
  <2> HIDE DEF Turn
  <2> QED BY <1>1, <1>2
<1>3. EndedTurn \in Turn /\ EndedTurn.step = "ended"
  BY DEF EndedTurn, NoTurn
<1>4. turn[n] \in Turn /\ turn[n].attempt + 1 \in Nat
  BY <1>1
<1>5. /\ [turn[n] EXCEPT !.step = "answer"] \in Turn
      /\ [turn[n] EXCEPT !.step = "answer"].step = "answer"
  BY <1>4
<1>6. NextAttempt(turn[n]) \in Turn /\ NextAttempt(turn[n]).step = "read"
  BY <1>4 DEF NextAttempt
<1> SUFFICES /\ turn' \in [Sequences -> Turn]
             /\ \A m \in Sequences : turn'[m].step = "draft" => turn'[m] = turn[m]
  OBVIOUS
<1> HIDE DEF Turn
<1>7. CASE Ends(n)
  BY <1>2, <1>3, <1>7 DEF Ends
<1>8. CASE Goes(n, "answer")
  <2>1. turn' = [turn EXCEPT ![n] = [turn[n] EXCEPT !.step = "answer"]]
    BY <1>1, <1>8 DEF Goes
  <2> QED BY <1>2, <1>5, <2>1
<1>9. CASE Fails(n)
  <2>1. turn' = [turn EXCEPT ![n] = NextAttempt(turn[n])] \/ turn' = [turn EXCEPT ![n] = EndedTurn]
    BY <1>9 DEF Fails
  <2> QED BY <1>2, <1>3, <1>6, <2>1
<1> QED BY <1>7, <1>8, <1>9

\* A draft is saved into a row that waits, and into nothing else.
LEMMA DraftEffect ==
  ASSUME ConversationInv, NEW n \in Sequences, SaveDraft(n)
  PROVE  /\ UNCHANGED <<events, exec, loop, acted, sessionVars, attempt, operatorVars,
                        messages, question>>
         /\ Fails(n) \/ Ends(n)
         /\ \/ row' = row
            \/ /\ turn[n].step = "draft" /\ turn[n].text \in Texts
               /\ row' = [row EXCEPT !.guidance = turn[n].text]
               /\ row'.guidance = turn[n].text /\ row'.state = row.state
               /\ row'.choice = row.choice /\ row'.principal = row.principal
               /\ row.state = "waiting" /\ row.choice = "" /\ row' \in Row
<1>1. row \in Row
  BY DEF ConversationInv, TypeOK
<1>2. row.choice # "" => row.state = "decided"
  BY DEF ConversationInv, WaitShape
<1>3. CASE SetGuidance(turn[n].text)
  <2>1. row' = [row EXCEPT !.guidance = turn[n].text] /\ turn[n].text \in Texts
        /\ row.state = "waiting"
    BY <1>3 DEF SetGuidance
  <2>2. turn[n].text \in Guidances
    BY <2>1 DEF Guidances
  <2>3. row' \in Row /\ row'.guidance = turn[n].text /\ row'.state = row.state
        /\ row'.choice = row.choice /\ row'.principal = row.principal
    BY <1>1, <2>1, <2>2 DEF Row
  <2> QED BY <1>2, <2>1, <2>3 DEF SaveDraft
<1>4. CASE ~SetGuidance(turn[n].text)
  BY <1>4 DEF SaveDraft
<1> QED BY <1>3, <1>4

\* A step of the pause, or none, leaves the parts the conversation relies on.
LEMMA PauseKeepsDrafts ==
  ASSUME TypeOK, WaitShape, [Next]_vars, row.state = "none" => row.guidance = NoText
  PROVE  /\ row'.state = "none" => row.state = "none" /\ row'.guidance = NoText
         /\ row'.state = "waiting" =>
              row.state \in {"none", "waiting"} /\ row'.guidance = row.guidance
<1> USE DEF storeVars, sessionVars, operatorVars
<1>1. row \in Row
  BY DEF TypeOK
<1>2. ASSUME NEW d, WriteOpen \/ WriteClose(d) \/ WriteDecision(d) \/ UNCHANGED storeVars
      PROVE  /\ row'.state = "none" => row.state = "none" /\ row'.guidance = NoText
             /\ row'.state = "waiting" =>
                  row.state \in {"none", "waiting"} /\ row'.guidance = row.guidance
  <2>1. CASE WriteOpen
    BY <1>1, <2>1 DEF WriteOpen, Row
  <2>2. CASE WriteClose(d)
    <3>1. UNCHANGED row \/ row'.state \in {"decided", "abandoned"}
      BY <2>2, CloseEffect
    <3> QED BY <3>1
  <2>3. CASE WriteDecision(d)
    <3>1. CASE row.choice = ""
      <4>1. row' = [state     |-> "decided",
                    choice    |-> d.choice,
                    guidance  |-> IF d.guidance # NoText THEN d.guidance ELSE row.guidance,
                    principal |-> d.principal]
        BY <2>3, <3>1 DEF WriteDecision
      <4>2. row'.state = "decided"
        BY <4>1
      <4> QED BY <4>2
    <3>2. CASE row.choice # ""
      BY <2>3, <3>2 DEF WriteDecision
    <3> QED BY <3>1, <3>2
  <2>4. CASE UNCHANGED storeVars
    BY <2>4
  <2> QED BY <1>2, <2>1, <2>2, <2>3, <2>4
<1>3. \E d : WriteOpen \/ WriteClose(d) \/ WriteDecision(d) \/ UNCHANGED storeVars
  BY DEF Next, LoopStep, SessionStep, OperatorStep, OpenSession, StartSession, Resume,
         CancelLoop, CloseLoop, RecordStart, Receive, ReadTokens, Remind, FinishRecord,
         CloseSession, BeginDecide, SnapshotDecision, RecordDecision, RecordFails, Signal,
         SignalFails, RequestLost, DirectSignal, vars
<1> QED BY <1>2, <1>3

\* Every step of the conversation keeps its types, says before it drafts and
\* forgets nothing it said.
LEMMA TranscriptGrows ==
  ASSUME ConversationInv, [NextConversation]_allVars
  PROVE  /\ ConversationTypes'
         /\ \A old : Said(messages, old) => Said(messages', old)
         /\ \A n \in Sequences : turn'[n].step = "draft" => Said(messages', turn'[n].text)
<1>0. ConversationTypes /\ DraftsWereSaid
  BY DEF ConversationInv
<1>u. ASSUME UNCHANGED messages PROVE \A old : Said(messages, old) => Said(messages', old)
  BY <1>u DEF Said
<1>d. \A n \in Sequences : turn[n].step = "draft" => Said(messages, turn[n].text)
  BY <1>0 DEF DraftsWereSaid
<1> DEFINE Turn == [step : {"none", "read", "answer", "draft", "ended"},
                    finish : BOOLEAN, attempt : Nat, text : Texts \cup {NoText}]
           Question == [step : {"idle", "append", "turn"}, seq : Nat, finish : BOOLEAN]
<1>t. messages \in Seq(Messages) /\ turn \in [Sequences -> Turn] /\ question \in [Operators -> Question]
  BY <1>0 DEF ConversationTypes
<1>q. NoQuestion \in Question
  BY DEF NoQuestion
<1>g. SUFFICES /\ messages' \in Seq(Messages) /\ turn' \in [Sequences -> Turn]
               /\ question' \in [Operators -> Question]
               /\ \A old : Said(messages, old) => Said(messages', old)
               /\ \A n \in Sequences : turn'[n].step = "draft" => Said(messages', turn'[n].text)
  BY DEF ConversationTypes
<1>1. CASE UNCHANGED <<messages, turn>> /\ question' \in [Operators -> Question]
  BY <1>1, <1>d, <1>t, <1>u
<1>2. CASE (Next /\ UNCHANGED conversationVars) \/ UNCHANGED allVars
  BY <1>1, <1>2, <1>t DEF conversationVars, allVars
<1>3. ASSUME NEW o \in Operators, BeginQuestion(o)
      PROVE  UNCHANGED <<messages, turn>> /\ question' \in [Operators -> Question]
  BY <1>3, <1>t DEF BeginQuestion
<1>4. ASSUME NEW o \in Operators, AppendQuestion(o)
      PROVE  /\ UNCHANGED turn /\ question' \in [Operators -> Question]
             /\ messages' \in Seq(Messages) /\ \A old : Said(messages, old) => Said(messages', old)
  <2>1. AppendMessage("operator", NoText) \/ UNCHANGED messages
    BY <1>4 DEF AppendQuestion
  <2>2. messages' \in Seq(Messages) /\ Len(messages') \in Nat
        /\ \A old : Said(messages, old) => Said(messages', old)
    BY <1>0, <2>1, AppendSays
  <2>3. [[question[o] EXCEPT !.step = "turn"] EXCEPT !.seq = Len(messages')] \in Question
    BY <1>t, <2>2
  <2> HIDE DEF Question
  <2>4. \/ question' = [question EXCEPT ![o] = NoQuestion]
        \/ question' = [question EXCEPT ![o].step = "turn", ![o].seq = Len(messages')]
    BY <1>4 DEF AppendQuestion
  <2>5. question' \in [Operators -> Question]
    <3>1. CASE question' = [question EXCEPT ![o] = NoQuestion]
      BY <1>t, <1>q, <3>1
    <3>2. CASE question' = [question EXCEPT ![o].step = "turn", ![o].seq = Len(messages')]
      BY <1>t, <2>3, <3>2
    <3> QED BY <2>4, <3>1, <3>2
  <2> QED BY <1>4, <2>2, <2>5 DEF AppendQuestion
<1>5. ASSUME NEW o \in Operators, StartTurn(o)
      PROVE  /\ UNCHANGED messages /\ question' \in [Operators -> Question]
             /\ turn' \in [Sequences -> Turn]
             /\ \A n \in Sequences : turn'[n].step = "draft" => turn'[n] = turn[n]
  <2> DEFINE started == [NoTurn EXCEPT !.step = "read", !.finish = question[o].finish]
  <2>1. started \in Turn /\ started.step = "read"
    BY <1>t DEF NoTurn
  <2>2. \/ turn' = turn
        \/ turn' = [turn EXCEPT ![question[o].seq] = started]
    BY <1>5 DEF StartTurn
  <2>3. UNCHANGED messages /\ question' = [question EXCEPT ![o] = NoQuestion]
    BY <1>5 DEF StartTurn
  <2> HIDE DEF Turn, Question, started
  <2> QED BY <1>t, <1>q, <2>1, <2>2, <2>3
<1>6. ASSUME NEW n \in Sequences, ReadSession(n)
      PROVE  /\ UNCHANGED <<messages, question>> /\ turn' \in [Sequences -> Turn]
             /\ \A m \in Sequences : turn'[m].step = "draft" => turn'[m] = turn[m]
  <2>1. Fails(n) \/ Goes(n, "answer")
    BY <1>6 DEF ReadSession
  <2>2. UNCHANGED <<messages, question>>
    BY <1>6 DEF ReadSession
  <2> QED BY <1>0, <2>1, <2>2, FailsType
<1>7. ASSUME NEW n \in Sequences, AppendAnswer(n)
      PROVE  /\ messages' \in Seq(Messages) /\ turn' \in [Sequences -> Turn] /\ UNCHANGED question
             /\ \A old : Said(messages, old) => Said(messages', old)
             /\ \A m \in Sequences : turn'[m].step = "draft" =>
                  turn'[m] = turn[m] \/ Said(messages', turn'[m].text)
  <2>1. PICK text \in Texts \cup {NoText} :
             \/ AppendMessage("agent", text) /\ turn' = [turn EXCEPT ![n].step = "draft", ![n].text = text]
             \/ AppendMessage("agent", text) /\ (Ends(n) \/ Fails(n))
             \/ UNCHANGED messages /\ Fails(n)
    BY <1>7 DEF AppendAnswer
  <2>2. /\ messages' \in Seq(Messages) /\ \A old : Said(messages, old) => Said(messages', old)
        /\ AppendMessage("agent", text) => Said(messages', text)
    BY <1>0, <2>1, AppendSays
  <2>3. UNCHANGED question
    BY <1>7 DEF AppendAnswer
  <2>4. CASE Ends(n) \/ Fails(n)
    BY <1>0, <2>2, <2>3, <2>4, FailsType
  <2>5. CASE AppendMessage("agent", text) /\ turn' = [turn EXCEPT ![n].step = "draft", ![n].text = text]
    <3> DEFINE drafting == [[turn[n] EXCEPT !.step = "draft"] EXCEPT !.text = text]
    <3>1. drafting \in Turn /\ drafting.text = text
      BY <1>t
    <3>2. turn' = [turn EXCEPT ![n] = drafting]
      BY <1>t, <2>5
    <3> HIDE DEF drafting, Turn
    <3>3. turn' \in [Sequences -> Turn] /\ turn'[n] = drafting
          /\ \A m \in Sequences : m # n => turn'[m] = turn[m]
      BY <1>t, <3>1, <3>2
    <3> QED BY <2>2, <2>3, <2>5, <3>1, <3>3
  <2> QED BY <2>1, <2>4, <2>5
<1>8. ASSUME NEW n \in Sequences, SaveDraft(n)
      PROVE  /\ UNCHANGED <<messages, question>> /\ turn' \in [Sequences -> Turn]
             /\ \A m \in Sequences : turn'[m].step = "draft" => turn'[m] = turn[m]
  BY <1>0, <1>8, DraftEffect, FailsType
<1> HIDE DEF Turn, Question
<1>9. ASSUME /\ \A old : Said(messages, old) => Said(messages', old)
             /\ \A n \in Sequences : turn'[n].step = "draft" =>
                  turn'[n] = turn[n] \/ Said(messages', turn'[n].text)
      PROVE  \A n \in Sequences : turn'[n].step = "draft" => Said(messages', turn'[n].text)
  BY <1>9, <1>d
<1> QED BY <1>1, <1>2, <1>3, <1>4, <1>5, <1>6, <1>7, <1>8, <1>9, <1>d, <1>t, <1>u
        DEF NextConversation, TurnStep

\* Every step of the conversation beside the pause keeps its invariant.
LEMMA NextConversationInv ==
  ASSUME ConversationInv, [NextConversation]_allVars PROVE ConversationInv'
<1>0. /\ TypeOK /\ WaitShape /\ ConversationTypes /\ DraftsWereSaid /\ row \in Row
      /\ row.choice # "" => row.state = "decided"
  BY DEF ConversationInv, TypeOK, WaitShape
<1>1. /\ ConversationTypes'
      /\ \A old : Said(messages, old) => Said(messages', old)
      /\ \A n \in Sequences : turn'[n].step = "draft" => Said(messages', turn'[n].text)
  BY TranscriptGrows
<1>2. ASSUME NEW n \in Sequences, SaveDraft(n)
      PROVE  /\ TypeOK' /\ WaitShape'
             /\ row'.state = "none" => row'.guidance = NoText
             /\ row'.state = "waiting" /\ row'.guidance # NoText => Said(messages, row'.guidance)
  <2>1. UNCHANGED <<events, exec, loop, acted, sessionVars, attempt, operatorVars>>
    BY <1>2, DraftEffect
  <2>2. \/ row' = row
        \/ /\ turn[n].step = "draft" /\ row'.guidance = turn[n].text
           /\ row'.state = row.state /\ row'.choice = row.choice
           /\ row.state = "waiting" /\ row' \in Row
    BY <1>2, DraftEffect
  <2>3. row' \in Row /\ row'.state = row.state /\ row'.choice = row.choice
    BY <1>0, <2>2
  <2>4. TypeOK'
    BY <1>0, <2>1, <2>3 DEF TypeOK, sessionVars, operatorVars
  <2>5. WaitShape'
    BY <1>0, <2>1, <2>3 DEF WaitShape, sessionVars, operatorVars, Made, ValidateDecision, Validate
  <2>6. row'.state = "none" => row'.guidance = NoText
    BY <1>0, <2>2 DEF DraftsWereSaid
  <2>7. row'.state = "waiting" /\ row'.guidance # NoText => Said(messages, row'.guidance)
    BY <1>0, <2>2 DEF DraftsWereSaid
  <2> QED BY <2>4, <2>5, <2>6, <2>7
<1>3. CASE [Next]_vars
  <2>1. TypeOK' /\ WaitShape'
    BY <1>0, <1>3, NextType, NextShape
  <2>2. /\ row'.state = "none" => row.state = "none" /\ row'.guidance = NoText
        /\ row'.state = "waiting" =>
             row.state \in {"none", "waiting"} /\ row'.guidance = row.guidance
    BY <1>0, <1>3, PauseKeepsDrafts DEF DraftsWereSaid
  <2>3. row'.state = "waiting" /\ row'.guidance # NoText => Said(messages, row'.guidance)
    BY <1>0, <2>2 DEF DraftsWereSaid
  <2> QED BY <1>1, <2>1, <2>2, <2>3 DEF ConversationInv, DraftsWereSaid
<1>4. CASE \E n \in Sequences : SaveDraft(n)
  <2>1. /\ TypeOK' /\ WaitShape'
        /\ row'.state = "none" => row'.guidance = NoText
        /\ row'.state = "waiting" /\ row'.guidance # NoText => Said(messages, row'.guidance)
    BY <1>2, <1>4
  <2>2. row'.state = "waiting" /\ row'.guidance # NoText => Said(messages', row'.guidance)
    BY <1>1, <2>1
  <2> QED BY <1>1, <2>1, <2>2 DEF ConversationInv, DraftsWereSaid
<1> QED BY <1>3, <1>4 DEF NextConversation, TurnStep, BeginQuestion, AppendQuestion, StartTurn,
                          ReadSession, AppendAnswer, allVars, vars

\* The invariant of the conversation, signals around the API included.
LEMMA ConversationHolds == SpecConversation => []ConversationInv
BY InitConversationInv, NextConversationInv, PTL DEF SpecConversation

\* The draft a waiting session shows stands in the transcript beside it, whatever
\* was retried or lost (RunQuestioningTurn appends before it saves, and
\* setGuidanceSQL writes while the session waits).
THEOREM DraftWasSaid == SpecConversation => []DraftIsInTranscript
<1>1. ConversationInv => DraftIsInTranscript
  BY DEF ConversationInv, DraftsWereSaid, DraftIsInTranscript, Said
<1> QED BY <1>1, ConversationHolds, PTL

\* A turn under way when the decision was made changes nothing of it, however
\* late it drafts (setGuidanceSQL's "AND state = 'waiting'").
THEOREM LateTurnIsLate == SpecConversation => LateTurnChangesNoDecision
<1>1. ASSUME ConversationInv, [NextConversation]_allVars, Made(DecisionOf(row))
      PROVE  row' = row
  <2>1. /\ WaitShape /\ row.choice # ""
        /\ row.choice # "" => row.state = "decided"
    BY <1>1 DEF ConversationInv, WaitShape, Made, DecisionOf
  <2>2. CASE [Next]_vars
    BY <2>1, <2>2, DecidedRowStands
  <2>3. CASE \E n \in Sequences : SaveDraft(n)
    BY <1>1, <2>1, <2>3, DraftEffect
  <2> QED BY <1>1, <2>2, <2>3 DEF NextConversation, TurnStep, BeginQuestion, AppendQuestion,
                     StartTurn, ReadSession, AppendAnswer, allVars, vars
<1>2. ConversationInv /\ [NextConversation]_allVars =>
        [Made(DecisionOf(row)) =>
           row'.guidance = row.guidance /\ DecisionOf(row)' = DecisionOf(row)]_allVars
  BY <1>1 DEF DecisionOf
<1> QED BY <1>2, ConversationHolds, PTL DEF SpecConversation, LateTurnChangesNoDecision

=============================================================================
