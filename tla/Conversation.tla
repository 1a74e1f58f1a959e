---------------------------- MODULE Conversation ----------------------------
(***************************************************************************)
(* The questioning conversation of a waiting session: operators put        *)
(* questions (Service.Question), each starts one turn of the agent         *)
(* (QuestionTurnWorkflow), and a turn that finishes the questioning        *)
(* drafts the guidance into the very row a decision is recorded in.        *)
(*                                                                         *)
(* A turn outlives the request that started it, and a decision may be made *)
(* at any point of it, so the conversation runs beside the whole of        *)
(* Steering.  AppendMessage holds the session's advisory lock to its       *)
(* commit: an append is one step and its sequence is its position.         *)
(***************************************************************************)
EXTENDS Steering

CONSTANTS
  TurnAttempts,  \* RetryPolicy.MaximumAttempts of a turn
  MaxQuestions,  \* bound: messages of operators
  MaxMessages    \* bound: messages of the transcript

ASSUME ConversationAssumption ==
  TurnAttempts \in Nat \ {0} /\ MaxQuestions \in Nat /\ MaxMessages \in Nat

VARIABLES
  messages,  \* steering_messages of this session, in sequence order
  question,  \* where each operator's Question stands
  turn       \* the turn of each operator message, by its sequence

conversationVars == <<messages, question, turn>>
allVars == <<vars, conversationVars>>

Sequences == 1..MaxMessages

NoQuestion == [step |-> "idle", seq |-> 0, finish |-> FALSE]
NoTurn     == [step |-> "none", finish |-> FALSE, attempt |-> 0, text |-> NoText]
EndedTurn  == [NoTurn EXCEPT !.step = "ended"]

InitConversation ==
  /\ Init
  /\ messages = <<>>
  /\ question = [o \in Operators |-> NoQuestion]
  /\ turn = [n \in Sequences |-> NoTurn]

-----------------------------------------------------------------------------
(* Service.Question.                                                       *)

\* The session is read and must wait; what follows trusts that reading.
BeginQuestion(o) ==
  /\ question[o].step = "idle" /\ row.state = "waiting"
  /\ Cardinality({i \in 1..Len(messages) : messages[i].role = "operator"}) < MaxQuestions
  /\ \E finish \in BOOLEAN :
       question' = [question EXCEPT ![o] = [step |-> "append", seq |-> 0, finish |-> finish]]
  /\ UNCHANGED <<vars, messages, turn>>

AppendMessage(role, text) ==
  /\ Len(messages) < MaxMessages
  /\ messages' = Append(messages, [role |-> role, text |-> text])

\* The operator's own message is recorded under the next sequence, or the
\* store fails the request, before or after the commit.
AppendQuestion(o) ==
  /\ question[o].step = "append"
  /\ \/ /\ AppendMessage("operator", NoText)
        /\ question' = [question EXCEPT ![o].step = "turn", ![o].seq = Len(messages')]
     \/ /\ AppendMessage("operator", NoText) \/ UNCHANGED messages
        /\ question' = [question EXCEPT ![o] = NoQuestion]
  /\ UNCHANGED <<vars, turn>>

\* RunQuestionTurn starts the turn named after the message and waits for it.
\* The request may end here, with or without the turn having been started;
\* waiting it out reads the transcript and changes nothing.
StartTurn(o) ==
  /\ question[o].step = "turn"
  /\ turn' \in {turn, [turn EXCEPT ![question[o].seq] =
                        [NoTurn EXCEPT !.step = "read", !.finish = question[o].finish]]}
  /\ question' = [question EXCEPT ![o] = NoQuestion]
  /\ UNCHANGED <<vars, messages>>

-----------------------------------------------------------------------------
(* RunQuestioningTurn, attempt after attempt.  Nothing of an attempt but    *)
(* what it wrote is left to the next.                                      *)

Goes(n, step) == turn' = [turn EXCEPT ![n].step = step]
Ends(n)       == turn' = [turn EXCEPT ![n] = EndedTurn]

NextAttempt(t) == [t EXCEPT !.step = "read", !.attempt = @ + 1, !.text = NoText]

Fails(n) ==
  turn' = [turn EXCEPT ![n] = IF @.attempt + 1 < TurnAttempts THEN NextAttempt(@) ELSE EndedTurn]

\* The session must still wait, the message be the operator's and its
\* instruction resolve; then the agent is asked.
ReadSession(n) ==
  /\ turn[n].step = "read"
  /\ (row.state = "waiting" /\ Goes(n, "answer")) \/ Fails(n)
  /\ UNCHANGED <<vars, messages, question>>

\* Mutant of AppendAnswer: the draft is saved before the answer is appended.
AnswerAfterDraft(n) ==
  /\ turn[n].step = "answer"
  /\ \E text \in Texts :
       turn' = [turn EXCEPT ![n].step = "draft", ![n].text = text]
  /\ UNCHANGED <<vars, messages, question>>

\* The agent answers (an empty answer is an error) and the answer is appended
\* whether or not the session still waits, and once more by the attempt after
\* one whose commit was not heard of.  Only a finishing turn goes on.
AppendAnswer(n) ==
  /\ turn[n].step = "answer"
  /\ \/ \E text \in Texts :
          /\ AppendMessage("agent", text)
          /\ \/ turn[n].finish /\ turn' = [turn EXCEPT ![n].step = "draft", ![n].text = text]
             \/ ~turn[n].finish /\ Ends(n)
             \/ Fails(n)
     \/ UNCHANGED messages /\ Fails(n)
  /\ UNCHANGED <<vars, question>>

\* Mutant of SetGuidance: "AND state = 'waiting'" dropped.
SetGuidanceAlways(text) ==
  /\ text \in Texts
  /\ row' = [row EXCEPT !.guidance = text]

\* setGuidanceSQL, while the session waits; a draft no decision could carry is
\* refused, as a store that fails is.
SetGuidance(text) ==
  /\ text \in Texts /\ row.state = "waiting"
  /\ row' = [row EXCEPT !.guidance = text]

SaveDraft(n) ==
  /\ turn[n].step = "draft"
  /\ \/ SetGuidance(turn[n].text) /\ (Ends(n) \/ Fails(n))
     \/ UNCHANGED row /\ Fails(n)
  /\ UNCHANGED <<events, exec, loop, acted, sessionVars, attempt, operatorVars,
                 messages, question>>

TurnStep(n) == ReadSession(n) \/ AppendAnswer(n) \/ SaveDraft(n)

NextConversation ==
  \/ Next /\ UNCHANGED conversationVars
  \/ \E o \in Operators : BeginQuestion(o) \/ AppendQuestion(o) \/ StartTurn(o)
  \/ \E n \in Sequences : TurnStep(n)

SpecConversation == InitConversation /\ [][NextConversation]_allVars

-----------------------------------------------------------------------------
(* What the conversation promises.                                         *)

\* The draft an operator finds while the session waits is the answer to some
\* turn of the transcript it is read beside, whatever was retried or lost.
DraftIsInTranscript ==
  row.state = "waiting" /\ row.guidance # NoText =>
    \E i \in 1..Len(messages) :
      messages[i].role = "agent" /\ messages[i].text = row.guidance

\* A turn that was under way when the decision was made changes nothing of it:
\* neither the guidance nor who decided what, however late it drafts.
LateTurnChangesNoDecision ==
  [][Made(DecisionOf(row)) => row'.guidance = row.guidance /\ DecisionOf(row)' = DecisionOf(row)]_allVars

=============================================================================
