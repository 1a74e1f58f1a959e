---------------------------- MODULE ServiceParts ----------------------------
(***************************************************************************)
(* Eight parts that share no state with one another, for any bounds: what  *)
(* Services checks on a small instance of each and ServicesProofs proves.  *)
(*                                                                         *)
(*   pilot       the remote review loop            (PilotLoop, extended)   *)
(*   migrations  bringing the schemas up to date   (Migrations, extended)  *)
(*   planning    planning a fleet                  (Planning)              *)
(*   stream      the live event streams            (EventStream)           *)
(*   agent       one activity that runs the agent  (AgentRun)              *)
(*   cleanup     the cleanup command               (Cleanup)               *)
(*   plan        the recursions over a fleet plan  (PlanAlgorithms)        *)
(*   inbox       telling operators                 (Inbox)                 *)
(***************************************************************************)
EXTENDS PilotLoop, Migrations

-----------------------------------------------------------------------------
(* Planning a fleet.                                                       *)

CONSTANTS NodeIDs, Contents, Pristine, StoreAttempts

VARIABLES source, clone, worker, before, answer, flow, asked, result, stores, lateStore, document,
          readySent, began, left,
          entry, pending  \* its own row and the writes to it that are late

Planned == INSTANCE Planning WITH row <- entry, late <- pending

\* A stored plan can be executed, and cost the operator nothing but tokens
\* (FleetPlanWorkflow).
PlansAreSound == Planned!PlansAreSound

-----------------------------------------------------------------------------
(* The live streams.                                                       *)

CONSTANTS
  Writers, Readers,  \* transactions and pages
  Written, Follows,  \* the stream each writes to or follows
  Limit, Batch, MaxConnects

VARIABLES rows, drawn, lock, writer, stream, after, stored, heard, counted, valid, connects

Stream == INSTANCE EventStream WITH Writes <- Written

\* A page that has seen a turn was sent every turn before it
\* (Store.AppendMessage, streamConversation).
ConversationMissesNothing == Stream!ConversationMissesNothing

-----------------------------------------------------------------------------
(* The cleanup command.                                                    *)

CONSTANTS
  Managed, Others  \* worktrees under the tool's directory, and made elsewhere

VARIABLES tree, branch, listed, at, doing, force, consented

Clean == INSTANCE Cleanup WITH step <- doing

\* Cleanup loses no work it was not told to lose (Cleaner.handle).
NothingIsLostUnasked == Clean!NothingIsLostUnasked

-----------------------------------------------------------------------------
(* One activity that runs the coding agent.                                *)

CONSTANTS maxResumes, MaxAttempts, MaxEvents

VARIABLES step, tries, resumes, input, told, events, progress, res, spent, trailing

Agent == INSTANCE AgentRun WITH attempt <- tries

\* The agent's answer is one of work it was done with (piagent.runLoop).
AnswersFinishedWork == Agent!AnswersFinishedWork

-----------------------------------------------------------------------------
(* The recursions over a fleet plan.                                       *)

CONSTANT GraphNodes

ASSUME GraphAssumption == GraphNodes \subseteq Nat /\ IsFiniteSet(GraphNodes)

VARIABLES plan, phase, color, stack, remaining, cycle, depth

Graph == INSTANCE PlanAlgorithms WITH NodeIDs <- GraphNodes

\* A plan is refused exactly when it has a cycle, the cycle shown is one, and a
\* node's layer is its longest chain of dependencies (findCycle, TopoLayers).
FindsCyclesAndLayers == Graph!FindsCyclesAndLayers

-----------------------------------------------------------------------------
(* Telling operators.                                                      *)

CONSTANTS Notices, Unkept, Recipient, Everybody, Principals, Deliveries

VARIABLES attempts, sending, items, reads

Notice == INSTANCE Inbox WITH MaxAttempts <- Deliveries

\* What an operator has read stays read (Store.Put, MarkRead, ClearRead).
ReadStaysRead == Notice!ReadStaysRead

=============================================================================
