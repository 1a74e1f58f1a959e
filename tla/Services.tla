------------------------------ MODULE Services ------------------------------
(***************************************************************************)
(* The parts that share no state with one another, checked side by side:   *)
(* `subject` says which of them a behaviour is about, and only that one    *)
(* takes steps, so that the states explored are the sum of theirs and not  *)
(* the product.                                                            *)
(*                                                                         *)
(*   pilot       the remote review loop                (PilotLoop)         *)
(*   migrations  bringing the schemas up to date       (Migrations)        *)
(*   plan        the graph algorithms of a fleet plan  (PlanAlgorithms)    *)
(*   stream      the live event streams                (EventStream)       *)
(*   agent       one activity that runs the agent      (AgentRun)          *)
(*   cleanup     the cleanup command                   (Cleanup)           *)
(*   inbox       telling operators                     (Inbox)             *)
(*   planning    planning a fleet                      (Planning)          *)
(***************************************************************************)
EXTENDS ServiceParts, TLC

VARIABLE subject

-----------------------------------------------------------------------------
(* The bounds.                                                             *)

\* An older build migrates while a newer worker in development mode and a newer
\* server start.
MCContexts == <<"store", "hub">>
MCKind == "old" :> "migrate" @@ "new" :> "worker" @@ "api" :> "serve"
MCCarries ==
  [p \in Processes |-> "store" :> (IF p = "old" THEN 1 ELSE 2) @@ "hub" :> 1]

\* Two turns and two events written at once, a reader of each.
MCWritten ==
  "t1" :> "conversation" @@ "t2" :> "conversation" @@ "e1" :> "hub" @@ "e2" :> "hub"
MCFollows == "r1" :> "conversation" @@ "r2" :> "hub"

\* A notice for one operator, one for all, and one that is not kept.
MCRecipient == "waiting" :> "ann" @@ "reminder" :> "all" @@ "done" :> "all"

-----------------------------------------------------------------------------
(* One subject at a time.                                                  *)

Subjects == {"pilot", "migrations", "plan", "stream", "agent", "cleanup", "inbox", "planning"}

\* The inputs of a part that is not the subject do not matter: one of them.
OneInput ==
  /\ subject # "pilot" => /\ mode = [chain |-> FALSE, steered |-> FALSE] /\ pc = "open" /\ prs = 0
                          /\ repo = [tree |-> {}, stash |-> <<>>, ahead |-> FALSE]
  /\ subject # "plan" => plan = [nodes |-> {}, deps |-> <<>>, legible |-> FALSE]
  /\ subject # "cleanup" => /\ tree = [w \in Clean!Worktrees |-> "clean"]
                            /\ branch = [w \in Clean!Worktrees |-> "merged"]
  /\ subject # "planning" => source = "edit"

InitServices ==
  /\ subject \in Subjects /\ OneInput
  /\ Init /\ InitMigrations /\ Stream!Init /\ Agent!Init /\ Clean!Init /\ Notice!Init /\ Graph!Init
  /\ Planned!InitPlanning

graphVars == <<plan, phase, color, stack, remaining, cycle, depth>>
streamVars == <<rows, drawn, lock, writer, stream, after, stored, heard, counted, valid, connects>>
agentVars == <<step, tries, resumes, input, told, events, progress, res, spent, trailing>>
cleanVars == <<tree, branch, listed, at, doing, force, consented>>
noticeVars == <<attempts, sending, items, reads>>
plannedVars == <<source, clone, worker, before, answer, flow, asked, result, stores, lateStore,
                 document, readySent, began, left, entry, pending>>

NextServices ==
  \/ /\ subject = "pilot" /\ Next
     /\ UNCHANGED <<subject, migrationVars, graphVars, streamVars, agentVars, cleanVars, noticeVars,
                    plannedVars>>
  \/ /\ subject = "migrations" /\ NextMigrations
     /\ UNCHANGED <<subject, vars, graphVars, streamVars, agentVars, cleanVars, noticeVars,
                    plannedVars>>
  \/ /\ subject = "plan" /\ Graph!Next
     /\ UNCHANGED <<subject, vars, migrationVars, streamVars, agentVars, cleanVars, noticeVars,
                    plannedVars>>
  \/ /\ subject = "stream" /\ Stream!Next
     /\ UNCHANGED <<subject, vars, migrationVars, graphVars, agentVars, cleanVars, noticeVars,
                    plannedVars>>
  \/ /\ subject = "agent" /\ Agent!Next
     /\ UNCHANGED <<subject, vars, migrationVars, graphVars, streamVars, cleanVars, noticeVars,
                    plannedVars>>
  \/ /\ subject = "cleanup" /\ Clean!Next
     /\ UNCHANGED <<subject, vars, migrationVars, graphVars, streamVars, agentVars, noticeVars,
                    plannedVars>>
  \/ /\ subject = "inbox" /\ Notice!Next
     /\ UNCHANGED <<subject, vars, migrationVars, graphVars, streamVars, agentVars, cleanVars,
                    plannedVars>>
  \/ /\ subject = "planning" /\ Planned!NextPlanning
     /\ UNCHANGED <<subject, vars, migrationVars, graphVars, streamVars, agentVars, cleanVars, noticeVars>>

allVars ==
  <<subject, vars, migrationVars, graphVars, streamVars, agentVars, cleanVars, noticeVars,
    plannedVars>>

\* Each part's own fairness, which asks nothing of the parts that stand still.
Fairness ==
  MigrationFairness /\ WF_vars(subject = "pilot" /\ Step)
                    /\ WF_vars(subject = "pilot" /\ StopWaiting /\ cancelled)

ServicesSpec == InitServices /\ [][NextServices]_allVars /\ Fairness

-----------------------------------------------------------------------------
\* The pilot loop ends, where it is the subject.
PilotLoopEnds == subject = "pilot" => PilotEnds

=============================================================================
