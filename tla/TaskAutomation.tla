--------------------------- MODULE TaskAutomation ---------------------------
(***************************************************************************)
(* The automation of one task: the HTTP requests that create jobs, move    *)
(* the card, approve it and cancel jobs, the job goroutines they launch,   *)
(* and a crash of the server.  Each request of Requests happens once, so   *)
(* Requests bounds the environment, and Jobs the run ids.                  *)
(***************************************************************************)
EXTENDS TaskPipeline

CONSTANTS
  StartPlans,       \* plans the task may have been planned with already
  Offered,          \* the kinds of request the environment makes
  Posted,           \* the actions it enqueues with POST jobs
  DragTo,           \* the columns it drags the card to
  SerialRequests,   \* a request begins only when the others have answered
  QuietPosts        \* a job is posted only when no job of the task is active

ASSUME EnvironmentAssumption ==
  /\ StartPlans \subseteq Plans \ {<< >>}
  /\ Offered \subseteq Kinds /\ Posted \subseteq Actions /\ DragTo \subseteq Columns
  /\ {SerialRequests, QuietPosts} \subseteq BOOLEAN

\* columnJobAction: the other columns start nothing.
ColumnAction(column) == IF column = "queue" THEN "run-planning"
                        ELSE "run-implementation"
StartsJob(column) == column \in {"queue", "in_progress"}

\* Mutant: a running job does not block a drag.
JobIsActiveMutant == \E k \in Jobs : jobState[k] \in {"queued", "starting"}

JobIsActive == \E k \in Jobs : jobState[k] \in Active

Answered(r) == pc[r] \in {"idle", "done", "dead"}

\* Request r of this kind arrives.
Arrives(r, kind) ==
  /\ pc[r] = "idle"
  /\ kind \in Offered
  /\ SerialRequests => \A s \in Requests : Answered(s)

-----------------------------------------------------------------------------
(* POST jobs, and the pipeline a new task is created with: the record is   *)
(* created, then written again and its goroutine launched.                 *)

CreateFor(r, action) ==
  /\ CreateJob(action)
  /\ Go(r, "launch")
  /\ loc' = [loc EXCEPT ![r].job = NextJob]

PostJob(r) ==
  /\ Arrives(r, "post")
  /\ QuietPosts => ~JobIsActive
  /\ \E action \in Posted : CreateFor(r, action)
  /\ UNCHANGED task

Launch(r) ==
  /\ pc[r] = "launch"
  /\ UpdateJob(loc[r].job, "queued")
  /\ pc' = [pc EXCEPT ![r] = "done", ![loc[r].job] = "start"]
  /\ loc' = [loc EXCEPT ![r] = Fresh]
  /\ UNCHANGED <<task, op>>

-----------------------------------------------------------------------------
(* A drag: the move, then the gate of maybeStartJobForColumn, in sections. *)

Drag(r) ==
  /\ Arrives(r, "drag")
  /\ \E column \in DragTo :
       /\ MoveTask(column)
       /\ IF StartsJob(column)
          THEN /\ Go(r, "drag.paused")
               /\ loc' = [loc EXCEPT ![r].step = ColumnAction(column)]
          ELSE Leave(r)
  /\ UNCHANGED <<approved, plan, prog, records>>

DragPaused(r) ==
  /\ pc[r] = "drag.paused"
  /\ IF prog.paused THEN Leave(r) ELSE Go(r, "drag.list") /\ UNCHANGED loc
  /\ UNCHANGED <<task, records>>

\* Any active job of the task blocks a new one.
DragList(r) ==
  /\ pc[r] = "drag.list"
  /\ IF JobIsActive THEN Leave(r) ELSE Go(r, "drag.create") /\ UNCHANGED loc
  /\ UNCHANGED <<task, records>>

DragCreate(r) ==
  /\ pc[r] = "drag.create"
  /\ \/ CreateFor(r, loc[r].step)
     \/ OutOfJobs /\ Leave(r) /\ UNCHANGED records
  /\ UNCHANGED task

-----------------------------------------------------------------------------
(* Approve and cancel. *)

Approve(r) ==
  /\ Arrives(r, "approve")
  /\ Go(r, "approve")
  /\ UNCHANGED <<task, records, loc>>

\* GetJob: only a job that is not terminal is cancelled.
CancelRead(r) ==
  /\ Arrives(r, "cancel")
  /\ \E k \in Jobs : /\ jobState[k] \in Active
                     /\ loc' = [loc EXCEPT ![r].job = k]
  /\ Go(r, "cancel.put")
  /\ UNCHANGED <<task, records>>

\* The record is overwritten; a cancelled automation job also leaves a stuck
\* mark on the plan (markJobCancelledStuck is RepairStep).
CancelWrite(r) ==
  /\ pc[r] = "cancel.put"
  /\ UpdateJob(loc[r].job, "cancelled")
  /\ IF op[loc[r].job] \in Automation
     THEN Go(r, "repair") /\ UNCHANGED loc ELSE Leave(r)
  /\ UNCHANGED <<task, op>>

\* The server dies: goroutines and handlers are gone, the files stay.  Nothing
\* resumes or fails the jobs they ran when the server starts again.
Crash(r) ==
  /\ Arrives(r, "crash")
  /\ pc' = [p \in Procs |->
              IF p = r THEN "done"
              ELSE IF pc[p] \in {"none", "idle", "done"} THEN pc[p] ELSE "dead"]
  /\ loc' = [p \in Procs |-> Fresh]
  /\ UNCHANGED <<task, records>>

RequestStep(r) ==
  \/ Launch(r) \/ DragPaused(r) \/ DragList(r) \/ DragCreate(r)
  \/ CancelWrite(r) \/ RepairStep(r) \/ ApproveForCoding(r)

Request(r) ==
  PostJob(r) \/ Drag(r) \/ Approve(r) \/ CancelRead(r) \/ Crash(r)

JobStep(j) == ExecutorStep(j) \/ PipelineStep(j) \/ ApproveForCoding(j)

-----------------------------------------------------------------------------

\* A task just created, in the backlog with a drafted plan without phases, or
\* one that a planning job has left.
Init ==
  /\ \/ plan = << >> /\ status = "backlog"
     \/ plan \in StartPlans
        /\ status = IF RequireReview THEN "human_review" ELSE "queue"
  /\ approved = FALSE /\ prog = NoProgress
  /\ jobState = [k \in Jobs |-> "none"]
  /\ op = [p \in Procs |-> "none"]
  /\ pc = [p \in Procs |-> IF p \in Jobs THEN "none" ELSE "idle"]
  /\ loc = [p \in Procs |-> Fresh]

Finished ==
  /\ \A p \in Procs : pc[p] \in {"none", "idle", "done", "dead"}
  /\ UNCHANGED vars

Next ==
  \/ \E j \in Jobs : JobStep(j)
  \/ \E r \in Requests : RequestStep(r) \/ Request(r)
  \/ Finished

Spec == Init /\ [][Next]_vars

\* Goroutines are scheduled and their calls return; requests may never come.
FairSpec ==
  /\ Spec
  /\ \A j \in Jobs : WF_vars(JobStep(j))
  /\ \A r \in Requests : WF_vars(RequestStep(r))

=============================================================================
