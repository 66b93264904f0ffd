----------------------------- MODULE TaskStore ------------------------------
(***************************************************************************)
(* What the job automation of one task persists under OPM_DATA_DIR, and    *)
(* the store calls that read and write it.  Every store call takes the     *)
(* store's mutex for one read or one write (withProject), so a step of the *)
(* specification is one store call: handlers and job goroutines interleave *)
(* between any two of them.                                                *)
(***************************************************************************)
EXTENDS TaskPlan

CONSTANTS
  Jobs,             \* run ids a run of the system may use
  Requests,         \* HTTP requests a run of the system may serve
  ModelPlans,       \* plans a model runner may return
  RequireReview,    \* requireReviewBeforeCoding of the task
  Autopilot,        \* humanReviewRequired is false
  AutoChain,        \* OPM_IMPL_AUTO_CHAIN
  Container,        \* preferContainerSpawn: docker and the image are there
  Faults,           \* clones, model resolution and containers may fail
  BudgetSlack, BudgetMin, BudgetMax  \* the pipeline's step budget

ASSUME ConfigAssumption ==
  /\ Jobs \cap Requests = {}
  /\ ModelPlans \subseteq Plans \ {<< >>}
  /\ Container => ModelPlans # {}
  /\ {RequireReview, Autopilot, AutoChain, Container, Faults} \subseteq BOOLEAN
  /\ {BudgetSlack, BudgetMin, BudgetMax} \subseteq Nat

VARIABLES
  status,     \* the card's column: task.json and board.json
  approved,   \* review_state.json
  plan,       \* implementation_plan.json
  prog,       \* progress.json: paused, is_running and the stuck subtask
  jobState,   \* runs/<runId>.json: the State of each job
  op,         \* the Action of each job, "none" for a request
  pc,         \* where each job goroutine and request handler is
  loc         \* their local variables

task == <<status, approved, plan, prog>>
records == <<jobState, op>>
vars == <<status, approved, plan, prog, jobState, op, pc, loc>>

Procs == Jobs \cup Requests

Columns == {"backlog", "queue", "in_progress", "review", "human_review", "done"}

Planning == {"run-planning", "run-followup-planning"}
Pausing == {"pause-task", "resume-task"}
Repairs == {"recover-subtask", "mark-stuck", "skip-to-phase"}
Actions == Planning \cup Pausing \cup Repairs
             \cup {"run-implementation", "run-pipeline"}
Kinds == {"post", "drag", "cancel", "approve", "crash"}

\* The jobs a pause stops, and those a cancel marks a stuck subtask for.
Automation == Planning \cup {"run-implementation", "run-pipeline"}

\* Actions with an agent phase: their runs resolve a model.
Agents == Planning \cup {"run-implementation"}

Active == {"queued", "starting", "running"}
Terminal == {"completed", "failed", "cancelled"}
JobStates == Active \cup Terminal \cup {"none"}

Progress == [paused : BOOLEAN, running : BOOLEAN, stuck : Nat \X Nat]
NoProgress == [paused |-> FALSE, running |-> FALSE, stuck |-> NoSubtask]

\* A process that has no local state to remember.
Fresh == [plan |-> << >>, prog |-> NoProgress, err |-> FALSE, model |-> FALSE,
          seen |-> "none", card |-> "backlog", step |-> "none", n |-> 0,
          ret |-> "done", job |-> "none"]

Go(p, label) == pc' = [pc EXCEPT ![p] = label]

\* The process returns: its locals die with it.
Leave(p) == /\ Go(p, "done")
            /\ loc' = [loc EXCEPT ![p] = Fresh]

\* The process fails the operation it runs and continues at label.
Abort(p, label) == /\ Go(p, label)
                   /\ loc' = [loc EXCEPT ![p].err = TRUE]

MoveTask(to) == status' = to

UpdateJob(j, s) == jobState' = [jobState EXCEPT ![j] = s]

\* The next run id; which one it is never matters.
NextJob == CHOOSE k \in Jobs : jobState[k] = "none"

OutOfJobs == \A k \in Jobs : jobState[k] # "none"

\* CreateJobWithOrigin: a new run id, persisted as queued.
CreateJob(action) ==
  /\ ~OutOfJobs
  /\ UpdateJob(NextJob, "queued")
  /\ op' = [op EXCEPT ![NextJob] = action]

\* ApproveForCoding: a check, a move and the approval mark, in three sections.
ApproveCheck(p) ==
  /\ pc[p] = "approve"
  /\ IF status = "human_review"
     THEN Go(p, "approve.move") /\ UNCHANGED loc
     ELSE CASE p \in Requests -> Leave(p)
            [] op[p] \in Planning -> Go(p, "complete") /\ UNCHANGED loc
            [] OTHER -> Abort(p, "pipe.defer")
  /\ UNCHANGED <<task, records>>

ApproveMove(p) ==
  /\ pc[p] = "approve.move"
  /\ MoveTask("queue")
  /\ Go(p, "approve.mark")
  /\ UNCHANGED <<approved, plan, prog, records, loc>>

ApproveMark(p) ==
  /\ pc[p] = "approve.mark"
  /\ approved' = TRUE
  /\ IF p \in Requests THEN Leave(p) ELSE Go(p, loc[p].ret) /\ UNCHANGED loc
  /\ UNCHANGED <<status, plan, prog, records>>

ApproveForCoding(p) == ApproveCheck(p) \/ ApproveMove(p) \/ ApproveMark(p)

=============================================================================
